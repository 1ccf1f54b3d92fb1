------------------------------- MODULE CrmProofs -------------------------------
(***************************************************************************)
(* What holds of the leads and of the meetings with them for any number of *)
(* agents, leads, requests, jobs, sweeps and calls of Cal.com; and of the  *)
(* form of a lead's answers, and of the columns its scenario has for them, *)
(* for any scenario, however it is edited, and any number of pages.        *)
(***************************************************************************)
EXTENDS LeadForms, Appointments, FiniteSetTheorems, TLAPS

Seen == [tags: SUBSET Tags, fields: [Keys -> Answers \cup {NULL}]]

\* What the tag or the member a job is at must be.
Ready(b) == /\ b.pc \in {"tag", "logTag"} => b.to \in Tags
            /\ b.pc \in {"give", "logOwner"} => b.to \in Users

LeadsInv == LeadsTypeOK /\ \A j \in Jobs : Ready(job[j])

-------------------------------------------------------------------------------
(* Rows and edits *)

\* What a form asks for is of one of these kinds.
LEMMA EditKinds ==
  ASSUME NEW e \in Edit
  PROVE  \/ e.kind \in {"set", "bulk"} /\ e.col \in Columns /\ e.to \in Ranges[e.col]
         \/ e.kind \in {"tag", "untag"} /\ e.col \in Tags /\ e.to = NULL
         \/ e.kind = "field" /\ e.col \in Keys /\ e.to \in Answers \cup {NULL}
         \/ e.kind = "note" /\ e.col = NULL /\ e.to = NULL
<1>1. CASE \E c \in Columns : e \in [kind: {"set", "bulk"}, col: {c}, to: Ranges[c]]
  BY <1>1
<1>2. CASE e \in [kind: {"tag", "untag"}, col: Tags, to: {NULL}]
  BY <1>2
<1>3. CASE e \in [kind: {"field"}, col: Keys, to: Answers \cup {NULL}]
  BY <1>3
<1>4. CASE e \in [kind: {"note"}, col: {NULL}, to: {NULL}]
  BY <1>4
<1> DEFINE sets == {[kind: {"set", "bulk"}, col: {c}, to: Ranges[c]] : c \in Columns}
<1>5. (\E S \in sets : e \in S) => \E c \in Columns : e \in [kind: {"set", "bulk"}, col: {c}, to: Ranges[c]]
  OBVIOUS
<1>6. \/ e \in UNION sets
      \/ e \in [kind: {"tag", "untag"}, col: Tags, to: {NULL}]
      \/ e \in [kind: {"field"}, col: Keys, to: Answers \cup {NULL}]
      \/ e \in [kind: {"note"}, col: {NULL}, to: {NULL}]
  BY DEF Edit
<1> HIDE DEF sets
<1>7. CASE e \in UNION sets
  BY <1>1, <1>5, <1>7
<1> QED
  BY <1>2, <1>3, <1>4, <1>6, <1>7

LEMMA NewLeadType == NewLead \in Row
BY DEF NewLead, Row, Statuses, Open

\* One column of a row is written.
LEMMA SetColumn ==
  ASSUME NEW row \in Row, NEW c \in Columns, NEW v \in Ranges[c]
  PROVE  /\ [row EXCEPT ![c] = v] \in Row
         /\ \A d \in Columns : d # c => [row EXCEPT ![c] = v][d] = row[d]
         /\ [row EXCEPT ![c] = v][c] = v
         /\ [row EXCEPT ![c] = v].tags = row.tags /\ [row EXCEPT ![c] = v].fields = row.fields
<1>1. CASE c = "status"
  BY <1>1 DEF Row, Ranges, Columns
<1>2. CASE c = "owner"
  BY <1>2 DEF Row, Ranges, Columns
<1>3. CASE c = "product"
  BY <1>3 DEF Row, Ranges, Columns
<1>4. CASE c = "summary"
  BY <1>4 DEF Row, Ranges, Columns
<1> QED
  BY <1>1, <1>2, <1>3, <1>4 DEF Columns

\* The tags, or the answers, of a row are written.
LEMMA SetTags ==
  ASSUME NEW row \in Row, NEW tags \in SUBSET Tags
  PROVE  /\ [row EXCEPT !.tags = tags] \in Row
         /\ \A d \in Columns : [row EXCEPT !.tags = tags][d] = row[d]
         /\ [row EXCEPT !.tags = tags].tags = tags /\ [row EXCEPT !.tags = tags].fields = row.fields
BY DEF Row, Columns

LEMMA SetFields ==
  ASSUME NEW row \in Row, NEW fields \in [Keys -> Answers \cup {NULL}]
  PROVE  /\ [row EXCEPT !.fields = fields] \in Row
         /\ \A d \in Columns : [row EXCEPT !.fields = fields][d] = row[d]
         /\ [row EXCEPT !.fields = fields].fields = fields /\ [row EXCEPT !.fields = fields].tags = row.tags
BY DEF Row, Columns

LEMMA UpdateType ==
  ASSUME NEW row \in Row, NEW seen \in Seen, NEW e \in Edit
  PROVE  Update(row, seen, e) \in Row
<1>1. CASE e.kind \in {"set", "bulk"} /\ e.col \in Columns /\ e.to \in Ranges[e.col]
  BY <1>1, SetColumn DEF Update
<1>2. CASE e.kind \in {"tag", "untag"} /\ e.col \in Tags
  <2>1. seen.tags \cup {e.col} \in SUBSET Tags /\ seen.tags \ {e.col} \in SUBSET Tags
    BY <1>2 DEF Seen
  <2> QED
    BY <1>2, <2>1, SetTags DEF Update
<1>3. CASE e.kind = "field" /\ e.col \in Keys /\ e.to \in Answers \cup {NULL}
  <2>1. [seen.fields EXCEPT ![e.col] = e.to] \in [Keys -> Answers \cup {NULL}]
    BY <1>3 DEF Seen
  <2> QED
    BY <1>3, <2>1, SetFields DEF Update
<1>4. CASE e.kind = "note"
  BY <1>4 DEF Update
<1> QED
  BY <1>1, <1>2, <1>3, <1>4, EditKinds

LEMMA WholeType ==
  ASSUME NEW row \in Row, NEW e \in Edit
  PROVE  Whole(row, e) \in Seen
BY DEF Whole, Seen, Row, NewLead

LEMMA WritesType ==
  ASSUME LeadsTypeOK, NEW p, NEW ls \in SUBSET LeadIds, NEW new \in [LeadIds -> Row], Writes(p, ls, new)
  PROVE  lead' \in [LeadIds -> Row] /\ mixed' \in SUBSET LeadIds
BY DEF LeadsTypeOK, Writes

LEMMA LogsType ==
  ASSUME LeadsTypeOK, NEW by, NEW ls \in SUBSET LeadIds, NEW col, NEW value, Logs(by, ls, col, value),
         \A row \in Row : [row EXCEPT ![col] = value] \in Row
  PROVE  timeline' \in [LeadIds -> Row] /\ unlogged' \in SUBSET LeadIds /\ deaths' \in Nat
<1>1. deaths \in Nat /\ deaths + 1 \in Nat /\ timeline \in [LeadIds -> Row] /\ unlogged \in SUBSET LeadIds
  BY DEF LeadsTypeOK
<1>2. [l \in LeadIds |-> IF l \in ls THEN [timeline[l] EXCEPT ![col] = value] ELSE timeline[l]] \in [LeadIds -> Row]
  BY <1>1
<1> QED
  BY <1>1, <1>2 DEF Logs

-------------------------------------------------------------------------------
(* Types *)

\* A request goes on to pc, or is done.
LEMMA RequestMoves ==
  ASSUME LeadsTypeOK, NEW r \in Requests, request[r].pc \in {"check", "before", "write", "log"},
         NEW pc \in {"check", "before", "write", "log"}
  PROVE  /\ [request EXCEPT ![r].pc = pc] \in [Requests -> Request]
         /\ [request EXCEPT ![r] = Done] \in [Requests -> Request]
<1>1. request[r] \in [pc: {"check", "before", "write", "log"}, by: Users, edit: Edit,
                      on: SUBSET LeadIds, todo: SUBSET LeadIds, seen: Seen]
  BY DEF LeadsTypeOK, Request, New, Done, Seen
<1>2. [request[r] EXCEPT !.pc = pc] \in Request
  BY <1>1 DEF Request, Seen
<1>3. Done \in Request
  BY DEF Request
<1> QED
  BY <1>2, <1>3 DEF LeadsTypeOK

\* A request under way has its form.
LEMMA AtWork ==
  ASSUME LeadsTypeOK, NEW r \in Requests, request[r].pc \in {"check", "before", "write", "log"}
  PROVE  /\ request[r].by \in Users /\ request[r].edit \in Edit /\ request[r].on \in SUBSET LeadIds
         /\ request[r].todo \in SUBSET LeadIds /\ request[r].seen \in Seen
BY DEF LeadsTypeOK, Request, New, Done, Seen

\* A new request.
LEMMA Opened ==
  ASSUME LeadsTypeOK, NEW r \in Requests, NEW u \in Users, NEW e \in Edit, NEW on \in SUBSET LeadIds,
         NEW pc \in {"check", "before", "write"}, NEW seen \in Seen, NEW todo \in SUBSET LeadIds
  PROVE  [request EXCEPT ![r] = [pc |-> pc, by |-> u, edit |-> e, on |-> on, seen |-> seen, todo |-> todo]]
           \in [Requests -> Request]
BY DEF LeadsTypeOK, Request, Seen

LEMMA RequestsKeepTypes ==
  ASSUME LeadsInv, NEW r \in Requests, Edits(r)
  PROVE  LeadsInv'
<1> USE DEF LeadsInv
<1>1. ASSUME NEW u \in Users, NEW e \in Forms, NEW l \in LeadIds, OpenLead(r, u, l, e) PROVE LeadsInv'
  <2>1. e \in Edit /\ Whole(lead[l], e) \in Seen
    <3>1. e \in Edit /\ lead[l] \in Row
      BY EditsAssumption DEF LeadsTypeOK
    <3> QED
      BY <3>1, WholeType
  <2>2. request' \in [Requests -> Request]
    BY <1>1, <2>1, Opened DEF OpenLead
  <2> QED
    BY <1>1, <2>2 DEF OpenLead, KeepsRows, RequestRest, teamVars, botVars, chaseVars, LeadsTypeOK
<1>2. ASSUME NEW u \in Users, NEW e \in Forms, NEW ls \in SUBSET LeadIds, OpenBulk(r, u, ls, e) PROVE LeadsInv'
  <2>1. e \in Edit /\ Whole(NewLead, e) \in Seen
    BY EditsAssumption, WholeType, NewLeadType
  <2>2. request' \in [Requests -> Request]
    BY <1>2, <2>1, Opened DEF OpenBulk
  <2> QED
    BY <1>2, <2>2 DEF OpenBulk, KeepsRows, RequestRest, teamVars, botVars, chaseVars, LeadsTypeOK
<1>3. ASSUME CheckTarget(r) PROVE LeadsInv'
  <2>1. request' \in [Requests -> Request]
    <3>1. /\ request[r].pc = "check"
          /\ \/ \E pc \in {"before", "write"} : request' = [request EXCEPT ![r].pc = pc]
             \/ request' = [request EXCEPT ![r] = Done]
      BY <1>3 DEF CheckTarget, To, Ends, At
    <3>2. /\ \A pc \in {"before", "write"} : [request EXCEPT ![r].pc = pc] \in [Requests -> Request]
          /\ [request EXCEPT ![r] = Done] \in [Requests -> Request]
      BY <3>1, RequestMoves
    <3> QED
      BY <3>1, <3>2
  <2> QED
    BY <1>3, <2>1 DEF CheckTarget, KeepsRows, RequestRest, teamVars, botVars, chaseVars, LeadsTypeOK
<1>4. ASSUME BulkBefore(r) PROVE LeadsInv'
  <2>1. request[r].on \in SUBSET LeadIds /\ request[r] \in Request /\ request[r].pc = "before"
    BY <1>4, AtWork DEF BulkBefore, At, LeadsTypeOK
  <2>2. Before(request[r]) \in SUBSET LeadIds
    BY <2>1 DEF Before
  <2>3. [request[r] EXCEPT !.pc = "write", !.todo = Before(request[r])] \in Request
    <3>1. request[r] \in [pc: {"check", "before", "write", "log"}, by: Users, edit: Edit,
                          on: SUBSET LeadIds, todo: SUBSET LeadIds, seen: Seen]
      BY <2>1 DEF Request, New, Done, Seen
    <3>2. ASSUME NEW todo \in SUBSET LeadIds PROVE [request[r] EXCEPT !.pc = "write", !.todo = todo] \in Request
      BY <3>1 DEF Request, Seen
    <3> QED
      BY <2>2, <3>2
  <2>4. request' \in [Requests -> Request]
    BY <1>4, <2>3 DEF BulkBefore, LeadsTypeOK
  <2> QED
    BY <1>4, <2>4 DEF BulkBefore, KeepsRows, RequestRest, teamVars, botVars, chaseVars, LeadsTypeOK
<1>5. ASSUME WriteLead(r) PROVE LeadsInv'
  <2> DEFINE t == request[r]
             new == [l \in LeadIds |-> Update(lead[l], t.seen, t.edit)]
  <2>1. /\ t.by \in Users /\ t.edit \in Edit /\ t.on \in SUBSET LeadIds /\ t.seen \in Seen
        /\ t.pc = "write"
    BY <1>5, AtWork DEF WriteLead, At
  <2>2. request' \in [Requests -> Request]
    BY <1>5, <2>1, RequestMoves DEF WriteLead, Ends
  <2>3. new \in [LeadIds -> Row]
    BY <2>1, UpdateType DEF LeadsTypeOK
  <2>4. Targets(t) \in SUBSET LeadIds
    BY <2>1 DEF Targets
  <2>5. lead' \in [LeadIds -> Row] /\ mixed' \in SUBSET LeadIds
    <3>1. CASE Writes(r, Targets(t), new)
      <4> HIDE DEF new, t
      <4> QED
        BY <2>3, <2>4, <3>1, WritesType
    <3>2. CASE KeepsRows
      BY <3>2 DEF KeepsRows, LeadsTypeOK
    <3> QED
      BY <1>5, <3>1, <3>2 DEF WriteLead
  <2>6. notes' \in SUBSET (LeadIds \X Users)
    BY <1>5, <2>1 DEF WriteLead, LeadsTypeOK
  <2> QED
    BY <1>5, <2>2, <2>5, <2>6 DEF WriteLead, RequestRest, botVars, chaseVars, LeadsTypeOK
<1>6. ASSUME LogEdit(r) PROVE LeadsInv'
  <2> DEFINE t == request[r]
             e == t.edit
             tags == Update(NewLead, t.seen, e).tags
  <2>1. /\ t.by \in Users /\ e \in Edit /\ t.todo \in SUBSET LeadIds /\ t.seen \in Seen /\ t.pc = "log"
    BY <1>6, AtWork DEF LogEdit, At
  <2>2. request' \in [Requests -> Request]
    BY <1>6, <2>1, RequestMoves DEF LogEdit, Ends
  <2>3. tags \in SUBSET Tags
    BY <2>1, UpdateType, NewLeadType DEF Row
  <2>4. timeline' \in [LeadIds -> Row] /\ unlogged' \in SUBSET LeadIds /\ deaths' \in Nat
    <3>1. CASE e.col \in {"status", "owner", "product"} /\ Logs(t.by, t.todo, e.col, e.to)
      <4>1. e.col \in Columns /\ e.to \in Ranges[e.col]
        BY <2>1, <3>1, EditKinds, LeadsAssumption DEF Columns
      <4>2. \A row \in Row : [row EXCEPT ![e.col] = e.to] \in Row
        BY <4>1, SetColumn
      <4> HIDE DEF t, e
      <4> QED
        BY <2>1, <3>1, <4>2, LogsType
    <3>2. CASE Logs(t.by, t.todo, "tags", tags)
      <4>1. \A row \in Row : [row EXCEPT !["tags"] = tags] \in Row
        BY <2>3, SetTags
      <4> HIDE DEF t, e, tags
      <4> QED
        BY <2>1, <3>2, <4>1, LogsType
    <3>3. CASE UNCHANGED <<timeline, unlogged, deaths>>
      BY <3>3 DEF LeadsTypeOK
    <3> QED
      BY <1>6, <3>1, <3>2, <3>3 DEF LogEdit
  <2> QED
    BY <1>6, <2>2, <2>4 DEF LogEdit, KeepsRows, RequestRest, teamVars, botVars, chaseVars, LeadsTypeOK
<1>7. ASSUME WebDies(r) PROVE LeadsInv'
  <2>1. /\ request[r].pc \in {"check", "before", "write", "log"} /\ request[r].todo \in SUBSET LeadIds
    BY <1>7, AtWork DEF WebDies, LeadsTypeOK, Request, New, Done
  <2>2. request' \in [Requests -> Request]
    BY <1>7, <2>1, RequestMoves DEF WebDies, Ends
  <2>3. deaths' \in Nat /\ unlogged' \in SUBSET LeadIds
    BY <1>7, <2>1 DEF WebDies, LeadsTypeOK
  <2> QED
    BY <1>7, <2>2, <2>3 DEF WebDies, KeepsRows, RequestRest, teamVars, botVars, chaseVars, LeadsTypeOK
<1> QED
  BY <1>1, <1>2, <1>3, <1>4, <1>5, <1>6, <1>7 DEF Edits

\* The step of a job: its new state has its type and what it is at.
LEMMA JobMoves ==
  ASSUME LeadsInv, NEW j \in Jobs, NEW b \in Job, Ready(b), job' = [job EXCEPT ![j] = b]
  PROVE  job' \in [Jobs -> Job] /\ \A i \in Jobs : Ready(job'[i])
BY DEF LeadsInv, LeadsTypeOK

Working == [pc: {"next", "tag", "pick", "give", "logTag", "logOwner"}, on: LeadIds, owner: Users \cup {NULL},
            fields: [Keys -> Answers \cup {NULL}], tags: SUBSET Tags, to: Users \cup Tags \cup {NULL},
            todo: SUBSET {"tag", "owner", "notify"}, told: SUBSET Users]

LEMMA JobAtWork ==
  ASSUME LeadsTypeOK, NEW j \in Jobs, job[j].pc \notin {"new", "done"}
  PROVE  job[j] \in Working
BY DEF LeadsTypeOK, Job, Working, New, Done

LEMMA WorkingIsJob == \A b \in Working : b \in Job
BY DEF Working, Job

LEMMA JobsKeepTypes ==
  ASSUME LeadsInv, NEW j \in Jobs, Routes(j)
  PROVE  LeadsInv'
<1> USE DEF LeadsInv
<1> DEFINE b == job[j]
<1>0. Done \in Job /\ Ready(Done)
  BY DEF Job, Ready, Done
<1>1. ASSUME NEW l \in LeadIds, NEW todo \in SUBSET {"tag", "owner", "notify"}, StartJob(j, l, todo) PROVE LeadsInv'
  <2> DEFINE c == [pc |-> "next", on |-> l, owner |-> lead[l].owner, fields |-> lead[l].fields,
                   tags |-> {}, to |-> NULL, todo |-> todo, told |-> {}]
  <2>1. c \in Working /\ Ready(c)
    BY DEF Working, Ready, LeadsTypeOK, Row
  <2>2. job' = [job EXCEPT ![j] = c]
    BY <1>1 DEF StartJob
  <2> HIDE DEF c
  <2>3. job' \in [Jobs -> Job] /\ \A i \in Jobs : Ready(job'[i])
    BY <2>1, <2>2, WorkingIsJob, JobMoves
  <2> QED
    BY <1>1, <2>3 DEF StartJob, KeepsRows, NoLog, JobRest, teamVars, chaseVars, LeadsTypeOK
<1>2. ASSUME NEW tag \in Tags, ReadTags(j, tag) PROVE LeadsInv'
  <2>1. b \in Working /\ lead[b.on] \in Row
    BY <1>2, JobAtWork DEF ReadTags, JobAt, LeadsTypeOK, Working
  <2> DEFINE c == [b EXCEPT !.todo = @ \ {"tag"}]
             d == [b EXCEPT !.pc = "tag", !.todo = @ \ {"tag"}, !.to = tag, !.tags = lead[b.on].tags]
  <2>2. c \in Working /\ Ready(c) /\ d \in Working /\ Ready(d)
    BY <1>2, <2>1 DEF Working, Ready, Row, ReadTags, JobAt
  <2>3. job' = [job EXCEPT ![j] = c] \/ job' = [job EXCEPT ![j] = d]
    BY <1>2 DEF ReadTags
  <2> HIDE DEF c, d
  <2>4. job' \in [Jobs -> Job] /\ \A i \in Jobs : Ready(job'[i])
    BY <2>2, <2>3, WorkingIsJob, JobMoves
  <2> QED
    BY <1>2, <2>4 DEF ReadTags, KeepsRows, NoLog, JobRest, teamVars, chaseVars, LeadsTypeOK
<1>3. ASSUME WriteTags(j) PROVE LeadsInv'
  <2>1. b \in Working /\ b.on \in LeadIds /\ b.to \in Tags /\ b.tags \in SUBSET Tags
    BY <1>3, JobAtWork DEF WriteTags, JobAt, Working, Ready
  <2> DEFINE c == [b EXCEPT !.pc = "logTag"]
             new == [l \in LeadIds |-> [lead[l] EXCEPT !.tags = b.tags \cup {b.to}]]
  <2>2. c \in Working /\ Ready(c)
    BY <2>1 DEF Working, Ready
  <2>3. job' = [job EXCEPT ![j] = c] /\ Writes(j, {b.on}, new)
    BY <1>3 DEF WriteTags
  <2>4. new \in [LeadIds -> Row]
    <3>1. b.tags \cup {b.to} \in SUBSET Tags
      BY <2>1
    <3>2. \A l \in LeadIds : [lead[l] EXCEPT !.tags = b.tags \cup {b.to}] \in Row
      BY <3>1, SetTags DEF LeadsTypeOK
    <3> QED
      BY <3>2
  <2> HIDE DEF c, new
  <2>5. job' \in [Jobs -> Job] /\ \A i \in Jobs : Ready(job'[i])
    BY <2>2, <2>3, WorkingIsJob, JobMoves
  <2>6. lead' \in [LeadIds -> Row] /\ mixed' \in SUBSET LeadIds
    BY <2>1, <2>3, <2>4, WritesType
  <2> QED
    BY <1>3, <2>5, <2>6 DEF WriteTags, NoLog, JobRest, teamVars, chaseVars, LeadsTypeOK
<1>4. ASSUME LogTags(j) PROVE LeadsInv'
  <2>1. b \in Working /\ b.on \in LeadIds /\ b.to \in Tags /\ b.tags \in SUBSET Tags
    BY <1>4, JobAtWork DEF LogTags, JobAt, Working, Ready
  <2> DEFINE c == [b EXCEPT !.pc = "next", !.to = NULL, !.tags = {}]
             tags == b.tags \cup {b.to}
  <2>2. c \in Working /\ Ready(c)
    BY <2>1 DEF Working, Ready
  <2>3. job' = [job EXCEPT ![j] = c] /\ Logs(NULL, {b.on}, "tags", tags)
    BY <1>4 DEF LogTags
  <2>4. \A row \in Row : [row EXCEPT !["tags"] = tags] \in Row
    BY <2>1, SetTags
  <2> HIDE DEF c, tags
  <2>5. job' \in [Jobs -> Job] /\ \A i \in Jobs : Ready(job'[i])
    BY <2>2, <2>3, WorkingIsJob, JobMoves
  <2>6. timeline' \in [LeadIds -> Row] /\ unlogged' \in SUBSET LeadIds /\ deaths' \in Nat
    BY <2>1, <2>3, <2>4, LogsType
  <2> QED
    BY <1>4, <2>5, <2>6 DEF LogTags, KeepsRows, JobRest, teamVars, chaseVars, LeadsTypeOK
<1>5. ASSUME ReadOwner(j) PROVE LeadsInv'
  <2>1. b \in Working /\ lead[b.on] \in Row
    BY <1>5, JobAtWork DEF ReadOwner, JobAt, LeadsTypeOK, Working
  <2> DEFINE c == [b EXCEPT !.todo = @ \ {"owner"}, !.owner = lead[b.on].owner]
             d == [b EXCEPT !.pc = "pick", !.todo = @ \ {"owner"}]
  <2>2. c \in Working /\ Ready(c) /\ d \in Working /\ Ready(d)
    BY <1>5, <2>1 DEF Working, Ready, Row, ReadOwner, JobAt
  <2>3. job' = [job EXCEPT ![j] = c] \/ job' = [job EXCEPT ![j] = d]
    BY <1>5 DEF ReadOwner
  <2> HIDE DEF c, d
  <2>4. job' \in [Jobs -> Job] /\ \A i \in Jobs : Ready(job'[i])
    BY <2>2, <2>3, WorkingIsJob, JobMoves
  <2> QED
    BY <1>5, <2>4 DEF ReadOwner, KeepsRows, NoLog, JobRest, teamVars, chaseVars, LeadsTypeOK
<1>6. ASSUME NEW named, PickAssignee(j, named) PROVE LeadsInv'
  <2>1. b \in Working
    BY <1>6, JobAtWork DEF PickAssignee, JobAt
  <2>2. PICK u \in members : job' = [job EXCEPT ![j].pc = "give", ![j].to = u]
    BY <1>6 DEF PickAssignee
  <2> DEFINE c == [b EXCEPT !.pc = "give", !.to = u]
  <2>3. c \in Working /\ Ready(c)
    BY <2>1 DEF Working, Ready, LeadsTypeOK
  <2>4. job' = [job EXCEPT ![j] = c]
    BY <2>2 DEF LeadsTypeOK
  <2> HIDE DEF c
  <2>5. job' \in [Jobs -> Job] /\ \A i \in Jobs : Ready(job'[i])
    BY <2>3, <2>4, WorkingIsJob, JobMoves
  <2> QED
    BY <1>6, <2>5 DEF PickAssignee, KeepsRows, NoLog, JobRest, teamVars, chaseVars, LeadsTypeOK
<1>7. ASSUME GiveLead(j) PROVE LeadsInv'
  <2>1. b \in Working /\ b.on \in LeadIds /\ b.to \in Users
    BY <1>7, JobAtWork DEF GiveLead, JobAt, Working, Ready
  <2> DEFINE c == [b EXCEPT !.pc = "logOwner"]
             new == [l \in LeadIds |-> [lead[l] EXCEPT !.owner = b.to]]
  <2>2. c \in Working /\ Ready(c)
    BY <2>1 DEF Working, Ready
  <2>3. \/ job' = [job EXCEPT ![j] = c] /\ Writes(j, {b.on}, new)
        \/ job' = [job EXCEPT ![j] = Done] /\ KeepsRows
    BY <1>7 DEF GiveLead, Finishes
  <2>4. new \in [LeadIds -> Row]
    BY <2>1, SetColumn DEF LeadsTypeOK, Columns, Ranges
  <2> HIDE DEF c, new
  <2>5. job' \in [Jobs -> Job] /\ \A i \in Jobs : Ready(job'[i])
    BY <1>0, <2>2, <2>3, WorkingIsJob, JobMoves
  <2>6. lead' \in [LeadIds -> Row] /\ mixed' \in SUBSET LeadIds
    <3>1. CASE Writes(j, {b.on}, new)
      BY <2>1, <2>4, <3>1, WritesType
    <3>2. CASE KeepsRows
      BY <3>2 DEF KeepsRows, LeadsTypeOK
    <3> QED
      BY <2>3, <3>1, <3>2
  <2> QED
    BY <1>7, <2>5, <2>6 DEF GiveLead, NoLog, JobRest, teamVars, chaseVars, LeadsTypeOK
<1>8. ASSUME LogOwner(j) PROVE LeadsInv'
  <2>1. b \in Working /\ b.on \in LeadIds /\ b.to \in Users
    BY <1>8, JobAtWork DEF LogOwner, JobAt, Working, Ready
  <2> DEFINE c == [b EXCEPT !.pc = "next", !.to = NULL, !.owner = b.to]
  <2>2. c \in Working /\ Ready(c)
    BY <2>1 DEF Working, Ready
  <2>3. job' = [job EXCEPT ![j] = c] /\ Logs(NULL, {b.on}, "owner", b.to)
    BY <1>8 DEF LogOwner, Remembered
  <2>4. \A row \in Row : [row EXCEPT !["owner"] = b.to] \in Row
    BY <2>1, SetColumn DEF Columns, Ranges
  <2> HIDE DEF c
  <2>5. job' \in [Jobs -> Job] /\ \A i \in Jobs : Ready(job'[i])
    BY <2>2, <2>3, WorkingIsJob, JobMoves
  <2>6. timeline' \in [LeadIds -> Row] /\ unlogged' \in SUBSET LeadIds /\ deaths' \in Nat
    <3> HIDE DEF b
    <3> QED
      BY <2>1, <2>3, <2>4, LogsType
  <2> QED
    BY <1>8, <2>5, <2>6 DEF LogOwner, KeepsRows, JobRest, teamVars, chaseVars, LeadsTypeOK
<1>9. ASSUME NotifyAgent(j) PROVE LeadsInv'
  <2>1. b \in Working
    BY <1>9, JobAtWork DEF NotifyAgent, JobAt
  <2> DEFINE c == [b EXCEPT !.todo = @ \ {"notify"}, !.told = Recipients(b.owner)]
  <2>2. Recipients(b.owner) \in SUBSET Users
    BY DEF Recipients, LeadsTypeOK
  <2>3. c \in Working /\ Ready(c)
    <3>1. c \in Working
      BY <2>1, <2>2 DEF Working
    <3>2. c.pc = b.pc /\ b.pc = "next"
      BY <1>9, <2>1 DEF NotifyAgent, JobAt, Working
    <3> QED
      BY <3>1, <3>2 DEF Ready
  <2>4. job' = [job EXCEPT ![j] = c]
    BY <1>9 DEF NotifyAgent, LeadsTypeOK
  <2> HIDE DEF c
  <2>5. job' \in [Jobs -> Job] /\ \A i \in Jobs : Ready(job'[i])
    BY <2>3, <2>4, WorkingIsJob, JobMoves
  <2> QED
    BY <1>9, <2>5 DEF NotifyAgent, KeepsRows, NoLog, JobRest, teamVars, chaseVars, LeadsTypeOK
<1>10. ASSUME NEW f \in Finds, Persist(j, f[1], f[2]) PROVE LeadsInv'
  <2>1. b.on \in LeadIds /\ b.fields \in [Keys -> Answers \cup {NULL}] /\ f[1] \in Keys /\ f[2] \in Answers
    BY <1>10, JobAtWork, LeadsAssumption DEF Persist, JobAt, Working
  <2> DEFINE new == [l \in LeadIds |-> [lead[l] EXCEPT !.fields = [b.fields EXCEPT ![f[1]] = f[2]]]]
  <2>2. job' = [job EXCEPT ![j] = Done] /\ Writes(j, {b.on}, new)
    BY <1>10 DEF Persist, Finishes
  <2>3. [b.fields EXCEPT ![f[1]] = f[2]] \in [Keys -> Answers \cup {NULL}]
    BY <2>1
  <2>4. new \in [LeadIds -> Row]
    <3> DEFINE fields == [b.fields EXCEPT ![f[1]] = f[2]]
    <3>1. fields \in [Keys -> Answers \cup {NULL}]
      BY <2>3
    <3> HIDE DEF fields
    <3>2. \A row \in Row : [row EXCEPT !.fields = fields] \in Row
      BY <3>1, SetFields
    <3>3. [l \in LeadIds |-> [lead[l] EXCEPT !.fields = fields]] \in [LeadIds -> Row]
      BY <3>2 DEF LeadsTypeOK
    <3> QED
      BY <3>3 DEF fields
  <2> HIDE DEF new
  <2>5. job' \in [Jobs -> Job] /\ \A i \in Jobs : Ready(job'[i])
    BY <1>0, <2>2, JobMoves
  <2>6. lead' \in [LeadIds -> Row] /\ mixed' \in SUBSET LeadIds
    BY <2>1, <2>2, <2>4, WritesType
  <2> QED
    BY <1>10, <2>5, <2>6 DEF Persist, NoLog, JobRest, teamVars, chaseVars, LeadsTypeOK
<1>11. ASSUME NothingSaved(j) PROVE LeadsInv'
  <2>1. job' \in [Jobs -> Job] /\ \A i \in Jobs : Ready(job'[i])
    BY <1>0, <1>11, JobMoves DEF NothingSaved, Finishes
  <2> QED
    BY <1>11, <2>1 DEF NothingSaved, KeepsRows, NoLog, JobRest, teamVars, chaseVars, LeadsTypeOK
<1> QED
  BY <1>1, <1>2, <1>3, <1>4, <1>5, <1>6, <1>7, <1>8, <1>9, <1>10, <1>11 DEF Routes

LEMMA SweepsKeepTypes ==
  ASSUME LeadsInv, FollowUpsNext
  PROVE  LeadsInv'
<1> USE DEF LeadsInv
<1> SUFFICES sweep' \in [Sweeps -> Sweep] /\ chased' \in [LeadIds -> Chased] /\ deaths' \in Nat
             /\ UNCHANGED <<lead, members, products, notes, request, job, timeline, mixed, unlogged>>
  BY DEF LeadsTypeOK
<1>0. sweep \in [Sweeps -> Sweep] /\ chased \in [LeadIds -> Chased] /\ deaths \in Nat
  BY DEF LeadsTypeOK
<1>1. ASSUME NEW l \in LeadIds, Answer(l) \/ TimePasses(l)
      PROVE  sweep' \in [Sweeps -> Sweep] /\ chased' \in [LeadIds -> Chased] /\ deaths' \in Nat
             /\ UNCHANGED <<lead, members, products, notes, request, job, timeline, mixed, unlogged>>
  <2>1. /\ UNCHANGED sweep /\ UNCHANGED deaths /\ ChaseRest
        /\ \/ chased' = [chased EXCEPT ![l].quiet = FALSE]
           \/ chased' = [chased EXCEPT ![l].quiet = TRUE, ![l].rested = TRUE]
    BY <1>1 DEF Answer, TimePasses
  <2>2. \A c \in Chased : /\ [c EXCEPT !.quiet = FALSE] \in Chased
                          /\ [c EXCEPT !.quiet = TRUE, !.rested = TRUE] \in Chased
    BY DEF Chased
  <2>3. \/ chased' = [chased EXCEPT ![l] = [chased[l] EXCEPT !.quiet = FALSE]]
        \/ chased' = [chased EXCEPT ![l] = [chased[l] EXCEPT !.quiet = TRUE, !.rested = TRUE]]
    BY <1>0, <2>1
  <2>4. chased[l] \in Chased
    BY <1>0
  <2>5. chased' \in [LeadIds -> Chased]
    BY <1>0, <2>2, <2>3, <2>4
  <2> QED
    BY <1>0, <2>1, <2>5 DEF ChaseRest, rowVars, teamVars, botVars
<1>2. ASSUME NEW s \in Sweeps, Chases(s)
      PROVE  sweep' \in [Sweeps -> Sweep] /\ chased' \in [LeadIds -> Chased] /\ deaths' \in Nat
             /\ UNCHANGED <<lead, members, products, notes, request, job, timeline, mixed, unlogged>>
  <2>1. ASSUME NEW finished \in SUBSET LeadIds, StartSweep(s, finished)
        PROVE  sweep' \in [Sweeps -> Sweep] /\ UNCHANGED <<chased, deaths>> /\ ChaseRest
    BY <1>0, <2>1 DEF StartSweep, Sweep
  <2>2. ASSUME NEW l \in LeadIds, Nudge(s, l)
        PROVE  sweep' \in [Sweeps -> Sweep] /\ chased' \in [LeadIds -> Chased] /\ UNCHANGED deaths /\ ChaseRest
    BY <1>0, <2>2 DEF Nudge, Sweep, Chased, Sweeping, NoSweep
  <2>3. ASSUME CountNudge(s)
        PROVE  sweep' \in [Sweeps -> Sweep] /\ chased' \in [LeadIds -> Chased] /\ UNCHANGED deaths /\ ChaseRest
    <3>1. sweep[s] \in [pc: {"nudge"}, todo: SUBSET LeadIds, sent: LeadIds \cup {NULL}]
      BY <1>0, <2>3 DEF CountNudge, Sweep, Sweeping, NoSweep
    <3>2. [sweep[s] EXCEPT !.todo = @ \ {sweep[s].sent}, !.sent = NULL] \in Sweep
      BY <3>1 DEF Sweep
    <3>3. sweep' = [sweep EXCEPT ![s] = [sweep[s] EXCEPT !.todo = @ \ {sweep[s].sent}, !.sent = NULL]]
      BY <1>0, <2>3 DEF CountNudge
    <3>4. sweep' \in [Sweeps -> Sweep]
      BY <1>0, <3>2, <3>3
    <3>5. chased' \in [LeadIds -> Chased]
      <4>1. ASSUME NEW c \in Chased PROVE [c EXCEPT !.count = @ + 1, !.rested = FALSE] \in Chased
        <5>1. c.count + 1 \in Nat
          BY DEF Chased
        <5> QED
          BY <5>1 DEF Chased
      <4> DEFINE l == sweep[s].sent
      <4>2. l \in LeadIds
        BY <2>3, <3>1 DEF CountNudge
      <4>3. chased' = [chased EXCEPT ![l] = [chased[l] EXCEPT !.count = @ + 1, !.rested = FALSE]]
        BY <1>0, <2>3, <4>2 DEF CountNudge, Chased
      <4> HIDE DEF l
      <4> QED
        BY <1>0, <4>1, <4>2, <4>3
    <3> QED
      BY <2>3, <3>4, <3>5 DEF CountNudge
  <2>4. ASSUME EndSweep(s)
        PROVE  sweep' \in [Sweeps -> Sweep] /\ UNCHANGED <<chased, deaths>> /\ ChaseRest
    BY <1>0, <2>4 DEF EndSweep, Sweep
  <2> QED
    BY <1>0, <1>2, <2>1, <2>2, <2>3, <2>4 DEF Chases, ChaseRest, rowVars, teamVars, botVars
<1>3. ASSUME WorkerDies
      PROVE  sweep' \in [Sweeps -> Sweep] /\ chased' \in [LeadIds -> Chased] /\ deaths' \in Nat
             /\ UNCHANGED <<lead, members, products, notes, request, job, timeline, mixed, unlogged>>
  <2>1. ASSUME NEW l \in LeadIds
        PROVE  [chased[l] EXCEPT !.cut = @ + Cardinality({s \in Sweeps : Sweeping(s) /\ sweep[s].sent = l})] \in Chased
    <3> DEFINE S == {s \in Sweeps : Sweeping(s) /\ sweep[s].sent = l}
    <3>1. Cardinality(S) \in Nat
      BY LeadsAssumption, FS_Subset, FS_CardinalityType
    <3>2. ASSUME NEW n \in Nat PROVE [chased[l] EXCEPT !.cut = @ + n] \in Chased
      BY <1>0 DEF Chased
    <3> QED
      BY <3>1, <3>2
  <2>2. chased' \in [LeadIds -> Chased]
    BY <1>3, <2>1 DEF WorkerDies
  <2>3. sweep' \in [Sweeps -> Sweep]
    BY <1>3 DEF WorkerDies, Sweep
  <2>4. deaths' = deaths + 1 /\ ChaseRest
    BY <1>3 DEF WorkerDies
  <2> QED
    BY <1>0, <2>2, <2>3, <2>4 DEF ChaseRest, rowVars, teamVars, botVars
<1> QED
  BY <1>1, <1>2, <1>3 DEF FollowUpsNext

\* A member or a product goes: its column is emptied.
LEMMA DetachType ==
  ASSUME LeadsTypeOK, NEW c \in {"owner", "product"}, NEW v, Detach(c, v)
  PROVE  lead' \in [LeadIds -> Row] /\ mixed' \in SUBSET LeadIds
<1> DEFINE ls == {l \in LeadIds : lead[l][c] = v}
           new == [l \in LeadIds |-> [lead[l] EXCEPT ![c] = NULL]]
<1>1. new \in [LeadIds -> Row]
  BY SetColumn DEF LeadsTypeOK, Columns, Ranges
<1>2. ls \in SUBSET LeadIds /\ Writes(NULL, ls, new)
  BY DEF Detach
<1> HIDE DEF ls, new
<1> QED
  BY <1>1, <1>2, WritesType

LEMMA LeadsKeepTypes ==
  ASSUME LeadsInv, LeadsNext
  PROVE  LeadsInv'
<1> USE DEF LeadsInv
<1>1. ASSUME NEW u \in Users, NEW n \in LeadIds \X Users, DeleteNote(u, n) PROVE LeadsInv'
  BY <1>1 DEF DeleteNote, RequestRest, rowVars, botVars, chaseVars, LeadsTypeOK
<1>2. ASSUME NEW u \in Users, RemoveMember(u) PROVE LeadsInv'
  <2>1. lead' \in [LeadIds -> Row] /\ mixed' \in SUBSET LeadIds
    BY <1>2, DetachType DEF RemoveMember
  <2> QED
    BY <1>2, <2>1 DEF RemoveMember, RequestRest, botVars, chaseVars, LeadsTypeOK
<1>3. ASSUME NEW p \in Products, DeleteProduct(p) PROVE LeadsInv'
  <2>1. lead' \in [LeadIds -> Row] /\ mixed' \in SUBSET LeadIds
    BY <1>3, DetachType DEF DeleteProduct
  <2> QED
    BY <1>3, <2>1 DEF DeleteProduct, RequestRest, botVars, chaseVars, LeadsTypeOK
<1> QED
  BY <1>1, <1>2, <1>3, RequestsKeepTypes, JobsKeepTypes DEF LeadsNext

\* What a meeting changes about a lead is its status.
LEMMA MeetingsKeepTypes ==
  ASSUME LeadsInv, AppointmentsTypeOK, BotNext \/ CalcomNext
  PROVE  LeadsInv'
<1> USE DEF LeadsInv
<1>1. ASSUME UNCHANGED leadsVars PROVE LeadsInv'
  BY <1>1 DEF leadsVars, rowVars, botVars, chaseVars, teamVars, LeadsTypeOK
<1>2. ASSUME NEW x \in Replies, RerunReply(x) PROVE LeadsInv'
  BY <1>2 DEF RerunReply, rowVars, botVars, chaseVars, teamVars, LeadsTypeOK
<1>3. ASSUME NEW d \in Calls, NEW u, MatchBooker(d, u) PROVE LeadsInv'
  BY <1>3 DEF MatchBooker, KeepsRows, botVars, chaseVars, teamVars, LeadsTypeOK
<1>4. ASSUME NEW d \in Calls, RecordBooking(d) PROVE LeadsInv'
  <2> DEFINE c == call[d]
             new == [l \in LeadIds |-> [lead[l] EXCEPT !.status = "MEETING_SET"]]
             ls == IF c.advance THEN {c.lead} ELSE {}
  <2>1. c.lead \in LeadIds
    <3>1. c.pc = "record"
      BY <1>4 DEF RecordBooking
    <3>2. c \in Call
      BY DEF AppointmentsTypeOK
    <3> QED
      BY <3>1, <3>2 DEF Call, New, Done
  <2>2. ls \in SUBSET LeadIds
    BY <2>1
  <2>3. \A row \in Row : [row EXCEPT !.status = "MEETING_SET"] \in Row
    BY DEF Row, Statuses
  <2>4. new \in [LeadIds -> Row]
    BY <2>3 DEF LeadsTypeOK
  <2>5. KeepsRows \/ Writes(d, ls, new)
    BY <1>4 DEF RecordBooking
  <2>6. lead' \in [LeadIds -> Row] /\ mixed' \in SUBSET LeadIds
    <3> HIDE DEF ls, new
    <3>1. CASE KeepsRows
      BY <3>1 DEF KeepsRows, LeadsTypeOK
    <3>2. CASE Writes(d, ls, new)
      BY <2>2, <2>4, <3>2, WritesType
    <3> QED
      BY <2>5, <3>1, <3>2
  <2>7. timeline' \in [LeadIds -> Row]
    BY <1>4, <2>1, <2>3 DEF RecordBooking, LeadsTypeOK
  <2> QED
    BY <1>4, <2>6, <2>7 DEF RecordBooking, botVars, chaseVars, teamVars, LeadsTypeOK
<1>5. ASSUME NEW d \in Calls, HookDies(d) PROVE LeadsInv'
  BY <1>5 DEF HookDies, KeepsRows, botVars, chaseVars, teamVars, LeadsTypeOK
<1>6. CASE BotNext
  BY <1>1, <1>2, <1>6 DEF BotNext, SendMenu, ReadSlots, ReadPick, BookSlot, ScheduleReminders, ResumeFlow, FireReminder
<1>7. CASE CalcomNext
  BY <1>1, <1>3, <1>4, <1>5, <1>7 DEF CalcomNext, BookAtCalcom, MoveAtCalcom, CancelAtCalcom, AtCalcom, ReceiveChange,
                                      MatchNobody, ConfirmBooking
<1> QED
  BY <1>6, <1>7

-------------------------------------------------------------------------------
(* Types of meetings *)

MeetingsInv ==
  /\ AppointmentsTypeOK
  /\ \A x \in Replies : reply[x].pc = "remind" => reply[x].row \in ApptIds
  /\ \A u \in Uids : booking[u] # <<>> => booker[u] # NULL
  /\ \A d \in Calls : call[d].pc \in {"record", "confirm"} => booking[call[d].uid] # <<>>

Booking == [pc: {"book", "remind", "persist"}, lead: LeadIds, slot: Slots, late: BOOLEAN, row: ApptIds \cup {NULL}]

LEMMA NoMenuType == NoMenu \in Menu
BY DEF NoMenu, Menu

\* A slot taken is marked in a menu, which stays a menu.
LEMMA TakingType ==
  ASSUME NEW m \in Menu, NEW s
  PROVE  Taking(m, s) \in Menu /\ Taking(m, s).slots = m.slots
         /\ Taking(m, s).late = m.late \cup {o \in m.slots : Overlaps(o, s)}
BY DEF Menu, Taking

\* What an offer and a reply are once s is taken.
Retold(f, s) == [f EXCEPT !.menu = Taking(@, s)]
Retaken(r, s) == IF r.pc = "book" /\ Overlaps(r.slot, s) THEN [r EXCEPT !.late = TRUE] ELSE r

LEMMA RetoldType ==
  ASSUME NEW f \in Offer, f.pc = "send", NEW s
  PROVE  /\ Retold(f, s) \in Offer /\ Retold(f, s).pc = "send" /\ f.menu \in Menu
         /\ Retold(f, s).menu = Taking(f.menu, s)
<1>1. f \in [pc: {"send"}, lead: LeadIds, menu: Menu]
  BY DEF Offer, New, Done
<1>2. Taking(f.menu, s) \in Menu
  BY <1>1, TakingType
<1> QED
  BY <1>1, <1>2 DEF Offer, Retold

LEMMA RetakenType ==
  ASSUME NEW r \in Reply, NEW s
  PROVE  /\ Retaken(r, s) \in Reply /\ Retaken(r, s).pc = r.pc
         /\ r.pc \notin {"new", "done"} => Retaken(r, s).row = r.row
         /\ r.pc = "book" => /\ Retaken(r, s).slot = r.slot
                             /\ Retaken(r, s).late = (r.late \/ Overlaps(r.slot, s))
<1>1. CASE r.pc = "book"
  <2>1. r \in Booking
    BY <1>1 DEF Reply, Booking, New, Done
  <2> QED
    BY <1>1, <2>1 DEF Reply, Booking, Retaken
<1>2. CASE r.pc # "book"
  BY <1>2 DEF Retaken
<1> QED
  BY <1>1, <1>2

\* Whoever has read the slots keeps what it read.
LEMMA TakesType ==
  ASSUME NEW s, NEW m \in [LeadIds -> Menu], offer \in [Offers -> Offer], NEW rp \in [Replies -> Reply],
         Takes(s, m, rp)
  PROVE  /\ menu' \in [LeadIds -> Menu] /\ offer' \in [Offers -> Offer] /\ reply' \in [Replies -> Reply]
         /\ \A l \in LeadIds : menu'[l] = Taking(m[l], s)
         /\ \A o \in Offers : /\ offer'[o].pc = offer[o].pc
                              /\ offer[o].pc = "send" => offer'[o] = Retold(offer[o], s)
         /\ \A x \in Replies : reply'[x] = Retaken(rp[x], s)
<1>1. menu' \in [LeadIds -> Menu] /\ \A l \in LeadIds : menu'[l] = Taking(m[l], s)
  BY TakingType DEF Takes
<1>2. offer' = [o \in Offers |-> IF offer[o].pc = "send" THEN Retold(offer[o], s) ELSE offer[o]]
  BY DEF Takes, Retold
<1>3. /\ offer' \in [Offers -> Offer]
      /\ \A o \in Offers : /\ offer'[o].pc = offer[o].pc
                           /\ offer[o].pc = "send" => offer'[o] = Retold(offer[o], s)
  BY <1>2, RetoldType
<1>4. reply' = [x \in Replies |-> Retaken(rp[x], s)]
  BY DEF Takes, Retaken
<1>5. reply' \in [Replies -> Reply] /\ \A x \in Replies : reply'[x] = Retaken(rp[x], s)
  BY <1>4, RetakenType
<1> QED
  BY <1>1, <1>3, <1>5

LEMMA RowType ==
  ASSUME AppointmentsTypeOK, NEW a \in ApptIds, NEW l \in LeadIds, NEW s \in Slots \cup Times,
         NEW u \in Uids \cup {NULL},
         AddRow(a, l, s, u)
  PROVE  appt' \in [ApptIds -> Appt \cup {NULL}]
BY DEF AppointmentsTypeOK, AddRow, Appt

LEMMA ReplyAtWork ==
  ASSUME AppointmentsTypeOK, NEW x \in Replies, reply[x].pc \notin {"new", "done"}
  PROVE  reply[x] \in Booking
BY DEF AppointmentsTypeOK, Reply, Booking, New, Done

LEMMA BotKeepsMeetings ==
  ASSUME MeetingsInv, BotNext
  PROVE  MeetingsInv'
<1> USE DEF MeetingsInv
<1>1. ASSUME NEW o \in Offers, SendMenu(o) PROVE MeetingsInv'
  <2>1. offer[o] \in [pc: {"send"}, lead: LeadIds, menu: Menu]
    BY <1>1 DEF SendMenu, AppointmentsTypeOK, Offer, New, Done
  <2> QED
    BY <1>1, <2>1 DEF SendMenu, AppointmentsTypeOK, Offer, hookVars
<1>2. ASSUME NEW o \in Offers, NEW l \in LeadIds, ReadSlots(o, l) PROVE MeetingsInv'
  <2>1. PICK busy \in {{}, GoogleBusy} :
           LET open == FirstSlots(GenerateSlots(Booked \cup busy)) IN
           offer' = [offer EXCEPT ![o] = IF open = {} THEN Done
                                         ELSE [pc |-> "send", lead |-> l, menu |-> [slots |-> open, late |-> {}]]]
    BY <1>2 DEF ReadSlots
  <2> DEFINE open == FirstSlots(GenerateSlots(Booked \cup busy))
  <2>2. open \in SUBSET Slots
    BY DEF FirstSlots, GenerateSlots
  <2>3. offer' = [offer EXCEPT ![o] = IF open = {} THEN Done
                                      ELSE [pc |-> "send", lead |-> l, menu |-> [slots |-> open, late |-> {}]]]
    BY <2>1
  <2> HIDE DEF open
  <2>4. offer' \in [Offers -> Offer]
    BY <2>2, <2>3 DEF AppointmentsTypeOK, Offer, Menu
  <2> QED
    BY <1>2, <2>4 DEF ReadSlots, AppointmentsTypeOK, hookVars
<1>3. ASSUME NEW x \in Replies, NEW l \in LeadIds, NEW s \in menu[l].slots, ReadPick(x, l, s) PROVE MeetingsInv'
  <2>1. s \in Slots /\ (s \in menu[l].late) \in BOOLEAN
    BY DEF AppointmentsTypeOK, Menu
  <2>2. [pc |-> "book", lead |-> l, slot |-> s, late |-> s \in menu[l].late, row |-> NULL] \in Reply
    BY <2>1 DEF Reply
  <2> QED
    BY <1>3, <2>2 DEF ReadPick, AppointmentsTypeOK, hookVars
<1>4. ASSUME NEW x \in Replies, BookSlot(x) PROVE MeetingsInv'
  <2> DEFINE r == reply[x]
  <2>1. r \in Booking /\ r.lead \in LeadIds /\ r.slot \in Slots
    BY <1>4, ReplyAtWork DEF BookSlot, Booking
  <2>2. PICK a \in ApptIds : /\ AddRow(a, r.lead, r.slot, NULL)
                             /\ Takes(r.slot, menu, [reply EXCEPT ![x] = [r EXCEPT !.pc = "remind", !.row = a]])
    BY <1>4 DEF BookSlot
  <2> DEFINE rp == [reply EXCEPT ![x] = [r EXCEPT !.pc = "remind", !.row = a]]
  <2>3. rp \in [Replies -> Reply] /\ \A y \in Replies : rp[y].pc = "remind" => rp[y].row \in ApptIds
    BY <2>1 DEF AppointmentsTypeOK, Reply, Booking
  <2>4. Takes(r.slot, menu, rp) /\ offer \in [Offers -> Offer] /\ menu \in [LeadIds -> Menu]
    BY <2>2 DEF AppointmentsTypeOK
  <2>5. appt' \in [ApptIds -> Appt \cup {NULL}]
    BY <2>1, <2>2, RowType
  <2> HIDE DEF rp, r
  <2>6. /\ menu' \in [LeadIds -> Menu] /\ offer' \in [Offers -> Offer] /\ reply' \in [Replies -> Reply]
        /\ \A y \in Replies : reply'[y] = Retaken(rp[y], r.slot)
    BY <2>3, <2>4, TakesType
  <2>7. \A y \in Replies : reply'[y].pc = "remind" => reply'[y].row \in ApptIds
    BY <2>3, <2>6, RetakenType
  <2> QED
    BY <1>4, <2>5, <2>6, <2>7 DEF BookSlot, AppointmentsTypeOK, hookVars
<1>5. ASSUME NEW x \in Replies, ScheduleReminders(x) PROVE MeetingsInv'
  <2>1. reply[x] \in Booking /\ reply[x].row \in ApptIds
    BY <1>5, ReplyAtWork DEF ScheduleReminders
  <2>2. timers' \in SUBSET (ApptIds \X {"24h", "1h"})
    BY <1>5, <2>1 DEF ScheduleReminders, AppointmentsTypeOK
  <2>3. reply' \in [Replies -> Reply] /\ \A y \in Replies : reply'[y].pc = "remind" => reply'[y].row \in ApptIds
    BY <1>5, <2>1 DEF ScheduleReminders, AppointmentsTypeOK, Reply, Booking
  <2> QED
    BY <1>5, <2>2, <2>3 DEF ScheduleReminders, AppointmentsTypeOK, hookVars
<1>6. ASSUME NEW x \in Replies, ResumeFlow(x) PROVE MeetingsInv'
  BY <1>6, NoMenuType DEF ResumeFlow, AppointmentsTypeOK, Reply, Done, hookVars
<1>7. ASSUME NEW x \in Replies, RerunReply(x) PROVE MeetingsInv'
  BY <1>7 DEF RerunReply, AppointmentsTypeOK, Reply, New, hookVars
<1>8. ASSUME NEW t \in timers, FireReminder(t) PROVE MeetingsInv'
  BY <1>8 DEF FireReminder, AppointmentsTypeOK, hookVars
<1> QED
  BY <1>1, <1>2, <1>3, <1>4, <1>5, <1>6, <1>7, <1>8 DEF BotNext

Calling == [pc: {"record", "confirm"}, uid: Uids, lead: LeadIds, advance: BOOLEAN, sure: BOOLEAN]

LEMMA CallAtWork ==
  ASSUME AppointmentsTypeOK, NEW d \in Calls, call[d].pc \notin {"new", "done"}
  PROVE  call[d] \in Calling
BY DEF AppointmentsTypeOK, Call, Calling, New, Done

\* Something happens at Cal.com: one event more.
LEMMA HappensType ==
  ASSUME AppointmentsTypeOK, NEW u \in Uids, NEW kind \in {"created", "rescheduled", "cancelled"}, NEW t \in Times,
         Happens(u, kind, t)
  PROVE  /\ booking' \in [Uids -> Seq(Event)]
         /\ booking'[u] = Append(booking[u], [kind |-> kind, slot |-> t]) /\ booking'[u] # <<>>
         /\ \A v \in Uids \ {u} : booking'[v] = booking[v]
         /\ \A v \in Uids : DOMAIN booking[v] \subseteq DOMAIN booking'[v]
<1>1. /\ booking \in [Uids -> Seq(Event)] /\ booking[u] \in Seq(Event)
      /\ [kind |-> kind, slot |-> t] \in Event
  BY DEF AppointmentsTypeOK, Event
<1>2. /\ Append(booking[u], [kind |-> kind, slot |-> t]) \in Seq(Event)
      /\ Len(Append(booking[u], [kind |-> kind, slot |-> t])) = Len(booking[u]) + 1
      /\ Len(booking[u]) \in Nat
  BY <1>1
<1>3. /\ booking' \in [Uids -> Seq(Event)]
      /\ booking'[u] = Append(booking[u], [kind |-> kind, slot |-> t])
      /\ \A v \in Uids \ {u} : booking'[v] = booking[v]
  BY <1>1, <1>2 DEF Happens
<1>4. booking'[u] # <<>>
  BY <1>2, <1>3
<1>5. DOMAIN booking[u] \subseteq DOMAIN booking'[u]
  BY <1>1, <1>2, <1>3
<1> QED
  BY <1>3, <1>4, <1>5

LEMMA HappensKeepsMeetings ==
  ASSUME MeetingsInv, NEW u \in Uids, NEW kind \in {"created", "rescheduled", "cancelled"}, NEW t \in Times,
         Happens(u, kind, t), AtCalcom, booker' \in [Uids -> Booker \cup {NULL}], booker'[u] # NULL,
         \A v \in Uids \ {u} : booker'[v] = booker[v]
  PROVE  MeetingsInv'
<1>1. /\ booking' \in [Uids -> Seq(Event)] /\ booking'[u] # <<>>
      /\ \A v \in Uids \ {u} : booking'[v] = booking[v]
      /\ \A v \in Uids : DOMAIN booking[v] \subseteq DOMAIN booking'[v]
  BY HappensType DEF MeetingsInv
<1>2. AppointmentsTypeOK'
  BY <1>1 DEF MeetingsInv, AppointmentsTypeOK, AtCalcom, slotVars
<1>3. \A d \in Calls : call'[d].pc \in {"record", "confirm"} => booking'[call'[d].uid] # <<>>
  <2> SUFFICES ASSUME NEW d \in Calls, call[d].pc \in {"record", "confirm"} PROVE booking'[call[d].uid] # <<>>
    BY DEF AtCalcom
  <2>1. call[d].uid \in Uids
    BY CallAtWork DEF MeetingsInv, Calling
  <2> QED
    BY <1>1, <2>1 DEF MeetingsInv
<1> QED
  BY <1>1, <1>2, <1>3 DEF MeetingsInv, AtCalcom, slotVars

\* A booking that was made has a first event.
LEMMA BookingType ==
  ASSUME AppointmentsTypeOK, NEW u \in Uids, booking[u] # <<>>
  PROVE  /\ 1 \in DOMAIN booking[u] /\ booking[u][1].slot \in Times
         /\ Len(booking[u]) \in DOMAIN booking[u] /\ Latest(u).slot \in Times
         /\ DOMAIN booking[u] = 1 .. Len(booking[u]) /\ Len(booking[u]) \in Nat \ {0}
<1>1. booking[u] \in Seq(Event)
  BY DEF AppointmentsTypeOK
<1>2. Len(booking[u]) \in Nat \ {0} /\ DOMAIN booking[u] = 1 .. Len(booking[u])
  BY <1>1
<1>3. \A k \in DOMAIN booking[u] : booking[u][k] \in Event
  BY <1>1, <1>2
<1> QED
  BY <1>2, <1>3 DEF Latest, Event

LEMMA ArrivesType ==
  ASSUME AppointmentsTypeOK, NEW u \in Uids, NEW k \in DOMAIN booking[u], Arrives(u, k)
  PROVE  /\ delivered' \in [Uids -> SUBSET Nat] /\ disorder' \in SUBSET Uids
         /\ \A v \in Uids : delivered'[v] \subseteq DOMAIN booking[v]
         /\ delivered'[u] = delivered[u] \cup {k} /\ \A v \in Uids \ {u} : delivered'[v] = delivered[v]
<1>1. booking[u] \in Seq(Event) /\ delivered \in [Uids -> SUBSET Nat]
  BY DEF AppointmentsTypeOK
<1>2. k \in Nat
  BY <1>1
<1>3. /\ delivered' \in [Uids -> SUBSET Nat] /\ delivered'[u] = delivered[u] \cup {k}
      /\ \A v \in Uids \ {u} : delivered'[v] = delivered[v]
  BY <1>1, <1>2 DEF Arrives
<1>4. disorder' \in SUBSET Uids
  BY DEF Arrives, AppointmentsTypeOK
<1>5. \A v \in Uids : delivered'[v] \subseteq DOMAIN booking[v]
  BY <1>3 DEF AppointmentsTypeOK
<1> QED
  BY <1>3, <1>4, <1>5

LEMMA TakesKeeps ==
  ASSUME MeetingsInv, NEW s, Takes(s, menu, reply)
  PROVE  /\ menu' \in [LeadIds -> Menu] /\ offer' \in [Offers -> Offer] /\ reply' \in [Replies -> Reply]
         /\ \A x \in Replies : reply'[x].pc = "remind" => reply'[x].row \in ApptIds
<1>1. menu \in [LeadIds -> Menu] /\ offer \in [Offers -> Offer] /\ reply \in [Replies -> Reply]
  BY DEF MeetingsInv, AppointmentsTypeOK
<1>2. /\ menu' \in [LeadIds -> Menu] /\ offer' \in [Offers -> Offer] /\ reply' \in [Replies -> Reply]
      /\ \A x \in Replies : reply'[x] = Retaken(reply[x], s)
  BY <1>1, TakesType
<1> QED
  BY <1>1, <1>2, RetakenType DEF MeetingsInv

LEMMA CalcomKeepsMeetings ==
  ASSUME MeetingsInv, CalcomNext
  PROVE  MeetingsInv'
<1> USE DEF MeetingsInv
<1>1. ASSUME NEW u \in Uids, NEW l \in LeadIds, NEW t \in Times, NEW known \in BOOLEAN, BookAtCalcom(u, l, t, known)
      PROVE  MeetingsInv'
  <2>1. [lead |-> l, known |-> known] \in Booker /\ [lead |-> l, known |-> known] # NULL
    <3>1. [lead |-> l, known |-> known] \in Booker
      BY DEF Booker
    <3> QED
      BY <3>1, RowsAssumption
  <2>2. /\ booker' \in [Uids -> Booker \cup {NULL}] /\ booker'[u] # NULL
        /\ \A v \in Uids \ {u} : booker'[v] = booker[v]
    BY <1>1, <2>1 DEF BookAtCalcom, AppointmentsTypeOK
  <2> QED
    BY <1>1, <2>2, HappensKeepsMeetings DEF BookAtCalcom
<1>2. ASSUME NEW u \in Uids, NEW t \in Times, MoveAtCalcom(u, t) PROVE MeetingsInv'
  <2>1. booker' \in [Uids -> Booker \cup {NULL}] /\ booker'[u] # NULL /\ booker' = booker
    BY <1>2 DEF MoveAtCalcom, AppointmentsTypeOK
  <2> QED
    BY <1>2, <2>1, HappensKeepsMeetings DEF MoveAtCalcom
<1>3. ASSUME NEW u \in Uids, CancelAtCalcom(u) PROVE MeetingsInv'
  <2>1. booker' \in [Uids -> Booker \cup {NULL}] /\ booker'[u] # NULL /\ booker' = booker
    BY <1>3 DEF CancelAtCalcom, AppointmentsTypeOK
  <2>2. Latest(u).slot \in Times
    BY <1>3, BookingType DEF CancelAtCalcom
  <2> QED
    BY <1>3, <2>1, <2>2, HappensKeepsMeetings DEF CancelAtCalcom
<1>4. ASSUME NEW u \in Uids, NEW k \in DOMAIN booking[u], ReceiveChange(u, k) PROVE MeetingsInv'
  <2> DEFINE e == booking[u][k]
  <2>1. e \in Event
    BY DEF AppointmentsTypeOK
  <2>2. \A row \in Appt : Changed(row, e) \in Appt
    <3> HIDE DEF e
    <3> QED
      BY <2>1 DEF Changed, Appt, Event
  <2>3. appt' = [a \in ApptIds |-> IF a \in RowOf(u) THEN Changed(appt[a], e) ELSE appt[a]]
    BY <1>4 DEF ReceiveChange
  <2>4. \A a \in RowOf(u) : appt[a] \in Appt
    BY DEF RowOf, AppointmentsTypeOK
  <2>5. appt' \in [ApptIds -> Appt \cup {NULL}]
    <3> HIDE DEF e
    <3> QED
      BY <2>2, <2>3, <2>4 DEF AppointmentsTypeOK
  <2>6. /\ menu' \in [LeadIds -> Menu] /\ offer' \in [Offers -> Offer] /\ reply' \in [Replies -> Reply]
        /\ \A x \in Replies : reply'[x].pc = "remind" => reply'[x].row \in ApptIds
    <3>1. CASE UNCHANGED <<menu, offer, reply>>
      BY <3>1 DEF AppointmentsTypeOK
    <3>2. CASE Takes(e.slot, menu, reply)
      <4> HIDE DEF e
      <4> QED
        BY <3>2, TakesKeeps
    <3> QED
      BY <1>4, <3>1, <3>2 DEF ReceiveChange
  <2>7. /\ delivered' \in [Uids -> SUBSET Nat] /\ disorder' \in SUBSET Uids
        /\ \A v \in Uids : delivered'[v] \subseteq DOMAIN booking[v]
    BY <1>4, ArrivesType DEF ReceiveChange
  <2> QED
    BY <1>4, <2>5, <2>6, <2>7 DEF ReceiveChange, AppointmentsTypeOK
<1>5. ASSUME NEW u \in Uids, MatchNobody(u) PROVE MeetingsInv'
  <2>1. 1 \in DOMAIN booking[u]
    BY <1>5, BookingType DEF MatchNobody
  <2>2. /\ delivered' \in [Uids -> SUBSET Nat] /\ disorder' \in SUBSET Uids
        /\ \A v \in Uids : delivered'[v] \subseteq DOMAIN booking[v]
    BY <1>5, <2>1, ArrivesType DEF MatchNobody
  <2> QED
    BY <1>5, <2>2 DEF MatchNobody, AppointmentsTypeOK, slotVars
<1>6. ASSUME NEW u \in Uids, NEW d \in Calls, MatchBooker(d, u) PROVE MeetingsInv'
  <2>1. PICK l \in LeadIds, sure \in BOOLEAN :
           call' = [call EXCEPT ![d] = [pc |-> "record", uid |-> u, lead |-> l, sure |-> sure,
                                        advance |-> lead[l].status \in Open]]
    BY <1>6 DEF MatchBooker
  <2>2. (lead[l].status \in Open) \in BOOLEAN
    OBVIOUS
  <2>3. [pc |-> "record", uid |-> u, lead |-> l, sure |-> sure, advance |-> lead[l].status \in Open] \in Call
    BY <2>2 DEF Call
  <2>4. /\ call' \in [Calls -> Call]
        /\ \A c \in Calls : call'[c].pc \in {"record", "confirm"} => booking[call'[c].uid] # <<>>
    BY <1>6, <2>1, <2>3 DEF MatchBooker, AppointmentsTypeOK
  <2> QED
    BY <1>6, <2>4 DEF MatchBooker, AppointmentsTypeOK, slotVars
<1>7. ASSUME NEW d \in Calls, RecordBooking(d) PROVE MeetingsInv'
  <2> DEFINE c == call[d]
             s == booking[c.uid][1].slot
  <2>1. c \in Calling /\ c.uid \in Uids /\ c.lead \in LeadIds /\ c.pc = "record"
    BY <1>7, CallAtWork DEF RecordBooking, Calling
  <2>2. 1 \in DOMAIN booking[c.uid] /\ s \in Times
    BY <2>1, BookingType
  <2>3. /\ delivered' \in [Uids -> SUBSET Nat] /\ disorder' \in SUBSET Uids
        /\ \A v \in Uids : delivered'[v] \subseteq DOMAIN booking[v]
    BY <1>7, <2>1, <2>2, ArrivesType DEF RecordBooking
  <2>4. /\ appt' \in [ApptIds -> Appt \cup {NULL}]
        /\ menu' \in [LeadIds -> Menu] /\ offer' \in [Offers -> Offer] /\ reply' \in [Replies -> Reply]
        /\ \A x \in Replies : reply'[x].pc = "remind" => reply'[x].row \in ApptIds
    <3>1. CASE UNCHANGED <<appt, menu, offer, reply>>
      BY <3>1 DEF AppointmentsTypeOK
    <3>2. CASE (\E a \in ApptIds : AddRow(a, c.lead, s, c.uid)) /\ Takes(s, menu, reply)
      <4> HIDE DEF c, s
      <4>1. appt' \in [ApptIds -> Appt \cup {NULL}]
        BY <2>1, <2>2, <3>2, RowType
      <4> QED
        BY <3>2, <4>1, TakesKeeps
    <3> QED
      BY <1>7, <3>1, <3>2 DEF RecordBooking
  <2>5. /\ call' \in [Calls -> Call]
        /\ \A i \in Calls : call'[i].pc \in {"record", "confirm"} => booking[call'[i].uid] # <<>>
    <3>1. call' = [call EXCEPT ![d] = Done] \/ call' = [call EXCEPT ![d].pc = "confirm"]
      BY <1>7 DEF RecordBooking, Hangs
    <3>2. /\ Done \in Call /\ Done.pc = "done"
          /\ [c EXCEPT !.pc = "confirm"] \in Call /\ [c EXCEPT !.pc = "confirm"].uid = c.uid
      BY <2>1 DEF Call, Calling, Done
    <3>3. /\ call \in [Calls -> Call]
          /\ \A i \in Calls : call[i].pc \in {"record", "confirm"} => booking[call[i].uid] # <<>>
      BY DEF AppointmentsTypeOK
    <3>4. CASE call' = [call EXCEPT ![d] = Done]
      BY <3>2, <3>3, <3>4
    <3>5. CASE call' = [call EXCEPT ![d].pc = "confirm"]
      <4> DEFINE n == [c EXCEPT !.pc = "confirm"]
      <4>1. call' = [call EXCEPT ![d] = n] /\ n \in Call /\ booking[n.uid] # <<>>
        BY <2>1, <3>2, <3>3, <3>5
      <4> HIDE DEF n
      <4> QED
        BY <3>3, <4>1
    <3> QED
      BY <3>1, <3>4, <3>5
  <2> QED
    BY <1>7, <2>3, <2>4, <2>5 DEF RecordBooking, AppointmentsTypeOK
<1>8. ASSUME NEW d \in Calls, ConfirmBooking(d) PROVE MeetingsInv'
  <2>1. call[d].uid \in Uids
    BY <1>8, CallAtWork DEF ConfirmBooking, Calling
  <2>2. confirmed' \in [Uids -> Nat]
    BY <1>8, <2>1 DEF ConfirmBooking, AppointmentsTypeOK
  <2> QED
    BY <1>8, <2>2 DEF ConfirmBooking, Hangs, Done, Call, AppointmentsTypeOK, slotVars
<1>9. ASSUME NEW d \in Calls, HookDies(d) PROVE MeetingsInv'
  BY <1>9 DEF HookDies, New, Call, AppointmentsTypeOK, slotVars
<1> QED
  BY <1>1, <1>2, <1>3, <1>4, <1>5, <1>6, <1>7, <1>8, <1>9 DEF CalcomNext

CrmInv == LeadsInv /\ MeetingsInv

LEMMA InitTypes == Init => CrmInv
<1> SUFFICES ASSUME Init PROVE CrmInv
  OBVIOUS
<1>1. LeadsTypeOK
  BY NewLeadType, LeadsAssumption DEF Init, LeadsInit, LeadsTypeOK, Request, Job, Sweep, Chased
<1>2. \A j \in Jobs : Ready(job[j])
  BY DEF Init, LeadsInit, Ready, New
<1>3. AppointmentsTypeOK
  BY NoMenuType DEF Init, AppointmentsInit, AppointmentsTypeOK, Offer, Reply, Call
<1>4. /\ \A x \in Replies : reply[x].pc = "remind" => reply[x].row \in ApptIds
      /\ \A u \in Uids : booking[u] # <<>> => booker[u] # NULL
      /\ \A d \in Calls : call[d].pc \in {"record", "confirm"} => booking[call[d].uid] # <<>>
  BY DEF Init, AppointmentsInit, New
<1> QED
  BY <1>1, <1>2, <1>3, <1>4 DEF CrmInv, LeadsInv, MeetingsInv

LEMMA NextTypes == CrmInv /\ [Next]_vars => CrmInv'
<1> SUFFICES ASSUME CrmInv, [Next]_vars PROVE CrmInv'
  OBVIOUS
<1> USE DEF CrmInv
<1>1. ASSUME UNCHANGED apptVars PROVE MeetingsInv'
  BY <1>1 DEF apptVars, slotVars, hookVars, MeetingsInv, AppointmentsTypeOK
<1>2. CASE LeadsNext /\ UNCHANGED apptVars
  BY <1>1, <1>2, LeadsKeepTypes
<1>3. CASE FollowUpsNext /\ UNCHANGED apptVars
  BY <1>1, <1>3, SweepsKeepTypes
<1>4. CASE BotNext
  BY <1>4, MeetingsKeepTypes, BotKeepsMeetings DEF MeetingsInv
<1>5. CASE CalcomNext
  BY <1>5, MeetingsKeepTypes, CalcomKeepsMeetings DEF MeetingsInv
<1>6. CASE UNCHANGED vars
  <2>1. LeadsInv'
    BY <1>6 DEF vars, leadsVars, rowVars, botVars, chaseVars, teamVars, LeadsInv, LeadsTypeOK
  <2> QED
    BY <1>1, <1>6, <2>1 DEF vars
<1> QED
  BY <1>2, <1>3, <1>4, <1>5, <1>6 DEF Next

\* The rows of leads and meetings, and what requests, jobs, sweeps and calls have
\* read of them, keep their types, for any number of each.
THEOREM TypeCorrect == Spec => [](LeadsTypeOK /\ AppointmentsTypeOK)
<1>1. CrmInv => LeadsTypeOK /\ AppointmentsTypeOK
  BY DEF CrmInv, LeadsInv, MeetingsInv
<1> QED
  BY <1>1, InitTypes, NextTypes, PTL DEF Spec

-------------------------------------------------------------------------------
(* Follow-ups *)

\* The sweeps that have l on their list, and those that have just nudged it.
Holding(l) == {s \in Sweeps : Sweeping(s) /\ l \in sweep[s].todo}
Owing(l) == {s \in Sweeps : Sweeping(s) /\ sweep[s].sent = l}

\* A nudge is counted, cut off or about to be counted by the sweep that sent it;
\* and a lead that a sweep may still nudge was due when that sweep began.
NudgeInv ==
  \A l \in LeadIds :
    /\ Owing(l) \subseteq Holding(l)
    /\ chased[l].sent = chased[l].count + chased[l].cut + Cardinality(Owing(l))
    /\ chased[l].count + Cardinality(Holding(l)) <= FollowUpMax + Cardinality(Sweeps) - 1

LEMMA SweepSets ==
  /\ Cardinality(Sweeps) \in Nat \ {0}
  /\ \A S \in SUBSET Sweeps : IsFiniteSet(S) /\ Cardinality(S) \in Nat /\ Cardinality(S) <= Cardinality(Sweeps)
BY LeadsAssumption, FS_Subset, FS_CardinalityType, FS_EmptySet

\* Without anybody on a list or owing, the two sets stay as they are.
LEMMA NudgesOfOthers ==
  ASSUME NudgeInv, NEW l \in LeadIds, Holding(l)' = Holding(l), Owing(l)' = Owing(l),
         chased'[l].sent = chased[l].sent, chased'[l].count = chased[l].count, chased'[l].cut = chased[l].cut
  PROVE  /\ Owing(l)' \subseteq Holding(l)'
         /\ chased'[l].sent = chased'[l].count + chased'[l].cut + Cardinality(Owing(l)')
         /\ chased'[l].count + Cardinality(Holding(l)') <= FollowUpMax + Cardinality(Sweeps) - 1
BY DEF NudgeInv

LEMMA SweepingType ==
  ASSUME LeadsTypeOK, NEW s \in Sweeps, Sweeping(s)
  PROVE  sweep[s] \in [pc: {"nudge"}, todo: SUBSET LeadIds, sent: LeadIds \cup {NULL}]
BY DEF LeadsTypeOK, Sweep, Sweeping, NoSweep

LEMMA FollowUpsKeepNudges ==
  ASSUME LeadsTypeOK, NudgeInv, FollowUpsNext
  PROVE  NudgeInv'
<1>0. /\ chased \in [LeadIds -> Chased] /\ sweep \in [Sweeps -> Sweep]
      /\ \A l \in LeadIds : chased[l].sent \in Nat /\ chased[l].count \in Nat /\ chased[l].cut \in Nat
  BY DEF LeadsTypeOK, Chased
<1> SUFFICES ASSUME NEW l \in LeadIds
             PROVE  /\ Owing(l)' \subseteq Holding(l)'
                    /\ chased'[l].sent = chased'[l].count + chased'[l].cut + Cardinality(Owing(l)')
                    /\ chased'[l].count + Cardinality(Holding(l)') <= FollowUpMax + Cardinality(Sweeps) - 1
  BY DEF NudgeInv
<1>1. ASSUME NEW k \in LeadIds, Answer(k) \/ TimePasses(k)
      PROVE  /\ Holding(l)' = Holding(l) /\ Owing(l)' = Owing(l) /\ chased'[l].sent = chased[l].sent
             /\ chased'[l].count = chased[l].count /\ chased'[l].cut = chased[l].cut
  BY <1>0, <1>1 DEF Answer, TimePasses, Holding, Owing, Sweeping, Chased
<1>2. ASSUME NEW s \in Sweeps, NEW finished \in SUBSET LeadIds, StartSweep(s, finished)
      PROVE  /\ Owing(l)' \subseteq Holding(l)' /\ Owing(l)' = Owing(l) /\ chased' = chased
             /\ chased[l].count + Cardinality(Holding(l)') <= FollowUpMax + Cardinality(Sweeps) - 1
  <2>1. sweep' = [sweep EXCEPT ![s] = [pc |-> "nudge", todo |-> {k \in LeadIds : Due(k)} \ finished, sent |-> NULL]]
        /\ ~Sweeping(s) /\ chased' = chased
    BY <1>2 DEF StartSweep
  <2>2. sweep'[s].sent = NULL /\ sweep'[s].pc = "nudge" /\ \A q \in Sweeps \ {s} : sweep'[q] = sweep[q]
    BY <1>0, <2>1
  <2>3. Owing(l)' = Owing(l)
    BY <2>1, <2>2, LeadsAssumption DEF Owing, Sweeping
  <2>4. Holding(l) \subseteq Holding(l)'
    BY <2>1, <2>2 DEF Holding, Sweeping
  <2>5. CASE l \in sweep'[s].todo
    <3>1. chased[l].count < FollowUpMax
      BY <1>0, <2>1, <2>5 DEF Due, UnderCap
    <3>2. Holding(l)' \in SUBSET Sweeps
      BY DEF Holding
    <3> QED
      BY <1>0, <2>1, <2>3, <2>4, <3>1, <3>2, SweepSets, LeadsAssumption DEF NudgeInv
  <2>6. CASE l \notin sweep'[s].todo
    <3>1. Holding(l)' = Holding(l)
      BY <2>1, <2>2, <2>6 DEF Holding, Sweeping
    <3> QED
      BY <2>1, <2>3, <3>1 DEF NudgeInv
  <2> QED
    BY <2>5, <2>6
<1>3. ASSUME NEW s \in Sweeps, NEW k \in LeadIds, Nudge(s, k)
      PROVE  /\ Owing(l)' \subseteq Holding(l)' /\ Holding(l)' = Holding(l)
             /\ chased'[l].count = chased[l].count /\ chased'[l].cut = chased[l].cut
             /\ chased'[l].sent = chased[l].count + chased[l].cut + Cardinality(Owing(l)')
  <2>1. /\ sweep'[s].sent = k /\ sweep'[s].todo = sweep[s].todo /\ sweep'[s].pc = "nudge"
        /\ \A q \in Sweeps \ {s} : sweep'[q] = sweep[q]
        /\ Sweeping(s) /\ sweep[s].sent = NULL /\ k \in sweep[s].todo
    BY <1>0, <1>3, SweepingType DEF Nudge, Sweeping
  <2>2. Holding(l)' = Holding(l)
    BY <2>1 DEF Holding, Sweeping
  <2>3. /\ chased'[l].count = chased[l].count /\ chased'[l].cut = chased[l].cut
        /\ chased'[l].sent = IF l = k THEN chased[l].sent + 1 ELSE chased[l].sent
    BY <1>0, <1>3 DEF Nudge, Chased
  <2>4. CASE l = k
    <3>1. Owing(l)' = Owing(l) \cup {s} /\ s \notin Owing(l) /\ s \in Holding(l)
      BY <2>1, <2>4, LeadsAssumption DEF Owing, Holding, Sweeping
    <3>2. Cardinality(Owing(l)') = Cardinality(Owing(l)) + 1 /\ Cardinality(Owing(l)) \in Nat
      <4>1. Owing(l) \in SUBSET Sweeps
        BY DEF Owing
      <4> QED
        BY <3>1, <4>1, SweepSets, FS_AddElement
    <3> QED
      BY <1>0, <2>2, <2>3, <2>4, <3>1, <3>2 DEF NudgeInv
  <2>5. CASE l # k
    <3>1. Owing(l)' = Owing(l)
      BY <2>1, <2>5, LeadsAssumption DEF Owing, Sweeping
    <3> QED
      BY <2>2, <2>3, <2>5, <3>1 DEF NudgeInv
  <2> QED
    BY <2>4, <2>5
<1>4. ASSUME NEW s \in Sweeps, CountNudge(s)
      PROVE  /\ Owing(l)' \subseteq Holding(l)'
             /\ chased'[l].sent = chased'[l].count + chased'[l].cut + Cardinality(Owing(l)')
             /\ chased'[l].count + Cardinality(Holding(l)') <= FollowUpMax + Cardinality(Sweeps) - 1
  <2> DEFINE k == sweep[s].sent
  <2>1. /\ Sweeping(s) /\ k \in LeadIds
        /\ sweep'[s].sent = NULL /\ sweep'[s].todo = sweep[s].todo \ {k} /\ sweep'[s].pc = "nudge"
        /\ \A q \in Sweeps \ {s} : sweep'[q] = sweep[q]
    <3>1. Sweeping(s) /\ k # NULL
      BY <1>4 DEF CountNudge
    <3>2. sweep[s] \in [pc: {"nudge"}, todo: SUBSET LeadIds, sent: LeadIds \cup {NULL}]
      BY <3>1, SweepingType
    <3>3. sweep' = [sweep EXCEPT ![s] = [sweep[s] EXCEPT !.todo = @ \ {k}, !.sent = NULL]]
      BY <1>0, <1>4 DEF CountNudge
    <3>4. /\ [sweep[s] EXCEPT !.todo = @ \ {k}, !.sent = NULL].sent = NULL
          /\ [sweep[s] EXCEPT !.todo = @ \ {k}, !.sent = NULL].todo = sweep[s].todo \ {k}
          /\ [sweep[s] EXCEPT !.todo = @ \ {k}, !.sent = NULL].pc = "nudge"
      BY <3>2
    <3> QED
      BY <1>0, <3>1, <3>2, <3>3, <3>4
  <2>2. /\ chased'[l].sent = chased[l].sent /\ chased'[l].cut = chased[l].cut
        /\ chased'[l].count = IF l = k THEN chased[l].count + 1 ELSE chased[l].count
    <3>1. chased' = [chased EXCEPT ![k] = [chased[k] EXCEPT !.count = @ + 1, !.rested = FALSE]]
      BY <1>0, <1>4, <2>1 DEF CountNudge, Chased
    <3>2. \A c \in Chased : /\ [c EXCEPT !.count = @ + 1, !.rested = FALSE].count = c.count + 1
                            /\ [c EXCEPT !.count = @ + 1, !.rested = FALSE].sent = c.sent
                            /\ [c EXCEPT !.count = @ + 1, !.rested = FALSE].cut = c.cut
      BY DEF Chased
    <3> HIDE DEF k
    <3> QED
      BY <1>0, <2>1, <3>1, <3>2
  <2>3. CASE l = k
    <3>1. /\ Owing(l)' = Owing(l) \ {s} /\ s \in Owing(l)
          /\ Holding(l)' = Holding(l) \ {s} /\ Owing(l) \subseteq Holding(l)
      <4> HIDE DEF k
      <4>1. Owing(l)' = Owing(l) \ {s} /\ s \in Owing(l)
        <5>1. sweep[s].sent = l
          BY <2>3 DEF k
        <5> QED
          BY <2>1, <2>3, <5>1, LeadsAssumption DEF Owing, Sweeping
      <4>2. Holding(l)' = Holding(l) \ {s}
        BY <2>1, <2>3 DEF Holding, Sweeping
      <4>3. Owing(l) \subseteq Holding(l)
        BY DEF NudgeInv
      <4> QED
        BY <4>1, <4>2, <4>3
    <3>2. Owing(l) \in SUBSET Sweeps /\ Holding(l) \in SUBSET Sweeps
      BY DEF Owing, Holding
    <3>3. /\ Cardinality(Owing(l)') = Cardinality(Owing(l)) - 1 /\ Cardinality(Owing(l)) \in Nat
          /\ Cardinality(Holding(l)') = Cardinality(Holding(l)) - 1 /\ Cardinality(Holding(l)) \in Nat
      <4>1. IsFiniteSet(Owing(l)) /\ IsFiniteSet(Holding(l)) /\ s \in Holding(l)
        BY <3>1, <3>2, SweepSets
      <4>2. Cardinality(Owing(l) \ {s}) = Cardinality(Owing(l)) - 1 /\ Cardinality(Owing(l)) \in Nat
        BY <3>1, <4>1, FS_RemoveElement, FS_CardinalityType
      <4>3. Cardinality(Holding(l) \ {s}) = Cardinality(Holding(l)) - 1 /\ Cardinality(Holding(l)) \in Nat
        BY <4>1, FS_RemoveElement, FS_CardinalityType
      <4> QED
        BY <3>1, <4>2, <4>3
    <3> HIDE DEF k
    <3> QED
      BY <1>0, <2>2, <2>3, <3>1, <3>3, SweepSets, LeadsAssumption DEF NudgeInv
  <2>4. CASE l # k
    <3>1. Owing(l)' = Owing(l) /\ Holding(l)' = Holding(l)
      BY <2>1, <2>4, LeadsAssumption DEF Owing, Holding, Sweeping
    <3> QED
      BY <2>2, <2>4, <3>1 DEF NudgeInv
  <2> QED
    BY <2>3, <2>4
<1>5. ASSUME NEW s \in Sweeps, EndSweep(s)
      PROVE  Holding(l)' = Holding(l) /\ Owing(l)' = Owing(l) /\ chased' = chased
  <2>1. /\ sweep'[s].pc = "idle" /\ \A q \in Sweeps \ {s} : sweep'[q] = sweep[q]
        /\ sweep[s].todo = {} /\ sweep[s].sent = NULL /\ chased' = chased
    BY <1>0, <1>5 DEF EndSweep, NoSweep
  <2> QED
    BY <2>1, LeadsAssumption DEF Holding, Owing, Sweeping
<1>6. ASSUME WorkerDies
      PROVE  /\ Owing(l)' \subseteq Holding(l)'
             /\ chased'[l].sent = chased'[l].count + chased'[l].cut + Cardinality(Owing(l)')
             /\ chased'[l].count + Cardinality(Holding(l)') <= FollowUpMax + Cardinality(Sweeps) - 1
  <2>1. Owing(l)' = {} /\ Holding(l)' = {}
    BY <1>6 DEF WorkerDies, Owing, Holding, Sweeping, NoSweep
  <2>2. /\ chased'[l].sent = chased[l].sent /\ chased'[l].count = chased[l].count
        /\ chased'[l].cut = chased[l].cut + Cardinality(Owing(l))
    <3>1. chased'[l] = [chased[l] EXCEPT !.cut = @ + Cardinality(Owing(l))]
      BY <1>6 DEF WorkerDies, Owing
    <3> QED
      BY <1>0, <3>1 DEF Chased
  <2>3. Cardinality(Owing(l)) \in Nat /\ Cardinality(Holding(l)) \in Nat /\ Cardinality({}) = 0
    <3>1. Owing(l) \in SUBSET Sweeps /\ Holding(l) \in SUBSET Sweeps
      BY DEF Owing, Holding
    <3> QED
      BY <3>1, SweepSets, FS_EmptySet
  <2> QED
    BY <1>0, <2>1, <2>2, <2>3, SweepSets, LeadsAssumption DEF NudgeInv
<1>7. ASSUME NEW s \in Sweeps, Chases(s)
      PROVE  /\ Owing(l)' \subseteq Holding(l)'
             /\ chased'[l].sent = chased'[l].count + chased'[l].cut + Cardinality(Owing(l)')
             /\ chased'[l].count + Cardinality(Holding(l)') <= FollowUpMax + Cardinality(Sweeps) - 1
  <2>1. CASE \E finished \in SUBSET LeadIds : StartSweep(s, finished)
    BY <1>2, <2>1 DEF NudgeInv
  <2>2. CASE \E k \in LeadIds : Nudge(s, k)
    BY <1>3, <2>2 DEF NudgeInv
  <2>3. CASE EndSweep(s)
    BY <1>5, <2>3, NudgesOfOthers
  <2> QED
    BY <1>4, <1>7, <2>1, <2>2, <2>3 DEF Chases
<1> QED
  BY <1>1, <1>6, <1>7, NudgesOfOthers DEF FollowUpsNext

\* Everybody else leaves the follow-ups alone.
LEMMA OthersKeepNudges ==
  ASSUME NudgeInv, UNCHANGED chaseVars
  PROVE  NudgeInv'
BY DEF NudgeInv, Holding, Owing, Sweeping, chaseVars

LEMMA OthersChaseNobody ==
  /\ LeadsNext => UNCHANGED chaseVars
  /\ BotNext => UNCHANGED chaseVars
  /\ CalcomNext => UNCHANGED chaseVars
<1>1. ASSUME NEW r \in Requests, Edits(r) PROVE UNCHANGED chaseVars
  <2>1. ASSUME NEW u \in Users, NEW e \in Forms, NEW l \in LeadIds, OpenLead(r, u, l, e) PROVE UNCHANGED chaseVars
    BY <2>1 DEF OpenLead, RequestRest
  <2>2. ASSUME NEW u \in Users, NEW e \in Forms, NEW ls \in SUBSET LeadIds, OpenBulk(r, u, ls, e)
        PROVE  UNCHANGED chaseVars
    BY <2>2 DEF OpenBulk, RequestRest
  <2>3. CheckTarget(r) \/ BulkBefore(r) => UNCHANGED chaseVars
    BY DEF CheckTarget, BulkBefore, RequestRest
  <2>4. WriteLead(r) => UNCHANGED chaseVars
    BY DEF WriteLead, RequestRest
  <2>5. LogEdit(r) \/ WebDies(r) => UNCHANGED chaseVars
    BY DEF LogEdit, WebDies, RequestRest
  <2> QED
    BY <1>1, <2>1, <2>2, <2>3, <2>4, <2>5 DEF Edits
<1>2. ASSUME NEW j \in Jobs, Routes(j) PROVE UNCHANGED chaseVars
  <2>1. ASSUME NEW l \in LeadIds, NEW todo, StartJob(j, l, todo) PROVE UNCHANGED chaseVars
    BY <2>1 DEF StartJob, JobRest
  <2>2. ASSUME NEW tag \in Tags, ReadTags(j, tag) PROVE UNCHANGED chaseVars
    BY <2>2 DEF ReadTags, JobRest
  <2>3. WriteTags(j) \/ LogTags(j) => UNCHANGED chaseVars
    BY DEF WriteTags, LogTags, JobRest
  <2>4. ReadOwner(j) \/ GiveLead(j) \/ LogOwner(j) => UNCHANGED chaseVars
    BY DEF ReadOwner, GiveLead, LogOwner, JobRest
  <2>5. ASSUME NEW named, PickAssignee(j, named) PROVE UNCHANGED chaseVars
    BY <2>5 DEF PickAssignee, JobRest
  <2>6. ASSUME NEW k, NEW v, Persist(j, k, v) PROVE UNCHANGED chaseVars
    BY <2>6 DEF Persist, JobRest
  <2>7. NotifyAgent(j) \/ NothingSaved(j) => UNCHANGED chaseVars
    BY DEF NotifyAgent, NothingSaved, JobRest
  <2> QED
    BY <1>2, <2>1, <2>2, <2>3, <2>4, <2>5, <2>6, <2>7 DEF Routes
<1>3. ASSUME NEW u, \/ RemoveMember(u) \/ DeleteProduct(u) \/ \E n \in LeadIds \X Users : DeleteNote(u, n)
      PROVE  UNCHANGED chaseVars
  BY <1>3 DEF DeleteNote, RemoveMember, DeleteProduct, RequestRest
<1>4. LeadsNext => UNCHANGED chaseVars
  BY <1>1, <1>2, <1>3 DEF LeadsNext
<1>5. BotNext => UNCHANGED chaseVars
  <2>1. ASSUME NEW o, NEW l, ReadSlots(o, l) \/ SendMenu(o) PROVE UNCHANGED chaseVars
    BY <2>1 DEF ReadSlots, SendMenu, leadsVars
  <2>2. ASSUME NEW x, NEW l, NEW s, ReadPick(x, l, s) PROVE UNCHANGED chaseVars
    BY <2>2 DEF ReadPick, leadsVars
  <2>3. ASSUME NEW x, BookSlot(x) \/ ScheduleReminders(x) PROVE UNCHANGED chaseVars
    BY <2>3 DEF BookSlot, ScheduleReminders, leadsVars
  <2>4. ASSUME NEW x, ResumeFlow(x) \/ RerunReply(x) \/ FireReminder(x) PROVE UNCHANGED chaseVars
    BY <2>4 DEF ResumeFlow, RerunReply, FireReminder, leadsVars
  <2> QED
    BY <2>1, <2>2, <2>3, <2>4 DEF BotNext
<1>6. CalcomNext => UNCHANGED chaseVars
  <2>1. ASSUME NEW u, NEW l, NEW t, NEW known, BookAtCalcom(u, l, t, known) \/ MoveAtCalcom(u, t) \/ CancelAtCalcom(u)
        PROVE  UNCHANGED chaseVars
    BY <2>1 DEF BookAtCalcom, MoveAtCalcom, CancelAtCalcom, AtCalcom, leadsVars
  <2>2. ASSUME NEW u, NEW k, ReceiveChange(u, k) \/ MatchNobody(u) PROVE UNCHANGED chaseVars
    BY <2>2 DEF ReceiveChange, MatchNobody, leadsVars
  <2>3. ASSUME NEW d, NEW u, MatchBooker(d, u) PROVE UNCHANGED chaseVars
    BY <2>3 DEF MatchBooker
  <2>4. ASSUME NEW d, RecordBooking(d) PROVE UNCHANGED chaseVars
    BY <2>4 DEF RecordBooking
  <2>5. ASSUME NEW d, ConfirmBooking(d) \/ HookDies(d) PROVE UNCHANGED chaseVars
    BY <2>5 DEF ConfirmBooking, HookDies, leadsVars
  <2> QED
    BY <2>1, <2>2, <2>3, <2>4, <2>5 DEF CalcomNext
<1> QED
  BY <1>4, <1>5, <1>6

\* With any number of sweeps under way at once, a lead is nudged FollowUpMax
\* times, once more for every other sweep, and once for every nudge a crash kept
\* from being counted (worker/index.ts:66-68).
THEOREM NudgesAreBounded == Spec => []NudgesBounded
<1>1. Init => NudgeInv
  <2> SUFFICES ASSUME Init, NEW l \in LeadIds
               PROVE  /\ Owing(l) \subseteq Holding(l)
                      /\ chased[l].sent = chased[l].count + chased[l].cut + Cardinality(Owing(l))
                      /\ chased[l].count + Cardinality(Holding(l)) <= FollowUpMax + Cardinality(Sweeps) - 1
    BY DEF NudgeInv
  <2>1. Owing(l) = {} /\ Holding(l) = {} /\ chased[l].sent = 0 /\ chased[l].count = 0 /\ chased[l].cut = 0
    BY DEF Init, LeadsInit, Owing, Holding, Sweeping, NoSweep
  <2> QED
    BY <2>1, FS_EmptySet, SweepSets, LeadsAssumption
<1>2. CrmInv /\ NudgeInv /\ [Next]_vars => NudgeInv'
  BY FollowUpsKeepNudges, OthersKeepNudges, OthersChaseNobody DEF Next, vars, leadsVars, CrmInv, LeadsInv
<1>3. CrmInv /\ NudgeInv => NudgesBounded
  <2> SUFFICES ASSUME CrmInv, NudgeInv, NEW l \in LeadIds
               PROVE  chased[l].sent <= FollowUpMax + (Cardinality(Sweeps) - 1) + chased[l].cut
    BY DEF NudgesBounded
  <2>1. chased[l].sent \in Nat /\ chased[l].count \in Nat /\ chased[l].cut \in Nat
    BY DEF CrmInv, LeadsInv, LeadsTypeOK, Chased
  <2>2. Owing(l) \in SUBSET Sweeps /\ Holding(l) \in SUBSET Sweeps /\ Owing(l) \subseteq Holding(l)
    BY DEF Owing, Holding, NudgeInv
  <2>3. /\ Cardinality(Owing(l)) <= Cardinality(Holding(l))
        /\ Cardinality(Owing(l)) \in Nat /\ Cardinality(Holding(l)) \in Nat
    BY <2>2, SweepSets, FS_Subset
  <2> QED
    BY <2>1, <2>3, SweepSets, LeadsAssumption DEF NudgeInv
<1> QED
  BY <1>1, <1>2, <1>3, InitTypes, NextTypes, PTL DEF Spec

-------------------------------------------------------------------------------
(* The bot's menus *)

\* No meeting of B is at s; and none is at a slot of the menu m that is not late.
Clear(s, B) == \A b \in B : ~Overlaps(s, b)
Honest(m, B) == \A s \in m.slots \ m.late : Clear(s, B)

\* A menu, on its way or with the lead, offers only what is still free or was
\* taken after it was read, and so does the pick a job carries.
MenuInv ==
  /\ \A l \in LeadIds : Honest(menu[l], Booked)
  /\ \A o \in Offers : offer[o].pc = "send" => Honest(offer[o].menu, Booked)
  /\ \A x \in Replies : reply[x].pc = "book" => reply[x].late \/ Clear(reply[x].slot, Booked)

\* Where meetings only disappear, what was clear stays clear.
LEMMA FewerMeetings ==
  ASSUME MenuInv, Booked' \subseteq Booked, UNCHANGED <<menu, offer, reply>>
  PROVE  MenuInv'
BY DEF MenuInv, Honest, Clear

\* A meeting at s appears: menus, offers and picks are told.
LEMMA TakesKeepsMenus ==
  ASSUME AppointmentsTypeOK, MenuInv, NEW s, NEW rp \in [Replies -> Reply], Takes(s, menu, rp),
         \A x \in Replies : rp[x].pc = "book" => rp[x] = reply[x],
         Booked' \subseteq Booked \cup {s}
  PROVE  MenuInv'
<1>1. menu \in [LeadIds -> Menu] /\ offer \in [Offers -> Offer]
  BY DEF AppointmentsTypeOK
<1>2. /\ \A l \in LeadIds : menu'[l] = Taking(menu[l], s)
      /\ \A o \in Offers : /\ offer'[o].pc = offer[o].pc
                           /\ offer[o].pc = "send" => offer'[o] = Retold(offer[o], s)
      /\ \A x \in Replies : reply'[x] = Retaken(rp[x], s)
  BY <1>1, TakesType
<1>3. ASSUME NEW m \in Menu, Honest(m, Booked) PROVE Honest(Taking(m, s), Booked')
  BY <1>3, TakingType DEF Honest, Clear
<1>4. ASSUME NEW o \in Offers, offer'[o].pc = "send" PROVE Honest(offer'[o].menu, Booked')
  <2>1. offer[o] \in Offer /\ offer[o].pc = "send" /\ offer'[o] = Retold(offer[o], s)
    BY <1>1, <1>2, <1>4
  <2>2. offer[o].menu \in Menu /\ offer'[o].menu = Taking(offer[o].menu, s)
    BY <2>1, RetoldType
  <2> QED
    BY <1>3, <2>1, <2>2 DEF MenuInv
<1>5. ASSUME NEW x \in Replies, reply'[x].pc = "book" PROVE reply'[x].late \/ Clear(reply'[x].slot, Booked')
  <2>1. rp[x] \in Reply /\ rp[x].pc = "book" /\ rp[x] = reply[x] /\ reply'[x] = Retaken(rp[x], s)
    BY <1>2, <1>5, RetakenType
  <2>2. reply'[x].slot = rp[x].slot /\ reply'[x].late = (rp[x].late \/ Overlaps(rp[x].slot, s))
    BY <2>1, RetakenType
  <2> QED
    BY <2>1, <2>2 DEF MenuInv, Clear
<1>6. \A l \in LeadIds : Honest(menu'[l], Booked')
  BY <1>1, <1>2, <1>3 DEF MenuInv
<1> QED
  BY <1>4, <1>5, <1>6 DEF MenuInv

\* A row is added, and nothing else is booked.
LEMMA RowBooks ==
  ASSUME AppointmentsTypeOK, NEW a \in ApptIds, NEW l \in LeadIds, NEW s \in Slots \cup Times,
         NEW u \in Uids \cup {NULL},
         AddRow(a, l, s, u)
  PROVE  Booked' \subseteq Booked \cup {s}
BY DEF AppointmentsTypeOK, AddRow, Booked, Live

LEMMA BotKeepsMenus ==
  ASSUME MeetingsInv, MenuInv, BotNext
  PROVE  MenuInv'
<1>0. AppointmentsTypeOK
  BY DEF MeetingsInv
<1>1. ASSUME appt' = appt PROVE Booked' = Booked
  BY <1>1 DEF Booked, Live
<1>2. ASSUME NEW o \in Offers, SendMenu(o) PROVE MenuInv'
  <2>1. offer[o] \in [pc: {"send"}, lead: LeadIds, menu: Menu] /\ offer[o].pc = "send"
    BY <1>0, <1>2 DEF SendMenu, AppointmentsTypeOK, Offer, New, Done
  <2>2. /\ menu' = [menu EXCEPT ![offer[o].lead] = offer[o].menu] /\ offer' = [offer EXCEPT ![o] = Done]
        /\ reply' = reply /\ Booked' = Booked
    BY <1>1, <1>2 DEF SendMenu
  <2>3. \A q \in Offers : offer'[q].pc = "send" => offer'[q] = offer[q] /\ offer[q].pc = "send"
    BY <1>0, <2>2 DEF Done, AppointmentsTypeOK
  <2>4. \A l \in LeadIds : menu'[l] \in {menu[l], offer[o].menu}
    BY <1>0, <2>2 DEF AppointmentsTypeOK
  <2> QED
    BY <2>1, <2>2, <2>3, <2>4 DEF MenuInv
<1>3. ASSUME NEW o \in Offers, NEW l \in LeadIds, ReadSlots(o, l) PROVE MenuInv'
  <2>1. PICK busy \in {{}, GoogleBusy} :
           LET open == FirstSlots(GenerateSlots(Booked \cup busy)) IN
           offer' = [offer EXCEPT ![o] = IF open = {} THEN Done
                                         ELSE [pc |-> "send", lead |-> l, menu |-> [slots |-> open, late |-> {}]]]
    BY <1>3 DEF ReadSlots
  <2> DEFINE open == FirstSlots(GenerateSlots(Booked \cup busy))
             n == [pc |-> "send", lead |-> l, menu |-> [slots |-> open, late |-> {}]]
  <2>2. Honest(n.menu, Booked)
    BY DEF FirstSlots, GenerateSlots, Honest, Clear
  <2>3. offer' = [offer EXCEPT ![o] = IF open = {} THEN Done ELSE n]
    BY <2>1
  <2>4. menu' = menu /\ reply' = reply /\ Booked' = Booked
    BY <1>1, <1>3 DEF ReadSlots
  <2> HIDE DEF open, n
  <2>5. \A q \in Offers : offer'[q].pc = "send" => Honest(offer'[q].menu, Booked)
    BY <1>0, <2>2, <2>3 DEF MenuInv, Done, AppointmentsTypeOK
  <2> QED
    BY <2>4, <2>5 DEF MenuInv
<1>4. ASSUME NEW x \in Replies, NEW l \in LeadIds, NEW s \in menu[l].slots, ReadPick(x, l, s) PROVE MenuInv'
  <2> DEFINE n == [pc |-> "book", lead |-> l, slot |-> s, late |-> s \in menu[l].late, row |-> NULL]
  <2>1. n.late \/ Clear(n.slot, Booked)
    BY DEF MenuInv, Honest
  <2>2. reply' = [reply EXCEPT ![x] = n] /\ menu' = menu /\ offer' = offer /\ Booked' = Booked
    BY <1>1, <1>4 DEF ReadPick
  <2> HIDE DEF n
  <2> QED
    BY <1>0, <2>1, <2>2 DEF MenuInv, AppointmentsTypeOK
<1>5. ASSUME NEW x \in Replies, BookSlot(x) PROVE MenuInv'
  <2> DEFINE r == reply[x]
  <2>1. r \in Booking /\ r.lead \in LeadIds /\ r.slot \in Slots
    BY <1>0, <1>5, ReplyAtWork DEF BookSlot, Booking
  <2>2. PICK a \in ApptIds : /\ AddRow(a, r.lead, r.slot, NULL)
                             /\ Takes(r.slot, menu, [reply EXCEPT ![x] = [r EXCEPT !.pc = "remind", !.row = a]])
    BY <1>5 DEF BookSlot
  <2> DEFINE rp == [reply EXCEPT ![x] = [r EXCEPT !.pc = "remind", !.row = a]]
  <2>3. rp \in [Replies -> Reply] /\ \A y \in Replies : rp[y].pc = "book" => rp[y] = reply[y]
    BY <1>0, <2>1 DEF AppointmentsTypeOK, Reply, Booking
  <2>4. Takes(r.slot, menu, rp)
    BY <2>2
  <2>5. Booked' \subseteq Booked \cup {r.slot}
    BY <1>0, <2>1, <2>2, RowBooks
  <2> HIDE DEF rp, r
  <2> QED
    BY <1>0, <2>3, <2>4, <2>5, TakesKeepsMenus
<1>6. ASSUME NEW x \in Replies, ScheduleReminders(x) PROVE MenuInv'
  <2>1. reply' = [reply EXCEPT ![x].pc = "persist"] /\ menu' = menu /\ offer' = offer /\ Booked' = Booked
    BY <1>1, <1>6 DEF ScheduleReminders
  <2>2. reply[x] \in Booking
    BY <1>0, <1>6, ReplyAtWork DEF ScheduleReminders
  <2>3. \A y \in Replies : reply'[y].pc = "book" => reply'[y] = reply[y]
    BY <1>0, <2>1, <2>2 DEF AppointmentsTypeOK, Booking
  <2> QED
    BY <2>1, <2>3 DEF MenuInv
<1>7. ASSUME NEW x \in Replies, ResumeFlow(x) PROVE MenuInv'
  <2>1. /\ \A l \in LeadIds : menu'[l] \in {menu[l], NoMenu}
        /\ reply' = [reply EXCEPT ![x] = Done] /\ offer' = offer /\ Booked' = Booked
    BY <1>0, <1>1, <1>7 DEF ResumeFlow, AppointmentsTypeOK
  <2>2. Honest(NoMenu, Booked)
    BY DEF Honest, NoMenu
  <2>3. \A y \in Replies : reply'[y].pc = "book" => reply'[y] = reply[y]
    BY <1>0, <2>1 DEF AppointmentsTypeOK, Done
  <2> QED
    BY <2>1, <2>2, <2>3 DEF MenuInv
<1>8. ASSUME NEW x \in Replies, RerunReply(x) PROVE MenuInv'
  <2>1. reply' = [reply EXCEPT ![x] = New] /\ menu' = menu /\ offer' = offer /\ Booked' = Booked
    BY <1>1, <1>8 DEF RerunReply
  <2>2. \A y \in Replies : reply'[y].pc = "book" => reply'[y] = reply[y]
    BY <1>0, <2>1 DEF AppointmentsTypeOK, New
  <2> QED
    BY <2>1, <2>2 DEF MenuInv
<1>9. ASSUME NEW t \in timers, FireReminder(t) PROVE MenuInv'
  BY <1>1, <1>9, FewerMeetings DEF FireReminder
<1> QED
  BY <1>2, <1>3, <1>4, <1>5, <1>6, <1>7, <1>8, <1>9 DEF BotNext

LEMMA CalcomKeepsMenus ==
  ASSUME MeetingsInv, MenuInv, CalcomNext
  PROVE  MenuInv'
<1>0. AppointmentsTypeOK
  BY DEF MeetingsInv
<1>1. ASSUME UNCHANGED <<appt, menu, offer, reply>> PROVE MenuInv'
  BY <1>1, FewerMeetings DEF Booked, Live
<1>2. ASSUME NEW u \in Uids,
             \/ \E l \in LeadIds, t \in Times, known \in BOOLEAN : BookAtCalcom(u, l, t, known)
             \/ (\E t \in Times : MoveAtCalcom(u, t)) \/ CancelAtCalcom(u)
      PROVE  MenuInv'
  <2>1. AtCalcom
    <3>1. CASE \E l \in LeadIds, t \in Times, known \in BOOLEAN : BookAtCalcom(u, l, t, known)
      BY <3>1 DEF BookAtCalcom
    <3>2. CASE \E t \in Times : MoveAtCalcom(u, t)
      BY <3>2 DEF MoveAtCalcom
    <3>3. CASE CancelAtCalcom(u)
      BY <3>3 DEF CancelAtCalcom
    <3> QED
      BY <1>2, <3>1, <3>2, <3>3
  <2>2. UNCHANGED <<appt, menu, offer, reply>>
    BY <2>1 DEF AtCalcom, slotVars
  <2> QED
    BY <1>1, <2>2
<1>5. ASSUME NEW u \in Uids, MatchNobody(u) \/ \E d \in Calls : MatchBooker(d, u) PROVE MenuInv'
  BY <1>1, <1>5 DEF MatchNobody, MatchBooker, slotVars
<1>6. ASSUME NEW d \in Calls, ConfirmBooking(d) \/ HookDies(d) PROVE MenuInv'
  BY <1>1, <1>6 DEF ConfirmBooking, HookDies, slotVars
<1>3. ASSUME NEW u \in Uids, NEW k \in DOMAIN booking[u], ReceiveChange(u, k) PROVE MenuInv'
  <2> DEFINE e == booking[u][k]
  <2>1. e \in Event /\ e.kind \in {"rescheduled", "cancelled"}
    <3>1. booking[u] \in Seq(Event)
      BY <1>0 DEF AppointmentsTypeOK
    <3>2. e \in Event
      BY <3>1
    <3>3. e.kind # "created"
      BY <1>3 DEF ReceiveChange
    <3> QED
      BY <3>2, <3>3 DEF Event
  <2>2. appt' = [a \in ApptIds |-> IF a \in RowOf(u) THEN Changed(appt[a], e) ELSE appt[a]]
    BY <1>3 DEF ReceiveChange
  <2>3. /\ \A a \in RowOf(u) : appt[a] \in Appt
        /\ \A row \in Appt : /\ Changed(row, e) # NULL
                             /\ e.kind = "cancelled" => Changed(row, e).status = "CANCELLED"
                             /\ e.kind = "rescheduled" => Changed(row, e).slot = e.slot
    <3>1. \A a \in RowOf(u) : appt[a] \in Appt
      BY <1>0 DEF RowOf, AppointmentsTypeOK
    <3>2. \A row \in Appt : /\ Changed(row, e) \in Appt
                            /\ e.kind = "cancelled" => Changed(row, e).status = "CANCELLED"
                            /\ e.kind = "rescheduled" => Changed(row, e).slot = e.slot
      <4> HIDE DEF e
      <4> QED
        BY <2>1 DEF Changed, Appt, Event
    <3> QED
      BY <3>1, <3>2, RowsAssumption
  <2>4. CASE e.kind = "rescheduled" /\ Recorded(u)
    <3>1. Takes(e.slot, menu, reply) /\ reply \in [Replies -> Reply]
      BY <1>0, <1>3, <2>4 DEF ReceiveChange, AppointmentsTypeOK
    <3>2. Booked' \subseteq Booked \cup {e.slot}
      <4> HIDE DEF e
      <4> QED
        BY <2>2, <2>3, <2>4 DEF Booked, Live
    <3> HIDE DEF e
    <3> QED
      BY <1>0, <3>1, <3>2, TakesKeepsMenus
  <2>5. CASE ~(e.kind = "rescheduled" /\ Recorded(u))
    <3>1. UNCHANGED <<menu, offer, reply>>
      BY <1>3, <2>5 DEF ReceiveChange
    <3>2. Booked' \subseteq Booked
      <4> HIDE DEF e
      <4> QED
        BY <2>1, <2>2, <2>3, <2>5 DEF Booked, Live, Recorded
    <3> QED
      BY <3>1, <3>2, FewerMeetings
  <2> QED
    BY <2>4, <2>5
<1>4. ASSUME NEW d \in Calls, RecordBooking(d) PROVE MenuInv'
  <2> DEFINE c == call[d]
             s == booking[c.uid][1].slot
  <2>1. CASE UNCHANGED <<appt, menu, offer, reply>>
    BY <1>1, <2>1
  <2>2. CASE (\E a \in ApptIds : AddRow(a, c.lead, s, c.uid)) /\ Takes(s, menu, reply)
    <3>1. c \in Calling /\ c.uid \in Uids /\ c.lead \in LeadIds /\ booking[c.uid] # <<>>
      BY <1>0, <1>4, CallAtWork DEF RecordBooking, Calling, MeetingsInv
    <3>2. s \in Times /\ reply \in [Replies -> Reply]
      BY <1>0, <3>1, BookingType DEF AppointmentsTypeOK
    <3> HIDE DEF c, s
    <3>3. Booked' \subseteq Booked \cup {s}
      BY <1>0, <2>2, <3>1, <3>2, RowBooks
    <3> QED
      BY <1>0, <2>2, <3>2, <3>3, TakesKeepsMenus
  <2> QED
    BY <1>4, <2>1, <2>2 DEF RecordBooking
<1> QED
  BY <1>2, <1>3, <1>4, <1>5, <1>6 DEF CalcomNext

\* Whatever the bot and Cal.com book, move and cancel meanwhile, the bot books
\* over a live meeting only for a lead whose menu is older than that meeting
\* (process-inbound.ts:667).
THEOREM MenusAreHonest == Spec => OnlyLateMenusClash
<1>1. Init => MenuInv
  BY DEF Init, AppointmentsInit, MenuInv, Honest, NoMenu, New
<1>2. CrmInv /\ MenuInv /\ [Next]_vars => MenuInv'
  <2>1. MenuInv /\ UNCHANGED apptVars => MenuInv'
    BY FewerMeetings DEF apptVars, slotVars, Booked, Live
  <2> QED
    BY <2>1, BotKeepsMenus, CalcomKeepsMenus DEF Next, vars, CrmInv
<1>3. MenuInv => \A x \in Replies : reply[x].pc = "book" /\ reply'[x].pc = "remind" =>
                   reply[x].late \/ \A s \in Booked : ~Overlaps(reply[x].slot, s)
  BY DEF MenuInv, Clear
<1> QED
  BY <1>1, <1>2, <1>3, InitTypes, NextTypes, PTL DEF Spec, OnlyLateMenusClash

-------------------------------------------------------------------------------
(* Cal.com's bookings *)

Confirming(u) == {d \in Calls : call[d].pc = "confirm" /\ call[d].uid = u}
Shows(row, e) == row.slot = e.slot /\ (row.status = "CANCELLED") = (e.kind = "cancelled")

\* A booking is made first and cancelled last, and a cancellation moves nothing.
History(u) ==
  \A k \in DOMAIN booking[u] :
    /\ (booking[u][k].kind = "created") = (k = 1)
    /\ booking[u][k].kind = "cancelled" => k = Len(booking[u]) /\ booking[u][k].slot = booking[u][k - 1].slot

\* One row at most; and the call that made it is the one that confirms.
OneRow(u) == \A a, b \in RowOf(u) : a = b
Confirms(u) ==
  /\ \A c, d \in Confirming(u) : c = d
  /\ confirmed[u] \in {0, 1} /\ (confirmed[u] = 1 => Confirming(u) = {})
  /\ confirmed[u] = 1 \/ Confirming(u) # {} => Recorded(u)

\* The row is there once the creation is, for a lead who is known; and while what
\* came is a beginning of what happened, in order, it shows the last of it.
Told(u) ==
  /\ Recorded(u) => 1 \in delivered[u]
  /\ 1 \in delivered[u] /\ booker[u].known => Recorded(u)
  /\ u \notin disorder /\ 1 \in delivered[u] /\ booker[u].known =>
       \A m \in Nat \ {0} : delivered[u] = 1 .. m => \A a \in RowOf(u) : Shows(appt[a], booking[u][m])

Synced(u) == History(u) /\ OneRow(u) /\ Confirms(u) /\ Told(u)
SyncInv == \A u \in Uids : Synced(u)

LEMMA RowKept ==
  ASSUME NEW u \in Uids, RowOf(u)' = RowOf(u), OneRow(u)
  PROVE  OneRow(u)' /\ Recorded(u)' = Recorded(u)
BY DEF OneRow, Recorded

\* What happens to other bookings leaves u's in order.
LEMMA SyncOfOthers ==
  ASSUME NEW u \in Uids, Synced(u), booking'[u] = booking[u], booker'[u] = booker[u], delivered'[u] = delivered[u],
         (u \in disorder') = (u \in disorder), confirmed'[u] = confirmed[u], Confirming(u)' = Confirming(u),
         RowOf(u)' = RowOf(u), \A a \in RowOf(u) : appt'[a] = appt[a]
  PROVE  Synced(u)'
<1>1. History(u)'
  BY DEF Synced, History
<1>2. OneRow(u)' /\ Recorded(u)' = Recorded(u)
  BY RowKept DEF Synced
<1>3. Confirms(u)'
  BY <1>2 DEF Synced, Confirms
<1>4. Told(u)'
  BY <1>2 DEF Synced, Told
<1> QED
  BY <1>1, <1>2, <1>3, <1>4 DEF Synced

\* A new row is nobody's but u's.
LEMMA RowAdded ==
  ASSUME AppointmentsTypeOK, NEW a \in ApptIds, NEW l \in LeadIds, NEW s \in Slots \cup Times,
         NEW u \in Uids \cup {NULL},
         AddRow(a, l, s, u)
  PROVE  /\ \A v \in Uids \ {u} : RowOf(v)' = RowOf(v)
         /\ u \in Uids => RowOf(u)' = RowOf(u) \cup {a}
         /\ \A b \in ApptIds \ {a} : appt'[b] = appt[b]
         /\ appt[a] = NULL /\ appt'[a].slot = s /\ appt'[a].status = "BOOKED"
<1> DEFINE row == [lead |-> l, slot |-> s, status |-> "BOOKED", uid |-> u]
<1>1. appt[a] = NULL /\ appt' = [appt EXCEPT ![a] = row]
  BY DEF AddRow, Free
<1>2. row \in Appt /\ row # NULL
  <2>1. row \in Appt
    BY DEF Appt
  <2> QED
    BY <2>1, RowsAssumption
<1>3. row.slot = s /\ row.status = "BOOKED" /\ row.uid = u
  OBVIOUS
<1> HIDE DEF row
<1>4. appt'[a] = row /\ \A b \in ApptIds \ {a} : appt'[b] = appt[b]
  BY <1>1 DEF AppointmentsTypeOK
<1> QED
  BY <1>1, <1>2, <1>3, <1>4, AppointmentsAssumption DEF RowOf

LEMMA BotKeepsSync ==
  ASSUME MeetingsInv, SyncInv, BotNext
  PROVE  SyncInv'
<1>0. AppointmentsTypeOK
  BY DEF MeetingsInv
<1> SUFFICES ASSUME NEW u \in Uids PROVE Synced(u)'
  BY DEF SyncInv
<1>1. UNCHANGED hookVars
  <2>1. ASSUME NEW o, NEW l, ReadSlots(o, l) \/ SendMenu(o) PROVE UNCHANGED hookVars
    BY <2>1 DEF ReadSlots, SendMenu
  <2>2. ASSUME NEW x, NEW l, NEW s, ReadPick(x, l, s) PROVE UNCHANGED hookVars
    BY <2>2 DEF ReadPick
  <2>3. ASSUME NEW x, BookSlot(x) \/ ScheduleReminders(x) PROVE UNCHANGED hookVars
    BY <2>3 DEF BookSlot, ScheduleReminders
  <2>4. ASSUME NEW x, ResumeFlow(x) \/ RerunReply(x) \/ FireReminder(x) PROVE UNCHANGED hookVars
    BY <2>4 DEF ResumeFlow, RerunReply, FireReminder
  <2> QED
    BY <2>1, <2>2, <2>3, <2>4 DEF BotNext
<1>2. RowOf(u)' = RowOf(u) /\ \A a \in RowOf(u) : appt'[a] = appt[a]
  <2>1. CASE appt' = appt
    BY <2>1 DEF RowOf
  <2>2. ASSUME NEW x \in Replies, BookSlot(x) PROVE RowOf(u)' = RowOf(u) /\ \A a \in RowOf(u) : appt'[a] = appt[a]
    <3>1. reply[x].lead \in LeadIds /\ reply[x].slot \in Slots
      BY <1>0, <2>2, ReplyAtWork DEF BookSlot, Booking
    <3>2. PICK a \in ApptIds : AddRow(a, reply[x].lead, reply[x].slot, NULL)
      BY <2>2 DEF BookSlot
    <3>3. /\ RowOf(u)' = RowOf(u) /\ appt[a] = NULL
          /\ \A b \in ApptIds \ {a} : appt'[b] = appt[b]
      BY <1>0, <3>1, <3>2, RowAdded, AppointmentsAssumption
    <3> QED
      BY <3>3 DEF RowOf
  <2>3. ASSUME NEW o, NEW l, ReadSlots(o, l) \/ SendMenu(o) PROVE appt' = appt
    BY <2>3 DEF ReadSlots, SendMenu
  <2>4. ASSUME NEW x, NEW l, NEW s, ReadPick(x, l, s) PROVE appt' = appt
    BY <2>4 DEF ReadPick
  <2>5. ASSUME NEW x, ScheduleReminders(x) \/ ResumeFlow(x) \/ RerunReply(x) \/ FireReminder(x) PROVE appt' = appt
    BY <2>5 DEF ScheduleReminders, ResumeFlow, RerunReply, FireReminder
  <2> QED
    BY <2>1, <2>2, <2>3, <2>4, <2>5 DEF BotNext
<1>3. /\ booking' = booking /\ booker' = booker /\ delivered' = delivered /\ disorder' = disorder
      /\ confirmed' = confirmed /\ Confirming(u)' = Confirming(u)
  BY <1>1 DEF hookVars, Confirming
<1> QED
  BY <1>2, <1>3, SyncOfOthers DEF SyncInv

-------------------------------------------------------------------------------

\* u is booked, moved or cancelled at Cal.com: nothing has been said of it yet.
LEMMA HappeningSynced ==
  ASSUME MeetingsInv, NEW u \in Uids, Synced(u), NEW kind \in {"created", "rescheduled", "cancelled"}, NEW t \in Times,
         Happens(u, kind, t), AtCalcom, (kind = "created") = (booking[u] = <<>>),
         kind # "created" => Latest(u).kind # "cancelled" /\ booker'[u] = booker[u],
         kind = "cancelled" => t = Latest(u).slot
  PROVE  Synced(u)'
<1> DEFINE b == booking[u]
           e == [kind |-> kind, slot |-> t]
<1>0. AppointmentsTypeOK /\ b \in Seq(Event) /\ delivered[u] \subseteq DOMAIN b
  BY DEF MeetingsInv, AppointmentsTypeOK
<1>1. booking'[u] = Append(b, e)
  BY <1>0, HappensType
<1>2. /\ Len(b) \in Nat /\ DOMAIN b = 1 .. Len(b) /\ Len(Append(b, e)) = Len(b) + 1
      /\ DOMAIN Append(b, e) = 1 .. Len(b) + 1 /\ Append(b, e)[Len(b) + 1] = e
      /\ \A k \in DOMAIN b : Append(b, e)[k] = b[k]
      /\ (b = <<>>) = (Len(b) = 0)
  BY <1>0
<1>3. e.kind = kind /\ e.slot = t
  OBVIOUS
<1> HIDE DEF e
<1>4. History(u)'
  <2> SUFFICES ASSUME NEW k \in 1 .. Len(b) + 1
               PROVE  /\ (Append(b, e)[k].kind = "created") = (k = 1)
                      /\ Append(b, e)[k].kind = "cancelled" =>
                           k = Len(b) + 1 /\ Append(b, e)[k].slot = Append(b, e)[k - 1].slot
    BY <1>1, <1>2 DEF History
  <2>1. CASE k = Len(b) + 1
    <3>1. (kind = "created") = (k = 1)
      BY <1>2, <2>1
    <3>2. ASSUME kind = "cancelled" PROVE Append(b, e)[k - 1].slot = t
      <4>1. k - 1 = Len(b) /\ Len(b) \in DOMAIN b
        BY <1>2, <2>1, <3>2
      <4> QED
        BY <1>2, <3>2, <4>1 DEF Latest
    <3> QED
      BY <1>2, <1>3, <2>1, <3>1, <3>2
  <2>2. CASE k # Len(b) + 1
    <3>1. k \in DOMAIN b /\ Append(b, e)[k] = b[k]
      BY <1>2, <2>2
    <3>2. b[k].kind # "cancelled"
      <4>1. b # <<>>
        BY <1>2, <3>1
      <4>2. b[Len(b)].kind # "cancelled"
        BY <4>1 DEF Latest
      <4> QED
        BY <3>1, <4>2 DEF Synced, History
    <3> QED
      BY <3>1, <3>2 DEF Synced, History
  <2> QED
    BY <2>1, <2>2
<1>5. /\ delivered' = delivered /\ disorder' = disorder /\ confirmed' = confirmed /\ appt' = appt /\ call' = call
  BY DEF AtCalcom
<1>6. RowOf(u)' = RowOf(u) /\ Recorded(u)' = Recorded(u) /\ Confirming(u)' = Confirming(u)
  BY <1>5 DEF RowOf, Recorded, Confirming
<1>7. OneRow(u)' /\ Confirms(u)'
  BY <1>5, <1>6 DEF Synced, OneRow, Confirms
<1>8. Told(u)'
  <2>1. CASE b = <<>>
    <3>1. 1 \notin delivered[u]
      BY <1>0, <1>2, <2>1
    <3> QED
      BY <1>5, <1>6, <3>1 DEF Synced, Told
  <2>2. CASE b # <<>>
    <3>1. booker'[u] = booker[u]
      BY <2>2
    <3>2. ASSUME NEW m \in Nat \ {0}, delivered[u] = 1 .. m PROVE booking'[u][m] = booking[u][m]
      BY <1>0, <1>1, <1>2, <3>2
    <3> HIDE DEF b
    <3> QED
      BY <1>5, <1>6, <3>1, <3>2 DEF Synced, Told
  <2> QED
    BY <2>1, <2>2
<1> QED
  BY <1>4, <1>7, <1>8 DEF Synced

\* An event that leaves what was delivered a beginning of what happened is the
\* last one delivered, or an old one said again that moves nothing.
LEMMA InOrder ==
  ASSUME AppointmentsTypeOK, NEW u \in Uids, NEW k \in DOMAIN booking[u], Arrives(u, k), u \notin disorder',
         NEW m \in Nat \ {0}, delivered'[u] = 1 .. m
  PROVE  /\ u \notin disorder /\ m \in DOMAIN booking[u]
         /\ \/ k = m /\ delivered[u] \in {1 .. (m - 1), 1 .. m}
            \/ k < m /\ delivered[u] = 1 .. m /\ booking[u][k].kind # "rescheduled"
<1>1. /\ delivered'[u] = delivered[u] \cup {k}
      /\ u \notin disorder
      /\ \A later \in delivered[u] : later > k => k \in delivered[u] /\ booking[u][k].kind # "rescheduled"
  <2>1. delivered'[u] = delivered[u] \cup {k}
    BY ArrivesType
  <2> QED
    BY <2>1 DEF Arrives
<1>2. delivered[u] \subseteq DOMAIN booking[u]
  BY DEF AppointmentsTypeOK
<1>3. m \in 1 .. m /\ k \in 1 .. m
  <2>1. k \in 1 .. m
    BY <1>1
  <2> QED
    BY <2>1
<1>4. m \in DOMAIN booking[u]
  <2>1. 1 .. m = delivered[u] \cup {k}
    BY <1>1
  <2>2. delivered[u] \cup {k} \subseteq DOMAIN booking[u]
    BY <1>2
  <2> QED
    BY <1>3, <2>1, <2>2
<1>5. CASE k = m
  <2>1. CASE k \in delivered[u]
    BY <1>1, <1>5, <2>1
  <2>2. CASE k \notin delivered[u]
    <3>1. delivered[u] = (1 .. m) \ {m}
      BY <1>1, <1>5, <2>2
    <3> QED
      BY <1>1, <1>4, <1>5, <3>1
  <2> QED
    BY <2>1, <2>2
<1>6. CASE k # m
  <2>1. k < m /\ m \in delivered[u]
    BY <1>1, <1>3, <1>6
  <2>2. k \in delivered[u] /\ booking[u][k].kind # "rescheduled"
    BY <1>1, <2>1
  <2> QED
    BY <1>1, <1>4, <2>1, <2>2
<1> QED
  BY <1>4, <1>5, <1>6

\* A row that is changed keeps its booking, and shows the event.
LEMMA ChangedShows ==
  ASSUME NEW row \in Appt, NEW e \in Event, e.kind # "created", e.kind = "cancelled" => e.slot = row.slot
  PROVE  Shows(Changed(row, e), e)
BY DEF Shows, Changed, Appt, Event

LEMMA ChangedRow ==
  ASSUME NEW row \in Appt, NEW e \in Event
  PROVE  Changed(row, e) # NULL /\ Changed(row, e).uid = row.uid
<1>1. Changed(row, e) \in Appt /\ Changed(row, e).uid = row.uid
  BY DEF Changed, Appt, Event
<1> QED
  BY <1>1, RowsAssumption

LEMMA ReceivedSynced ==
  ASSUME AppointmentsTypeOK, NEW u \in Uids, Synced(u), NEW k \in DOMAIN booking[u], ReceiveChange(u, k)
  PROVE  Synced(u)'
<1> DEFINE e == booking[u][k]
<1>1. /\ booking[u] \in Seq(Event) /\ DOMAIN booking[u] = 1 .. Len(booking[u]) /\ Len(booking[u]) \in Nat
      /\ \A i \in DOMAIN booking[u] : booking[u][i] \in Event
  BY DEF AppointmentsTypeOK
<1>2. /\ e.kind # "created" /\ Arrives(u, k) /\ booking' = booking /\ booker' = booker /\ call' = call
      /\ confirmed' = confirmed /\ appt' = [a \in ApptIds |-> IF a \in RowOf(u) THEN Changed(appt[a], e) ELSE appt[a]]
  BY DEF ReceiveChange
<1>3. /\ delivered'[u] = delivered[u] \cup {k} /\ k # 1
  <2>1. delivered'[u] = delivered[u] \cup {k}
    BY <1>2, ArrivesType
  <2> QED
    BY <1>2, <2>1 DEF Synced, History
<1> HIDE DEF e
<1>4. \A a \in RowOf(u) : a \in ApptIds /\ appt[a] \in Appt /\ appt[a].uid = u /\ appt'[a] = Changed(appt[a], e)
  BY <1>2 DEF RowOf, AppointmentsTypeOK
<1>5. RowOf(u)' = RowOf(u)
  <2>1. e \in Event
    BY <1>1 DEF e
  <2>2. \A a \in RowOf(u) : appt'[a] # NULL /\ appt'[a].uid = u
    BY <1>4, <2>1, ChangedRow
  <2>3. \A a \in ApptIds \ RowOf(u) : appt'[a] = appt[a]
    BY <1>2
  <2> QED
    BY <2>2, <2>3 DEF RowOf
<1>6. History(u)' /\ OneRow(u)' /\ Recorded(u)' = Recorded(u) /\ Confirming(u)' = Confirming(u)
  BY <1>2, <1>5 DEF Synced, History, OneRow, Recorded, Confirming
<1>7. Confirms(u)'
  BY <1>2, <1>6 DEF Synced, Confirms
<1>8. (1 \in delivered'[u]) = (1 \in delivered[u])
  BY <1>3
<1>9. ASSUME u \notin disorder', 1 \in delivered[u], booker[u].known, NEW m \in Nat \ {0}, delivered'[u] = 1 .. m,
             NEW a \in RowOf(u)
      PROVE  Shows(appt'[a], booking[u][m])
  <2>1. /\ u \notin disorder /\ m \in DOMAIN booking[u]
        /\ \/ k = m /\ delivered[u] \in {1 .. (m - 1), 1 .. m}
           \/ k < m /\ delivered[u] = 1 .. m /\ booking[u][k].kind # "rescheduled"
    BY <1>2, <1>9, InOrder
  <2>2. k = m
    <3>1. k \in Nat /\ m <= Len(booking[u])
      BY <1>1, <2>1
    <3>2. CASE k < m /\ booking[u][k].kind # "rescheduled"
      <4>1. booking[u][k].kind = "cancelled"
        BY <1>1, <1>2, <3>2 DEF Event, e
      <4> QED
        BY <3>1, <3>2, <4>1 DEF Synced, History
    <3> QED
      BY <2>1, <3>2
  <2>3. appt[a].slot = e.slot \/ e.kind # "cancelled"
    <3>1. CASE delivered[u] = 1 .. m
      <4>1. Shows(appt[a], booking[u][m])
        BY <1>9, <2>1, <3>1 DEF Synced, Told
      <4> QED
        BY <2>2, <4>1 DEF Shows, e
    <3>2. CASE delivered[u] = 1 .. (m - 1)
      <4>1. m - 1 \in Nat \ {0}
        BY <1>1, <1>3, <2>2
      <4>2. Shows(appt[a], booking[u][m - 1])
        BY <1>9, <2>1, <3>2, <4>1 DEF Synced, Told
      <4> QED
        BY <2>2, <4>2 DEF Shows, e, Synced, History
    <3> QED
      BY <2>1, <2>2, <3>1, <3>2
  <2>4. e \in Event /\ appt[a] \in Appt /\ (e.kind = "cancelled" => e.slot = appt[a].slot)
    BY <1>1, <1>4, <2>3 DEF e
  <2>5. Shows(Changed(appt[a], e), e)
    BY <1>2, <2>4, ChangedShows DEF e
  <2> QED
    BY <1>4, <2>2, <2>5 DEF e
<1>10. Told(u)'
  BY <1>2, <1>3, <1>5, <1>6, <1>8, <1>9 DEF Synced, Told
<1> QED
  BY <1>6, <1>7, <1>10 DEF Synced

LEMMA RecordedSynced ==
  ASSUME MeetingsInv, NEW d \in Calls, NEW u \in Uids, call[d].uid = u, RecordBooking(d), Synced(u)
  PROVE  Synced(u)'
<1>0. AppointmentsTypeOK /\ call[d] \in Calling /\ call[d].pc = "record" /\ call[d].lead \in LeadIds
  <2>1. AppointmentsTypeOK /\ call[d].pc = "record"
    BY DEF MeetingsInv, RecordBooking
  <2>2. call[d] \in Calling
    BY <2>1, CallAtWork
  <2> QED
    BY <2>1, <2>2 DEF Calling
<1>1. booking[u] # <<>>
  BY <1>0 DEF MeetingsInv
<1>2. /\ 1 \in DOMAIN booking[u] /\ booking[u][1].slot \in Times /\ DOMAIN booking[u] = 1 .. Len(booking[u])
      /\ Len(booking[u]) \in Nat
  BY <1>0, <1>1, BookingType
<1>3. Arrives(u, 1) /\ booking' = booking /\ booker' = booker /\ confirmed' = confirmed
  BY DEF RecordBooking
<1>4. delivered'[u] = delivered[u] \cup {1} /\ delivered[u] \subseteq DOMAIN booking[u]
  <2>1. delivered'[u] = delivered[u] \cup {1}
    BY <1>0, <1>2, <1>3, ArrivesType
  <2> QED
    BY <1>0, <2>1 DEF AppointmentsTypeOK
<1>5. History(u)'
  BY <1>3 DEF Synced, History
<1>6. /\ call \in [Calls -> Call] /\ Done.pc = "done"
      /\ [call[d] EXCEPT !.pc = "confirm"].pc = "confirm" /\ [call[d] EXCEPT !.pc = "confirm"].uid = u
  BY <1>0 DEF Calling, Done, AppointmentsTypeOK
<1>7. CASE Recorded(u)
  <2>1. call' = [call EXCEPT ![d] = Done] /\ appt' = appt
    BY <1>7 DEF RecordBooking, Hangs
  <2>2. Confirming(u)' = Confirming(u)
    BY <1>0, <1>6, <2>1 DEF Confirming
  <2>3. RowOf(u)' = RowOf(u) /\ Recorded(u)' = Recorded(u) /\ OneRow(u)'
    BY <2>1 DEF RowOf, Recorded, OneRow, Synced
  <2>4. Confirms(u)'
    BY <1>3, <2>2, <2>3 DEF Synced, Confirms
  <2>5. 1 \in delivered[u]
    BY <1>7 DEF Synced, Told
  <2>6. delivered'[u] = delivered[u]
    BY <1>4, <2>5
  <2>7. u \in disorder => u \in disorder'
    BY <1>3 DEF Arrives
  <2>8. Told(u)'
    BY <1>3, <2>1, <2>3, <2>6, <2>7 DEF Synced, Told
  <2> QED
    BY <1>5, <2>3, <2>4, <2>8 DEF Synced
<1>8. CASE ~Recorded(u)
  <2>1. PICK a \in ApptIds : AddRow(a, call[d].lead, booking[u][1].slot, u)
    BY <1>8 DEF RecordBooking
  <2>2. call' = [call EXCEPT ![d] = [call[d] EXCEPT !.pc = "confirm"]]
    BY <1>6, <1>8 DEF RecordBooking
  <2>3. /\ RowOf(u)' = RowOf(u) \cup {a} /\ appt'[a].slot = booking[u][1].slot /\ appt'[a].status = "BOOKED"
    BY <1>0, <1>2, <2>1, RowAdded
  <2>4. RowOf(u)' = {a} /\ OneRow(u)' /\ Recorded(u)'
    BY <1>8, <2>3 DEF Recorded, OneRow
  <2>5. Confirming(u) = {} /\ confirmed[u] = 0
    BY <1>8 DEF Synced, Confirms
  <2>6. Confirming(u)' = {d}
    <3>1. call'[d].pc = "confirm" /\ call'[d].uid = u
      BY <1>6, <2>2
    <3>2. \A i \in Calls \ {d} : call'[i] = call[i]
      BY <1>6, <2>2
    <3> QED
      BY <2>5, <3>1, <3>2 DEF Confirming
  <2>7. Confirms(u)'
    BY <1>3, <2>4, <2>5, <2>6 DEF Confirms
  <2>8. ASSUME u \notin disorder', booker[u].known, NEW m \in Nat \ {0}, delivered'[u] = 1 .. m PROVE m = 1
    <3>1. 1 \notin delivered[u]
      BY <1>8, <2>8 DEF Synced, Told
    <3>2. \A later \in delivered[u] : ~(later > 1)
      BY <1>3, <2>8, <3>1 DEF Arrives
    <3>3. delivered[u] = {}
      BY <1>2, <1>4, <3>1, <3>2
    <3>4. 1 .. m = {1}
      BY <1>4, <2>8, <3>3
    <3>5. m \in 1 .. m
      OBVIOUS
    <3> QED
      BY <3>4, <3>5
  <2>9. Shows(appt'[a], booking[u][1])
    BY <1>2, <2>3 DEF Shows, Synced, History
  <2>10. Told(u)'
    BY <1>3, <1>4, <2>4, <2>8, <2>9 DEF Told
  <2> QED
    BY <1>5, <2>4, <2>7, <2>10 DEF Synced
<1> QED
  BY <1>7, <1>8

\* A booking nobody can be guessed for: it is of no known lead.
LEMMA DroppedSynced ==
  ASSUME AppointmentsTypeOK, NEW u \in Uids, Synced(u), MatchNobody(u)
  PROVE  Synced(u)'
<1>1. /\ ~booker[u].known /\ booking' = booking /\ booker' = booker /\ call' = call /\ confirmed' = confirmed
      /\ appt' = appt /\ booking[u] # <<>> /\ Arrives(u, 1)
  BY DEF MatchNobody
<1>2. delivered'[u] = delivered[u] \cup {1}
  BY <1>1, BookingType, ArrivesType
<1>3. RowOf(u)' = RowOf(u) /\ Recorded(u)' = Recorded(u) /\ Confirming(u)' = Confirming(u)
  BY <1>1 DEF RowOf, Recorded, Confirming
<1> QED
  BY <1>1, <1>2, <1>3 DEF Synced, History, OneRow, Confirms, Told

LEMMA ConfirmedSynced ==
  ASSUME AppointmentsTypeOK, NEW d \in Calls, NEW u \in Uids, call[d].uid = u, ConfirmBooking(d), Synced(u)
  PROVE  Synced(u)'
<1>1. /\ booking' = booking /\ booker' = booker /\ delivered' = delivered /\ disorder' = disorder /\ appt' = appt
      /\ call' = [call EXCEPT ![d] = Done] /\ call[d].pc = "confirm"
      /\ confirmed'[u] \in {confirmed[u], confirmed[u] + 1}
  BY DEF ConfirmBooking, Hangs, AppointmentsTypeOK
<1>2. d \in Confirming(u)
  BY <1>1 DEF Confirming
<1>3. confirmed[u] = 0 /\ Recorded(u) /\ Confirming(u) = {d}
  BY <1>2 DEF Synced, Confirms
<1>4. RowOf(u)' = RowOf(u) /\ Recorded(u)' = Recorded(u)
  BY <1>1 DEF RowOf, Recorded
<1>5. Confirming(u)' = {}
  <2>1. call'[d].pc = "done" /\ \A i \in Calls \ {d} : call'[i] = call[i]
    BY <1>1 DEF AppointmentsTypeOK, Done
  <2> QED
    BY <1>3, <2>1 DEF Confirming
<1>6. Confirms(u)'
  BY <1>1, <1>3, <1>4, <1>5 DEF Confirms
<1>7. History(u)' /\ OneRow(u)' /\ Told(u)'
  BY <1>1, <1>4 DEF Synced, History, OneRow, Told
<1> QED
  BY <1>6, <1>7 DEF Synced

\* A call of another booking, or one that does not confirm yet.
LEMMA ConfirmingOthers ==
  ASSUME AppointmentsTypeOK, NEW d \in Calls, NEW u \in Uids, NEW c, call' = [call EXCEPT ![d] = c],
         call[d].pc = "confirm" => call[d].uid # u, c.pc = "confirm" => c.uid # u
  PROVE  Confirming(u)' = Confirming(u)
<1>1. call'[d] = c /\ \A i \in Calls \ {d} : call'[i] = call[i]
  BY DEF AppointmentsTypeOK
<1> QED
  BY <1>1 DEF Confirming

\* An event of another booking arrives.
LEMMA ArrivesElsewhere ==
  ASSUME AppointmentsTypeOK, NEW u \in Uids, NEW v \in Uids, u # v, NEW k, Arrives(v, k)
  PROVE  delivered'[u] = delivered[u] /\ (u \in disorder') = (u \in disorder)
BY DEF AppointmentsTypeOK, Arrives

LEMMA CalcomKeepsSync ==
  ASSUME MeetingsInv, SyncInv, CalcomNext
  PROVE  SyncInv'
<1>0. AppointmentsTypeOK
  BY DEF MeetingsInv
<1> SUFFICES ASSUME NEW u \in Uids PROVE Synced(u)'
  BY DEF SyncInv
<1>s. Synced(u)
  BY DEF SyncInv
<1>r. ASSUME appt' = appt PROVE RowOf(u)' = RowOf(u) /\ \A a \in RowOf(u) : appt'[a] = appt[a]
  BY <1>r DEF RowOf
<1>1. ASSUME NEW v \in Uids, v # u, NEW kind, NEW t, Happens(v, kind, t), AtCalcom, booker'[u] = booker[u]
      PROVE  Synced(u)'
  <2>1. booking'[u] = booking[u]
    BY <1>0, <1>1 DEF Happens, AppointmentsTypeOK
  <2>2. /\ delivered' = delivered /\ disorder' = disorder /\ confirmed' = confirmed /\ call' = call /\ appt' = appt
    BY <1>1 DEF AtCalcom
  <2>3. Confirming(u)' = Confirming(u)
    BY <2>2 DEF Confirming
  <2>4. RowOf(u)' = RowOf(u) /\ \A a \in RowOf(u) : appt'[a] = appt[a]
    BY <1>r, <2>2
  <2> QED
    BY <1>1, <1>s, <2>1, <2>2, <2>3, <2>4, SyncOfOthers
<1>2. ASSUME NEW v \in Uids, NEW l \in LeadIds, NEW t \in Times, NEW known \in BOOLEAN, BookAtCalcom(v, l, t, known)
      PROVE  Synced(u)'
  <2>1. Happens(v, "created", t) /\ AtCalcom /\ booking[v] = <<>>
        /\ booker' = [booker EXCEPT ![v] = [lead |-> l, known |-> known]]
    BY <1>2 DEF BookAtCalcom
  <2>2. CASE v = u
    BY <1>s, <2>1, <2>2, HappeningSynced
  <2>3. CASE v # u
    <3>1. booker'[u] = booker[u]
      BY <1>0, <2>1, <2>3 DEF AppointmentsTypeOK
    <3> QED
      BY <1>1, <2>1, <2>3, <3>1
  <2> QED
    BY <2>2, <2>3
<1>3. ASSUME NEW v \in Uids, NEW t \in Times, MoveAtCalcom(v, t) PROVE Synced(u)'
  <2>1. /\ Happens(v, "rescheduled", t) /\ AtCalcom /\ booking[v] # <<>> /\ booker' = booker
        /\ Latest(v).kind # "cancelled"
    BY <1>3 DEF MoveAtCalcom
  <2>2. CASE v = u
    BY <1>s, <2>1, <2>2, HappeningSynced
  <2> QED
    BY <1>1, <2>1, <2>2
<1>4. ASSUME NEW v \in Uids, CancelAtCalcom(v) PROVE Synced(u)'
  <2>1. /\ Happens(v, "cancelled", Latest(v).slot) /\ AtCalcom /\ booking[v] # <<>> /\ booker' = booker
        /\ Latest(v).kind # "cancelled"
    BY <1>4 DEF CancelAtCalcom
  <2>2. Latest(v).slot \in Times
    BY <1>0, <2>1, BookingType
  <2>3. CASE v = u
    BY <1>s, <2>1, <2>2, <2>3, HappeningSynced
  <2> QED
    BY <1>1, <2>1, <2>3
<1>5. ASSUME NEW v \in Uids, NEW k \in DOMAIN booking[v], ReceiveChange(v, k) PROVE Synced(u)'
  <2>1. CASE v = u
    BY <1>0, <1>5, <1>s, <2>1, ReceivedSynced
  <2>2. CASE v # u
    <3>1. /\ Arrives(v, k) /\ booking' = booking /\ booker' = booker /\ call' = call /\ confirmed' = confirmed
          /\ appt' = [a \in ApptIds |-> IF a \in RowOf(v) THEN Changed(appt[a], booking[v][k]) ELSE appt[a]]
      BY <1>5 DEF ReceiveChange
    <3>2. delivered'[u] = delivered[u] /\ (u \in disorder') = (u \in disorder)
      BY <1>0, <2>2, <3>1, ArrivesElsewhere
    <3>3. \A a \in RowOf(v) : appt[a] \in Appt /\ appt[a].uid = v /\ Changed(appt[a], booking[v][k]).uid = v
      <4>1. booking[v][k] \in Event
        BY <1>0 DEF AppointmentsTypeOK
      <4>2. \A a \in RowOf(v) : appt[a] \in Appt /\ appt[a].uid = v
        BY <1>0 DEF RowOf, AppointmentsTypeOK
      <4> QED
        BY <4>1, <4>2, ChangedRow
    <3>4. \A a \in ApptIds : IF a \in RowOf(v) THEN appt'[a].uid = v ELSE appt'[a] = appt[a]
      BY <3>1, <3>3
    <3>5. RowOf(u)' = RowOf(u) /\ \A a \in RowOf(u) : appt'[a] = appt[a]
      BY <2>2, <3>4 DEF RowOf
    <3>6. Confirming(u)' = Confirming(u)
      BY <3>1 DEF Confirming
    <3> QED
      BY <1>s, <3>1, <3>2, <3>5, <3>6, SyncOfOthers
  <2> QED
    BY <2>1, <2>2
<1>6. ASSUME NEW v \in Uids, MatchNobody(v) PROVE Synced(u)'
  <2>1. CASE v = u
    BY <1>0, <1>6, <1>s, <2>1, DroppedSynced
  <2>2. CASE v # u
    <3>1. /\ Arrives(v, 1) /\ booking' = booking /\ booker' = booker /\ call' = call /\ confirmed' = confirmed
          /\ appt' = appt
      BY <1>6 DEF MatchNobody
    <3>2. delivered'[u] = delivered[u] /\ (u \in disorder') = (u \in disorder)
      BY <1>0, <2>2, <3>1, ArrivesElsewhere
    <3>3. Confirming(u)' = Confirming(u)
      BY <3>1 DEF Confirming
    <3>4. RowOf(u)' = RowOf(u) /\ \A a \in RowOf(u) : appt'[a] = appt[a]
      BY <1>r, <3>1
    <3> QED
      BY <1>s, <3>1, <3>2, <3>3, <3>4, SyncOfOthers
  <2> QED
    BY <2>1, <2>2
<1>7. ASSUME NEW d \in Calls, call[d].pc # "confirm", NEW c, c.pc # "confirm", call' = [call EXCEPT ![d] = c],
             UNCHANGED <<appt, booking, booker, delivered, disorder, confirmed>>
      PROVE  Synced(u)'
  <2>1. Confirming(u)' = Confirming(u)
    BY <1>0, <1>7, ConfirmingOthers
  <2>2. RowOf(u)' = RowOf(u) /\ \A a \in RowOf(u) : appt'[a] = appt[a]
    BY <1>7, <1>r
  <2> QED
    BY <1>7, <1>s, <2>1, <2>2, SyncOfOthers
<1>8. ASSUME NEW v \in Uids, NEW d \in Calls, MatchBooker(d, v) PROVE Synced(u)'
  <2>1. PICK l \in LeadIds, sure \in BOOLEAN :
           call' = [call EXCEPT ![d] = [pc |-> "record", uid |-> v, lead |-> l, sure |-> sure,
                                        advance |-> lead[l].status \in Open]]
    BY <1>8 DEF MatchBooker
  <2> DEFINE c == [pc |-> "record", uid |-> v, lead |-> l, sure |-> sure, advance |-> lead[l].status \in Open]
  <2>2. c.pc # "confirm" /\ call' = [call EXCEPT ![d] = c]
    BY <2>1
  <2>3. call[d].pc # "confirm" /\ UNCHANGED <<appt, booking, booker, delivered, disorder, confirmed>>
    BY <1>8 DEF MatchBooker
  <2> HIDE DEF c
  <2> QED
    BY <1>7, <2>2, <2>3
<1>9. ASSUME NEW d \in Calls, RecordBooking(d) PROVE Synced(u)'
  <2>1. /\ call[d].uid \in Uids /\ call[d].lead \in LeadIds /\ call[d].pc = "record"
    BY <1>0, <1>9, CallAtWork DEF RecordBooking, Calling
  <2>2. CASE call[d].uid = u
    BY <1>9, <1>s, <2>2, RecordedSynced
  <2>3. CASE call[d].uid # u
    <3>1. /\ Arrives(call[d].uid, 1) /\ booking' = booking /\ booker' = booker /\ confirmed' = confirmed
      BY <1>9 DEF RecordBooking
    <3>2. delivered'[u] = delivered[u] /\ (u \in disorder') = (u \in disorder)
      BY <1>0, <2>1, <2>3, <3>1, ArrivesElsewhere
    <3>3. Confirming(u)' = Confirming(u)
      <4>1. call' = [call EXCEPT ![d] = Done] \/ call' = [call EXCEPT ![d] = [call[d] EXCEPT !.pc = "confirm"]]
        BY <1>0, <1>9 DEF RecordBooking, Hangs, AppointmentsTypeOK
      <4>2. call[d] \in Calling
        BY <1>0, <2>1, CallAtWork
      <4>3. Done.pc # "confirm" /\ [call[d] EXCEPT !.pc = "confirm"].uid # u
        BY <2>3, <4>2 DEF Done, Calling
      <4>4. CASE call' = [call EXCEPT ![d] = Done]
        BY <1>0, <2>1, <4>3, <4>4, ConfirmingOthers
      <4>5. ASSUME NEW c, c.uid # u, call' = [call EXCEPT ![d] = c] PROVE Confirming(u)' = Confirming(u)
        BY <1>0, <2>1, <4>5, ConfirmingOthers
      <4> QED
        BY <4>1, <4>3, <4>4, <4>5
    <3>4. RowOf(u)' = RowOf(u) /\ \A a \in RowOf(u) : appt'[a] = appt[a]
      <4>1. CASE appt' = appt
        BY <1>r, <4>1
      <4>2. CASE \E a \in ApptIds : AddRow(a, call[d].lead, booking[call[d].uid][1].slot, call[d].uid)
        <5>1. PICK a \in ApptIds : AddRow(a, call[d].lead, booking[call[d].uid][1].slot, call[d].uid)
          BY <4>2
        <5>2. booking[call[d].uid][1].slot \in Times
          BY <1>0, <2>1, BookingType DEF MeetingsInv
        <5>3. /\ RowOf(u)' = RowOf(u) /\ appt[a] = NULL
              /\ \A b \in ApptIds \ {a} : appt'[b] = appt[b]
          BY <1>0, <2>1, <2>3, <5>1, <5>2, RowAdded
        <5> QED
          BY <5>3 DEF RowOf
      <4> QED
        BY <1>9, <4>1, <4>2 DEF RecordBooking
    <3> QED
      BY <1>s, <3>1, <3>2, <3>3, <3>4, SyncOfOthers
  <2> QED
    BY <2>2, <2>3
<1>10. ASSUME NEW d \in Calls, ConfirmBooking(d) PROVE Synced(u)'
  <2>1. /\ call[d].uid \in Uids /\ call[d].pc = "confirm" /\ call' = [call EXCEPT ![d] = Done]
    BY <1>0, <1>10, CallAtWork DEF ConfirmBooking, Hangs, Calling
  <2>2. CASE call[d].uid = u
    BY <1>0, <1>10, <1>s, <2>2, ConfirmedSynced
  <2>3. CASE call[d].uid # u
    <3>1. Done.pc # "confirm"
      BY DEF Done
    <3>2. Confirming(u)' = Confirming(u)
      BY <1>0, <2>1, <2>3, <3>1, ConfirmingOthers
    <3>3. /\ booking' = booking /\ booker' = booker /\ delivered' = delivered /\ disorder' = disorder /\ appt' = appt
          /\ confirmed'[u] = confirmed[u]
      BY <1>0, <1>10, <2>3 DEF ConfirmBooking, AppointmentsTypeOK
    <3>4. RowOf(u)' = RowOf(u) /\ \A a \in RowOf(u) : appt'[a] = appt[a]
      BY <1>r, <3>3
    <3> QED
      BY <1>s, <3>2, <3>3, <3>4, SyncOfOthers
  <2> QED
    BY <2>2, <2>3
<1>11. ASSUME NEW d \in Calls, HookDies(d) PROVE Synced(u)'
  <2>1. /\ booking' = booking /\ booker' = booker /\ delivered' = delivered /\ disorder' = disorder /\ appt' = appt
        /\ confirmed' = confirmed /\ call' = [call EXCEPT ![d] = New]
    BY <1>11 DEF HookDies
  <2>2. call'[d].pc = "new" /\ \A i \in Calls \ {d} : call'[i] = call[i]
    BY <1>0, <2>1 DEF New, AppointmentsTypeOK
  <2>3. Confirming(u)' = Confirming(u) \ {d}
    BY <2>2 DEF Confirming
  <2>4. RowOf(u)' = RowOf(u) /\ Recorded(u)' = Recorded(u)
    BY <2>1 DEF RowOf, Recorded
  <2>5. Confirms(u)'
    BY <1>s, <2>1, <2>3, <2>4 DEF Synced, Confirms
  <2>6. History(u)' /\ OneRow(u)' /\ Told(u)'
    BY <1>s, <2>1, <2>4 DEF Synced, History, OneRow, Told
  <2> QED
    BY <2>5, <2>6 DEF Synced
<1> QED
  BY <1>2, <1>3, <1>4, <1>5, <1>6, <1>8, <1>9, <1>10, <1>11 DEF CalcomNext

\* However often and however concurrently the calls about a booking arrive, it has
\* one row at most and is confirmed once; and a known lead's row shows what became
\* of the booking at Cal.com once all of it was delivered in order
\* (route.ts:15-16, 322-327).
THEOREM CalcomIsInSync == Spec => []InSync
<1>1. Init => SyncInv
  <2> SUFFICES ASSUME Init, NEW u \in Uids PROVE Synced(u)
    BY DEF SyncInv
  <2>1. /\ booking[u] = <<>> /\ delivered[u] = {} /\ confirmed[u] = 0 /\ appt = [a \in ApptIds |-> NULL]
        /\ call = [d \in Calls |-> New]
    BY DEF Init, AppointmentsInit
  <2>2. RowOf(u) = {} /\ Confirming(u) = {}
    BY <2>1 DEF RowOf, Confirming, New
  <2> QED
    BY <2>1, <2>2 DEF Synced, History, OneRow, Confirms, Told, Recorded
<1>2. CrmInv /\ SyncInv /\ [Next]_vars => SyncInv'
  <2>1. SyncInv /\ UNCHANGED apptVars => SyncInv'
    BY DEF SyncInv, Synced, History, OneRow, Confirms, Told, Recorded, RowOf, Confirming, apptVars, hookVars
  <2> QED
    BY <2>1, BotKeepsSync, CalcomKeepsSync DEF Next, vars, CrmInv
<1>3. CrmInv /\ SyncInv => InSync
  <2> SUFFICES ASSUME CrmInv, SyncInv, NEW u \in Uids
               PROVE  /\ Cardinality(RowOf(u)) <= 1 /\ confirmed[u] <= 1
                      /\ u \notin disorder /\ booking[u] # <<>> /\ delivered[u] = DOMAIN booking[u]
                         /\ booker[u].known =>
                           \E a \in RowOf(u) : /\ appt[a].slot = Latest(u).slot
                                               /\ (appt[a].status = "CANCELLED") = (Latest(u).kind = "cancelled")
    BY DEF InSync
  <2>0. Synced(u) /\ AppointmentsTypeOK
    BY DEF SyncInv, CrmInv, MeetingsInv
  <2>1. Cardinality(RowOf(u)) <= 1
    <3>1. RowOf(u) = {} \/ \E a : RowOf(u) = {a}
      BY <2>0 DEF Synced, OneRow
    <3>2. CASE RowOf(u) = {}
      <4>1. Cardinality(RowOf(u)) = 0
        BY <3>2, FS_EmptySet
      <4> QED
        BY <4>1
    <3>3. ASSUME NEW a, RowOf(u) = {a} PROVE Cardinality(RowOf(u)) <= 1
      <4>1. Cardinality({a}) = 1
        BY FS_Singleton
      <4> QED
        BY <3>3, <4>1
    <3> QED
      BY <3>1, <3>2, <3>3
  <2>2. confirmed[u] <= 1
    BY <2>0 DEF Synced, Confirms
  <2>3. ASSUME u \notin disorder, booking[u] # <<>>, delivered[u] = DOMAIN booking[u], booker[u].known
        PROVE  \E a \in RowOf(u) : /\ appt[a].slot = Latest(u).slot
                                   /\ (appt[a].status = "CANCELLED") = (Latest(u).kind = "cancelled")
    <3>1. 1 \in delivered[u] /\ delivered[u] = 1 .. Len(booking[u]) /\ Len(booking[u]) \in Nat \ {0}
      BY <2>0, <2>3, BookingType
    <3>2. Recorded(u) /\ \A a \in RowOf(u) : Shows(appt[a], booking[u][Len(booking[u])])
      BY <2>0, <2>3, <3>1 DEF Synced, Told
    <3> QED
      BY <3>2 DEF Recorded, Shows, Latest
  <2> QED
    BY <2>1, <2>2, <2>3
<1> QED
  BY <1>1, <1>2, <1>3, InitTypes, NextTypes, PTL DEF Spec

-------------------------------------------------------------------------------
(* Who read a lead, and who wrote it since *)

\* A step of p: whoever else has read a lead that is not mixed finds it as it was.
Moves(p) ==
  /\ mixed \subseteq mixed'
  /\ \A l \in LeadIds : reading[l] \ {p} \subseteq reading'[l]
  /\ \A l \in LeadIds \ mixed' : lead'[l] # lead[l] => reading[l] \subseteq {p}

LEMMA ReadersStay ==
  ASSUME NEW p
  PROVE  /\ UNCHANGED reading => \A l \in LeadIds : reading[l] \ {p} \subseteq reading'[l]
         /\ Leaves(p) => \A l \in LeadIds : reading[l] \ {p} \subseteq reading'[l]
         /\ \A ls : Reads(p, ls) =>
              \A l \in LeadIds : reading[l] \subseteq reading'[l] /\ (l \in ls => p \in reading'[l])
BY DEF Leaves, Reads

LEMMA WritesMoves ==
  ASSUME NEW p, NEW ls, NEW new, Writes(p, ls, new), UNCHANGED reading \/ Leaves(p)
  PROVE  Moves(p)
<1>1. \A l \in LeadIds : reading[l] \ {p} \subseteq reading'[l]
  BY ReadersStay
<1> QED
  BY <1>1 DEF Moves, Writes

LEMMA KeepsMoves ==
  ASSUME NEW p, KeepsRows, UNCHANGED reading \/ Leaves(p) \/ \E ls : Reads(p, ls)
  PROVE  Moves(p)
<1>1. \A l \in LeadIds : reading[l] \ {p} \subseteq reading'[l]
  BY ReadersStay
<1> QED
  BY <1>1 DEF Moves, KeepsRows

\* What another reader of a lead finds after a step of p.
LEMMA MovesKeeps ==
  ASSUME NEW p, Moves(p), NEW q, q # p, NEW l \in LeadIds, q \in reading[l]
  PROVE  q \in reading'[l] /\ (l \notin mixed' => l \notin mixed /\ lead'[l] = lead[l])
BY DEF Moves

\* The row shows what the entry of t says.
Displays(t, row) ==
  /\ t.edit.col \in {"status", "owner", "product"} => row[t.edit.col] = t.edit.to
  /\ t.edit.kind \in {"tag", "untag"} => row.tags = Update(NewLead, t.seen, t.edit).tags

\* Who may see a row.
Sees(u, row) == u \in Agents => row.owner \in {u, NULL}

\* A request has the row it is going to write, and what it is going to log is
\* there, unless somebody else wrote it meanwhile.
FreshRequest(r) ==
  LET t == request[r] IN
  /\ t.pc = "before" => t.edit.kind = "bulk"
  /\ t.pc \in {"check", "write", "log"} /\ t.edit.kind # "bulk" => t.todo = t.on
  /\ t.pc \in {"check", "write"} /\ t.edit.kind # "bulk" =>
       \A l \in t.on : r \in reading[l] /\ (l \notin mixed => t.seen = Whole(lead[l], t.edit))
  /\ t.pc = "write" /\ t.edit.kind = "bulk" =>
       /\ t.todo \subseteq t.on
       /\ \A l \in t.on :
            r \in reading[l] /\ (l \notin mixed => (l \in t.todo) = (Sees(t.by, lead[l]) /\ Asks(lead[l], t.edit)))
  /\ t.pc = "log" => \A l \in t.todo : r \in reading[l] /\ (l \notin mixed => Displays(t, lead[l]))

\* So has a job, for the answers, the tags and the owner it has read.
FreshJob(j) ==
  LET b == job[j]  row == lead[b.on] IN
  b.pc \notin {"new", "done"} =>
    /\ j \in reading[b.on]
    /\ b.on \notin mixed =>
         /\ b.fields = row.fields
         /\ b.pc \in {"next", "tag", "logTag"} => b.owner = row.owner
         /\ b.pc = "tag" => b.tags = row.tags
         /\ b.pc = "logTag" => row.tags = b.tags \cup {b.to}
         /\ b.pc \in {"pick", "give"} => row.owner = NULL
         /\ b.pc = "logOwner" => row.owner = b.to

\* So has a call, for the status of the lead it has matched.
FreshCall(d) ==
  LET c == call[d] IN
  c.pc = "record" =>
    d \in reading[c.lead] /\ (c.lead \notin mixed /\ c.advance => lead[c.lead].status \in Open)

FreshInv ==
  /\ \A r \in Requests : FreshRequest(r)
  /\ \A j \in Jobs : FreshJob(j)
  /\ \A d \in Calls : FreshCall(d)

LEMMA RequestStaysFresh ==
  ASSUME LeadsTypeOK, NEW p, Moves(p), NEW r \in Requests, r # p, request'[r] = request[r], FreshRequest(r)
  PROVE  FreshRequest(r)'
<1> DEFINE t == request[r]
<1>1. t.pc \in {"check", "before", "write", "log"} => t.on \in SUBSET LeadIds /\ t.todo \in SUBSET LeadIds
  BY AtWork
<1>2. \A l \in LeadIds : r \in reading[l] =>
        r \in reading'[l] /\ (l \notin mixed' => l \notin mixed /\ lead'[l] = lead[l])
  BY MovesKeeps
<1>3. ASSUME t.pc \in {"check", "write"}, t.edit.kind # "bulk", NEW l \in t.on
      PROVE  r \in reading'[l] /\ (l \notin mixed' => t.seen = Whole(lead'[l], t.edit))
  BY <1>1, <1>2, <1>3 DEF FreshRequest
<1>4. ASSUME t.pc = "write", t.edit.kind = "bulk", NEW l \in t.on
      PROVE  r \in reading'[l] /\ (l \notin mixed' => (l \in t.todo) = (Sees(t.by, lead'[l]) /\ Asks(lead'[l], t.edit)))
  BY <1>1, <1>2, <1>4 DEF FreshRequest
<1>5. ASSUME t.pc = "log", NEW l \in t.todo
      PROVE  r \in reading'[l] /\ (l \notin mixed' => Displays(t, lead'[l]))
  BY <1>1, <1>2, <1>5 DEF FreshRequest
<1>6. t.pc = "before" => t.edit.kind = "bulk"
  BY DEF FreshRequest
<1>7. t.pc \in {"check", "write", "log"} /\ t.edit.kind # "bulk" => t.todo = t.on
  BY DEF FreshRequest
<1>8. t.pc = "write" /\ t.edit.kind = "bulk" => t.todo \subseteq t.on
  BY DEF FreshRequest
<1>9. request'[r] = t
  OBVIOUS
<1> HIDE DEF t
<1> QED
  BY <1>3, <1>4, <1>5, <1>6, <1>7, <1>8, <1>9 DEF FreshRequest

LEMMA JobStaysFresh ==
  ASSUME LeadsTypeOK, NEW p, Moves(p), NEW j \in Jobs, j # p, job'[j] = job[j], FreshJob(j)
  PROVE  FreshJob(j)'
<1>1. job[j].pc \notin {"new", "done"} => job[j].on \in LeadIds
  BY JobAtWork DEF Working
<1>2. \A l \in LeadIds : j \in reading[l] =>
        j \in reading'[l] /\ (l \notin mixed' => l \notin mixed /\ lead'[l] = lead[l])
  BY MovesKeeps
<1> QED
  BY <1>1, <1>2 DEF FreshJob

LEMMA CallStaysFresh ==
  ASSUME AppointmentsTypeOK, NEW p, Moves(p), NEW d \in Calls, d # p, call'[d] = call[d], FreshCall(d)
  PROVE  FreshCall(d)'
<1>1. call[d].pc = "record" => call[d].lead \in LeadIds
  BY CallAtWork DEF Calling
<1>2. \A l \in LeadIds : d \in reading[l] =>
        d \in reading'[l] /\ (l \notin mixed' => l \notin mixed /\ lead'[l] = lead[l])
  BY MovesKeeps
<1> QED
  BY <1>1, <1>2 DEF FreshCall

\* A step of a request, of a job, of a call, or of nobody who reads first.
LEMMA RequestFresh ==
  ASSUME LeadsTypeOK, AppointmentsTypeOK, FreshInv, NEW r \in Requests, Moves(r), NEW t,
         request' = [request EXCEPT ![r] = t],
         job' = job, call' = call, FreshRequest(r)'
  PROVE  FreshInv'
<1>1. \A q \in Requests \ {r} : request'[q] = request[q]
  BY DEF LeadsTypeOK
<1>2. \A q \in Requests : FreshRequest(q)'
  BY <1>1, RequestStaysFresh DEF FreshInv
<1>3. \A j \in Jobs : FreshJob(j)'
  BY JobStaysFresh, LeadsAssumption DEF FreshInv
<1>4. \A d \in Calls : FreshCall(d)'
  BY CallStaysFresh, AppointmentsAssumption DEF FreshInv
<1> QED
  BY <1>2, <1>3, <1>4 DEF FreshInv

LEMMA JobFresh ==
  ASSUME LeadsTypeOK, AppointmentsTypeOK, FreshInv, NEW j \in Jobs, Moves(j), NEW b, job' = [job EXCEPT ![j] = b],
         request' = request, call' = call, FreshJob(j)'
  PROVE  FreshInv'
<1>1. \A i \in Jobs \ {j} : job'[i] = job[i]
  BY DEF LeadsTypeOK
<1>2. \A i \in Jobs : FreshJob(i)'
  BY <1>1, JobStaysFresh DEF FreshInv
<1>3. \A r \in Requests : FreshRequest(r)'
  BY RequestStaysFresh, LeadsAssumption DEF FreshInv
<1>4. \A d \in Calls : FreshCall(d)'
  BY CallStaysFresh, AppointmentsAssumption DEF FreshInv
<1> QED
  BY <1>2, <1>3, <1>4 DEF FreshInv

LEMMA CallFresh ==
  ASSUME LeadsTypeOK, AppointmentsTypeOK, FreshInv, NEW d \in Calls, Moves(d), NEW c, call' = [call EXCEPT ![d] = c],
         request' = request, job' = job, FreshCall(d)'
  PROVE  FreshInv'
<1>1. \A i \in Calls \ {d} : call'[i] = call[i]
  BY DEF AppointmentsTypeOK
<1>2. \A i \in Calls : FreshCall(i)'
  BY <1>1, CallStaysFresh DEF FreshInv
<1>3. \A r \in Requests : FreshRequest(r)'
  BY RequestStaysFresh, AppointmentsAssumption DEF FreshInv
<1>4. \A j \in Jobs : FreshJob(j)'
  BY JobStaysFresh, AppointmentsAssumption DEF FreshInv
<1> QED
  BY <1>2, <1>3, <1>4 DEF FreshInv

LEMMA NobodyFresh ==
  ASSUME LeadsTypeOK, AppointmentsTypeOK, FreshInv, Moves(NULL), request' = request, job' = job, call' = call
  PROVE  FreshInv'
<1>1. \A r \in Requests : FreshRequest(r)'
  BY RequestStaysFresh, LeadsAssumption DEF FreshInv
<1>2. \A j \in Jobs : FreshJob(j)'
  BY JobStaysFresh, LeadsAssumption DEF FreshInv
<1>3. \A d \in Calls : FreshCall(d)'
  BY CallStaysFresh, AppointmentsAssumption DEF FreshInv
<1> QED
  BY <1>1, <1>2, <1>3 DEF FreshInv

\* What a request asks for, and what its update does to the row.
LEMMA UpdateShows ==
  ASSUME NEW t, t.edit \in Edit, t.seen \in Seen, NEW row \in Row, NEW seen \in Seen, seen.tags = t.seen.tags
  PROVE  Displays(t, Update(row, seen, t.edit))
<1> DEFINE e == t.edit
<1>0. e \in Edit
  OBVIOUS
<1> HIDE DEF e
<1>1. CASE e.kind \in {"set", "bulk"} /\ e.col \in Columns /\ e.to \in Ranges[e.col]
  <2>1. Update(row, seen, e) = [row EXCEPT ![e.col] = e.to]
    BY <1>1 DEF Update
  <2>2. Update(row, seen, e)[e.col] = e.to
    BY <1>1, <2>1, SetColumn
  <2> QED
    BY <1>1, <2>2 DEF Displays, e
<1>2. CASE e.kind \in {"tag", "untag"} /\ e.col \in Tags
  <2> DEFINE tags == IF e.kind = "tag" THEN seen.tags \cup {e.col} ELSE seen.tags \ {e.col}
  <2>1. tags \in SUBSET Tags
    BY <1>2 DEF Seen
  <2>2. /\ Update(row, seen, e) = [row EXCEPT !.tags = tags]
        /\ Update(NewLead, t.seen, e) = [NewLead EXCEPT !.tags = tags]
    BY <1>2 DEF Update
  <2> HIDE DEF tags
  <2>3. Update(row, seen, e).tags = Update(NewLead, t.seen, e).tags
    BY <2>1, <2>2, SetTags, NewLeadType
  <2>4. e.col \notin {"status", "owner", "product"}
    BY <1>2, LeadsAssumption DEF Columns
  <2> QED
    BY <1>2, <2>3, <2>4 DEF Displays, e
<1>3. CASE e.kind = "field" /\ e.col \in Keys
  <2>1. e.col \notin {"status", "owner", "product"}
    BY <1>3, LeadsAssumption DEF Columns
  <2> QED
    BY <1>3, <2>1 DEF Displays, e
<1>4. CASE e.kind = "note" /\ e.col = NULL
  <2>1. e.col \notin {"status", "owner", "product"}
    BY <1>4, LeadsAssumption DEF Columns
  <2> QED
    BY <1>4, <2>1 DEF Displays, e
<1> QED
  BY <1>0, <1>1, <1>2, <1>3, <1>4, EditKinds

LEMMA EditsKeepFresh ==
  ASSUME LeadsTypeOK, AppointmentsTypeOK, FreshInv, NEW r \in Requests, Edits(r), UNCHANGED apptVars
  PROVE  FreshInv' /\ Moves(r)
<1> DEFINE t == request[r]
<1>0. /\ FreshRequest(r) /\ call' = call /\ job' = job
      /\ request \in [Requests -> Request] /\ Done.pc = "done"
  <2>1. RequestRest => job' = job
    BY DEF RequestRest, botVars
  <2>2. ASSUME NEW u, NEW e, NEW l, OpenLead(r, u, l, e) \/ OpenBulk(r, u, l, e) PROVE RequestRest
    BY <2>2 DEF OpenLead, OpenBulk
  <2>3. CheckTarget(r) \/ BulkBefore(r) => RequestRest
    BY DEF CheckTarget, BulkBefore
  <2>4. WriteLead(r) => RequestRest
    BY DEF WriteLead
  <2>5. LogEdit(r) \/ WebDies(r) => RequestRest
    BY DEF LogEdit, WebDies
  <2>6. RequestRest
    BY <2>2, <2>3, <2>4, <2>5 DEF Edits
  <2> QED
    BY <2>1, <2>6 DEF FreshInv, apptVars, hookVars, LeadsTypeOK, Done
<1>e. ASSUME Ends(r), KeepsRows PROVE FreshInv' /\ Moves(r)
  <2>1. Moves(r) /\ request' = [request EXCEPT ![r] = Done]
    BY <1>e, KeepsMoves DEF Ends
  <2>2. FreshRequest(r)'
    BY <1>0, <2>1 DEF FreshRequest
  <2> QED
    BY <1>0, <2>1, <2>2, RequestFresh
<1>1. ASSUME NEW u \in Users, NEW e \in Forms, NEW l \in LeadIds, OpenLead(r, u, l, e) PROVE FreshInv' /\ Moves(r)
  <2> DEFINE n == [pc |-> IF Checked(e) THEN "check" ELSE "write", by |-> u, edit |-> e, on |-> {l},
                   seen |-> Whole(lead[l], e), todo |-> {l}]
  <2>1. request' = [request EXCEPT ![r] = n] /\ Reads(r, {l}) /\ KeepsRows /\ e.kind # "bulk"
    BY <1>1 DEF OpenLead
  <2>2. /\ n.pc \in {"check", "write"} /\ n.edit = e /\ n.on = {l} /\ n.todo = {l}
        /\ n.seen = Whole(lead[l], e)
    OBVIOUS
  <2> HIDE DEF n
  <2>3. Moves(r)
    BY <2>1, KeepsMoves
  <2>4. request'[r] = n /\ r \in reading'[l] /\ lead' = lead
    BY <1>0, <2>1, ReadersStay DEF KeepsRows
  <2>5. FreshRequest(r)'
    BY <2>1, <2>2, <2>4 DEF FreshRequest
  <2> QED
    BY <1>0, <2>1, <2>3, <2>5, RequestFresh
<1>2. ASSUME NEW u \in Users, NEW e \in Forms, NEW ls \in SUBSET LeadIds, OpenBulk(r, u, ls, e)
      PROVE  FreshInv' /\ Moves(r)
  <2> DEFINE n == [pc |-> IF Checked(e) THEN "check" ELSE "before", by |-> u, edit |-> e, on |-> ls,
                   seen |-> Whole(NewLead, e), todo |-> {}]
  <2>1. request' = [request EXCEPT ![r] = n] /\ reading' = reading /\ KeepsRows /\ e.kind = "bulk"
    BY <1>2 DEF OpenBulk
  <2>2. n.pc \in {"check", "before"} /\ n.edit = e
    OBVIOUS
  <2> HIDE DEF n
  <2>3. Moves(r)
    BY <2>1, KeepsMoves
  <2>4. FreshRequest(r)'
    BY <1>0, <2>1, <2>2 DEF FreshRequest
  <2> QED
    BY <1>0, <2>1, <2>3, <2>4, RequestFresh
<1>3. ASSUME CheckTarget(r) PROVE FreshInv' /\ Moves(r)
  <2>0. At(r, "check") /\ KeepsRows
    BY <1>3 DEF CheckTarget
  <2>1. CASE Ends(r)
    BY <1>e, <2>0, <2>1
  <2>2. ASSUME NEW pc, pc = (IF t.edit.kind = "bulk" THEN "before" ELSE "write"), To(r, pc), UNCHANGED reading
        PROVE  FreshInv' /\ Moves(r)
    <3> DEFINE n == [t EXCEPT !.pc = pc]
    <3>1. /\ request' = [request EXCEPT ![r] = n] /\ t.pc = "check"
      BY <1>0, <2>0, <2>2 DEF To, At
    <3>2. n.pc = pc /\ n.edit = t.edit /\ n.on = t.on /\ n.todo = t.todo /\ n.seen = t.seen /\ n.by = t.by
      <4>1. t \in [pc: {"check", "before", "write", "log"}, by: Users, edit: Edit,
                   on: SUBSET LeadIds, todo: SUBSET LeadIds, seen: Seen]
        BY <1>0, <3>1 DEF Request, New, Done, Seen
      <4> HIDE DEF t
      <4> QED
        BY <4>1
    <3>3. Moves(r)
      BY <2>0, <2>2, KeepsMoves
    <3> HIDE DEF n
    <3>4. request'[r] = n
      BY <1>0, <3>1
    <3>5. FreshRequest(r)'
      BY <1>0, <2>0, <2>2, <3>1, <3>2, <3>4 DEF FreshRequest, KeepsRows
    <3> QED
      BY <1>0, <3>1, <3>3, <3>5, RequestFresh
  <2> QED
    BY <1>3, <2>1, <2>2 DEF CheckTarget
<1>4. ASSUME BulkBefore(r) PROVE FreshInv' /\ Moves(r)
  <2>1. /\ request' = [request EXCEPT ![r].pc = "write", ![r].todo = Before(t)]
        /\ Reads(r, t.on) /\ KeepsRows /\ t.pc = "before"
    BY <1>4 DEF BulkBefore, At
  <2> DEFINE n == [t EXCEPT !.pc = "write", !.todo = Before(t)]
  <2>2. request' = [request EXCEPT ![r] = n]
    BY <1>0, <2>1
  <2>3. /\ n.pc = "write" /\ n.edit = t.edit /\ n.on = t.on /\ n.todo = Before(t) /\ n.by = t.by
        /\ t.on \in SUBSET LeadIds
    <3>1. t \in [pc: {"check", "before", "write", "log"}, by: Users, edit: Edit,
                 on: SUBSET LeadIds, todo: SUBSET LeadIds, seen: Seen]
      BY <1>0, <2>1 DEF Request, New, Done, Seen
    <3> HIDE DEF t
    <3> QED
      BY <3>1
  <2>4. Moves(r)
    BY <2>1, KeepsMoves
  <2>5. /\ Before(t) \subseteq t.on
        /\ \A l \in t.on : (l \in Before(t)) = (Sees(t.by, lead[l]) /\ Asks(lead[l], t.edit))
    BY DEF Before, Visible, Sees
  <2>6. \A l \in t.on : r \in reading'[l]
    BY <2>1, <2>3, ReadersStay
  <2>7. request'[r] = n /\ lead' = lead /\ t.edit.kind = "bulk"
    BY <1>0, <2>1, <2>2 DEF KeepsRows, FreshRequest
  <2> HIDE DEF n, t
  <2>8. FreshRequest(r)'
    BY <2>3, <2>5, <2>6, <2>7 DEF FreshRequest
  <2> QED
    BY <1>0, <2>2, <2>4, <2>8, RequestFresh
<1>5. ASSUME WriteLead(r) PROVE FreshInv' /\ Moves(r)
  <2>1. t.pc = "write"
    BY <1>5 DEF WriteLead, At
  <2>2. CASE Ends(r) /\ KeepsRows
    BY <1>e, <2>2
  <2>3. CASE /\ Writes(r, Targets(t), [l \in LeadIds |-> Update(lead[l], t.seen, t.edit)])
             /\ request' = [request EXCEPT ![r].pc = "log"] /\ UNCHANGED reading
    <3> DEFINE n == [t EXCEPT !.pc = "log"]
               new == [l \in LeadIds |-> Update(lead[l], t.seen, t.edit)]
    <3>1. request' = [request EXCEPT ![r] = n] /\ Writes(r, Targets(t), new)
      BY <1>0, <2>3
    <3>2. /\ n.pc = "log" /\ n.edit = t.edit /\ n.on = t.on /\ n.todo = t.todo /\ n.seen = t.seen /\ n.by = t.by
          /\ t.on \in SUBSET LeadIds /\ t.todo \in SUBSET LeadIds /\ t.edit \in Edit /\ t.seen \in Seen
      <4>1. t \in [pc: {"check", "before", "write", "log"}, by: Users, edit: Edit,
                   on: SUBSET LeadIds, todo: SUBSET LeadIds, seen: Seen]
        BY <1>0, <2>1 DEF Request, New, Done, Seen
      <4> HIDE DEF t
      <4> QED
        BY <4>1
    <3>3. Moves(r)
      BY <2>3, <3>1, WritesMoves
    <3>4. \A l \in LeadIds : Displays(n, new[l])
      <4> SUFFICES ASSUME NEW l \in LeadIds PROVE Displays(n, Update(lead[l], t.seen, t.edit))
        OBVIOUS
      <4>1. lead[l] \in Row
        BY DEF LeadsTypeOK
      <4>2. Displays(t, Update(lead[l], t.seen, t.edit))
        BY <3>2, <4>1, UpdateShows
      <4> HIDE DEF t, n
      <4> QED
        BY <3>2, <4>2 DEF Displays
    <3>5. ASSUME NEW l \in t.todo PROVE r \in reading'[l] /\ (l \notin mixed' => Displays(n, lead'[l]))
      <4>1. l \in LeadIds /\ l \in t.on /\ r \in reading[l]
        BY <1>0, <2>1, <3>2, <3>5 DEF FreshRequest
      <4>2. l \notin mixed' => l \in Targets(t)
        <5>1. l \notin mixed' => l \notin mixed
          BY <3>3 DEF Moves
        <5>2. l \notin mixed /\ t.edit.kind = "bulk" => Visible(t.by, l)
          BY <1>0, <2>1, <3>2, <3>5, <4>1 DEF FreshRequest, Visible, Sees
        <5> QED
          BY <4>1, <5>1, <5>2 DEF Targets
      <4>3. l \notin mixed' => lead'[l] = new[l]
        BY <3>1, <4>1, <4>2 DEF Writes
      <4> QED
        BY <2>3, <3>4, <4>1, <4>3
    <3> HIDE DEF n, t, new
    <3>6. request'[r] = n /\ (n.edit.kind # "bulk" => n.todo = n.on)
      BY <1>0, <2>1, <3>1, <3>2 DEF FreshRequest, t
    <3>7. FreshRequest(r)'
      BY <3>2, <3>5, <3>6 DEF FreshRequest
    <3> QED
      BY <1>0, <3>1, <3>3, <3>7, RequestFresh
  <2> QED
    BY <1>5, <2>2, <2>3 DEF WriteLead
<1>6. ASSUME LogEdit(r) PROVE FreshInv' /\ Moves(r)
  BY <1>6, <1>e DEF LogEdit
<1>7. ASSUME WebDies(r) PROVE FreshInv' /\ Moves(r)
  BY <1>7, <1>e DEF WebDies
<1> QED
  BY <1>1, <1>2, <1>3, <1>4, <1>5, <1>6, <1>7 DEF Edits

LEMMA JobsKeepFresh ==
  ASSUME LeadsInv, AppointmentsTypeOK, FreshInv, NEW j \in Jobs, Routes(j), UNCHANGED apptVars
  PROVE  FreshInv' /\ Moves(j)
<1> DEFINE b == job[j]
<1>0. /\ LeadsTypeOK /\ Ready(b) /\ FreshJob(j) /\ call' = call /\ job \in [Jobs -> Job] /\ Done.pc = "done"
      /\ request' = request
  <2>1. ASSUME NEW l, NEW todo, StartJob(j, l, todo) PROVE request' = request
    BY <2>1 DEF StartJob, JobRest
  <2>2. ASSUME NEW tag, ReadTags(j, tag) \/ WriteTags(j) PROVE request' = request
    BY <2>2 DEF ReadTags, WriteTags, JobRest
  <2>3. LogTags(j) \/ ReadOwner(j) => request' = request
    BY DEF LogTags, ReadOwner, JobRest
  <2>4. ASSUME NEW named, PickAssignee(j, named) PROVE request' = request
    BY <2>4 DEF PickAssignee, JobRest
  <2>5. GiveLead(j) \/ LogOwner(j) => request' = request
    BY DEF GiveLead, LogOwner, JobRest
  <2>6. ASSUME NEW k, NEW v, Persist(j, k, v) PROVE request' = request
    BY <2>6 DEF Persist, JobRest
  <2>7. NotifyAgent(j) \/ NothingSaved(j) => request' = request
    BY DEF NotifyAgent, NothingSaved, JobRest
  <2>8. request' = request
    BY <2>1, <2>2, <2>3, <2>4, <2>5, <2>6, <2>7 DEF Routes
  <2> QED
    BY <2>8 DEF LeadsInv, FreshInv, apptVars, hookVars, LeadsTypeOK, Done
<1>f. ASSUME NEW c, job' = [job EXCEPT ![j] = c], c.pc = "done", Moves(j) PROVE FreshInv'
  <2>1. FreshJob(j)'
    BY <1>0, <1>f DEF FreshJob
  <2> QED
    BY <1>0, <1>f, <2>1, JobFresh
<1>w. b.pc \notin {"new", "done"} => b \in Working
  BY <1>0, JobAtWork
<1>1. ASSUME NEW l \in LeadIds, NEW todo \in SUBSET {"tag", "owner", "notify"}, StartJob(j, l, todo)
      PROVE  FreshInv' /\ Moves(j)
  <2> DEFINE c == [pc |-> "next", on |-> l, owner |-> lead[l].owner, fields |-> lead[l].fields,
                   tags |-> {}, to |-> NULL, todo |-> todo, told |-> {}]
  <2>1. job' = [job EXCEPT ![j] = c] /\ Reads(j, {l}) /\ KeepsRows
    BY <1>1 DEF StartJob
  <2>2. c.pc = "next" /\ c.on = l /\ c.owner = lead[l].owner /\ c.fields = lead[l].fields
    OBVIOUS
  <2> HIDE DEF c
  <2>3. Moves(j) /\ j \in reading'[l] /\ lead' = lead
    BY <2>1, KeepsMoves, ReadersStay DEF KeepsRows
  <2>4. FreshJob(j)'
    BY <1>0, <2>1, <2>2, <2>3 DEF FreshJob
  <2> QED
    BY <1>0, <2>1, <2>3, <2>4, JobFresh
\* A step that reads the row, or nothing: what it knows of it is true.
<1>2. ASSUME KeepsRows, UNCHANGED reading, b.pc \notin {"new", "done"}, NEW c, job' = [job EXCEPT ![j] = c],
             c.on = b.on, c.fields = b.fields, c.pc \notin {"new", "done"},
             b.on \notin mixed =>
                /\ c.pc \in {"next", "tag", "logTag"} => c.owner = lead[b.on].owner
                /\ c.pc = "tag" => c.tags = lead[b.on].tags
                /\ c.pc = "logTag" => lead[b.on].tags = c.tags \cup {c.to}
                /\ c.pc \in {"pick", "give"} => lead[b.on].owner = NULL
                /\ c.pc = "logOwner" => lead[b.on].owner = c.to
      PROVE  FreshInv' /\ Moves(j)
  <2>1. Moves(j) /\ lead' = lead /\ mixed' = mixed /\ reading' = reading
    BY <1>2, KeepsMoves DEF KeepsRows
  <2>2. job'[j] = c
    BY <1>0, <1>2
  <2>3. j \in reading[b.on] /\ (b.on \notin mixed => b.fields = lead[b.on].fields)
    BY <1>0, <1>2 DEF FreshJob
  <2>4. FreshJob(j)'
    BY <1>2, <2>1, <2>2, <2>3 DEF FreshJob
  <2> QED
    BY <1>0, <1>2, <2>1, <2>4, JobFresh
<1>3. ASSUME NEW tag \in Tags, ReadTags(j, tag) PROVE FreshInv' /\ Moves(j)
  <2>1. /\ b.pc = "next" /\ KeepsRows /\ UNCHANGED reading
        /\ job' = [job EXCEPT ![j] = IF tag \in lead[b.on].tags THEN [b EXCEPT !.todo = @ \ {"tag"}]
               ELSE [b EXCEPT !.pc = "tag", !.todo = @ \ {"tag"}, !.to = tag, !.tags = lead[b.on].tags]]
    BY <1>3 DEF ReadTags, JobAt
  <2>2. b.on \notin mixed => b.owner = lead[b.on].owner
    BY <1>0, <2>1 DEF FreshJob
  <2>3. b \in Working
    BY <1>w, <2>1
  <2> DEFINE c == [b EXCEPT !.todo = @ \ {"tag"}]
             d == [b EXCEPT !.pc = "tag", !.todo = @ \ {"tag"}, !.to = tag, !.tags = lead[b.on].tags]
  <2>4. /\ c.pc = "next" /\ c.on = b.on /\ c.fields = b.fields /\ c.owner = b.owner
        /\ d.pc = "tag" /\ d.on = b.on /\ d.fields = b.fields /\ d.owner = b.owner /\ d.tags = lead[b.on].tags
    <3> HIDE DEF b
    <3> QED
      BY <2>1, <2>3 DEF Working
  <2>5. job' = [job EXCEPT ![j] = c] \/ job' = [job EXCEPT ![j] = d]
    BY <2>1
  <2> HIDE DEF c, d
  <2> QED
    BY <1>2, <2>1, <2>2, <2>4, <2>5
<1>4. ASSUME WriteTags(j) PROVE FreshInv' /\ Moves(j)
  <2> DEFINE new == [l \in LeadIds |-> [lead[l] EXCEPT !.tags = b.tags \cup {b.to}]]
             c == [b EXCEPT !.pc = "logTag"]
  <2>1. b.pc = "tag" /\ Writes(j, {b.on}, new) /\ job' = [job EXCEPT ![j] = c] /\ UNCHANGED reading
    BY <1>0, <1>4 DEF WriteTags, JobAt
  <2>2. b \in Working /\ b.on \in LeadIds /\ lead[b.on] \in Row /\ b.tags \cup {b.to} \in SUBSET Tags
    BY <1>0, <1>w, <2>1 DEF Working, LeadsTypeOK, Ready
  <2>3. c.pc = "logTag" /\ c.on = b.on /\ c.fields = b.fields /\ c.owner = b.owner /\ c.tags = b.tags /\ c.to = b.to
    <3> HIDE DEF b
    <3> QED
      BY <2>2 DEF Working
  <2>4. /\ new[b.on].tags = b.tags \cup {b.to} /\ new[b.on].fields = lead[b.on].fields
        /\ new[b.on].owner = lead[b.on].owner
    BY <2>2, SetTags DEF Columns
  <2>5. Moves(j)
    BY <2>1, WritesMoves
  <2>6. lead'[b.on] = new[b.on]
    <3> HIDE DEF new
    <3> QED
      BY <2>1, <2>2 DEF Writes
  <2> HIDE DEF new, c
  <2>7. job'[j] = c /\ (b.on \notin mixed' => b.on \notin mixed)
    BY <1>0, <2>1, <2>5 DEF Moves
  <2>8. FreshJob(j)'
    BY <1>0, <2>1, <2>3, <2>4, <2>6, <2>7 DEF FreshJob
  <2> QED
    BY <1>0, <2>1, <2>5, <2>8, JobFresh
<1>5. ASSUME LogTags(j) PROVE FreshInv' /\ Moves(j)
  <2> DEFINE c == [b EXCEPT !.pc = "next", !.to = NULL, !.tags = {}]
  <2>1. b.pc = "logTag" /\ KeepsRows /\ UNCHANGED reading /\ job' = [job EXCEPT ![j] = c]
    BY <1>5 DEF LogTags, JobAt
  <2>2. c.pc = "next" /\ c.on = b.on /\ c.fields = b.fields /\ c.owner = b.owner
    <3>1. b \in Working
      BY <1>w, <2>1
    <3> HIDE DEF b
    <3> QED
      BY <3>1 DEF Working
  <2>3. b.on \notin mixed => b.owner = lead[b.on].owner
    BY <1>0, <2>1 DEF FreshJob
  <2> HIDE DEF c
  <2> QED
    BY <1>2, <2>1, <2>2, <2>3
<1>6. ASSUME ReadOwner(j) PROVE FreshInv' /\ Moves(j)
  <2> DEFINE c == [b EXCEPT !.todo = @ \ {"owner"}, !.owner = lead[b.on].owner]
             d == [b EXCEPT !.pc = "pick", !.todo = @ \ {"owner"}]
  <2>1. b.pc = "next" /\ KeepsRows /\ UNCHANGED reading /\ job' = [job EXCEPT ![j] = IF Owned(b) THEN c ELSE d]
    BY <1>6 DEF ReadOwner, JobAt
  <2>2. /\ c.pc = "next" /\ c.on = b.on /\ c.fields = b.fields /\ c.owner = lead[b.on].owner
        /\ d.pc = "pick" /\ d.on = b.on /\ d.fields = b.fields
    <3>1. b \in Working
      BY <1>w, <2>1
    <3> HIDE DEF b
    <3> QED
      BY <2>1, <3>1 DEF Working
  <2>3. ~Owned(b) => lead[b.on].owner = NULL
    BY DEF Owned
  <2> HIDE DEF c, d
  <2>4. CASE job' = [job EXCEPT ![j] = c]
    BY <1>2, <2>1, <2>2, <2>4
  <2>5. CASE ~Owned(b) /\ job' = [job EXCEPT ![j] = d]
    BY <1>2, <2>1, <2>2, <2>3, <2>5
  <2> QED
    BY <2>1, <2>4, <2>5
<1>7. ASSUME NEW named, PickAssignee(j, named) PROVE FreshInv' /\ Moves(j)
  <2>1. PICK u \in members : job' = [job EXCEPT ![j].pc = "give", ![j].to = u]
    BY <1>7 DEF PickAssignee
  <2>2. b.pc = "pick" /\ KeepsRows /\ UNCHANGED reading
    BY <1>7 DEF PickAssignee, JobAt
  <2> DEFINE c == [b EXCEPT !.pc = "give", !.to = u]
  <2>3. job' = [job EXCEPT ![j] = c]
    BY <1>0, <2>1
  <2>4. c.pc = "give" /\ c.on = b.on /\ c.fields = b.fields
    <3>1. b \in Working
      BY <1>w, <2>2
    <3> HIDE DEF b
    <3> QED
      BY <3>1 DEF Working
  <2>5. b.on \notin mixed => lead[b.on].owner = NULL
    BY <1>0, <2>2 DEF FreshJob
  <2> HIDE DEF c
  <2> QED
    BY <1>2, <2>2, <2>3, <2>4, <2>5
<1>8. ASSUME GiveLead(j) PROVE FreshInv' /\ Moves(j)
  <2>1. b.pc = "give"
    BY <1>8 DEF GiveLead, JobAt
  <2>2. CASE Finishes(j) /\ KeepsRows
    <3>1. Moves(j)
      BY <2>2, KeepsMoves DEF Finishes
    <3> QED
      BY <1>0, <1>f, <2>2, <3>1 DEF Finishes
  <2>3. CASE /\ Writes(j, {b.on}, [l \in LeadIds |-> [lead[l] EXCEPT !.owner = b.to]])
             /\ job' = [job EXCEPT ![j].pc = "logOwner"] /\ UNCHANGED reading
    <3> DEFINE new == [l \in LeadIds |-> [lead[l] EXCEPT !.owner = b.to]]
               c == [b EXCEPT !.pc = "logOwner"]
    <3>1. Writes(j, {b.on}, new) /\ job' = [job EXCEPT ![j] = c]
      BY <1>0, <2>3
    <3>2. b \in Working /\ b.on \in LeadIds /\ lead[b.on] \in Row
      BY <1>0, <1>w, <2>1 DEF Working, LeadsTypeOK
    <3>3. c.pc = "logOwner" /\ c.on = b.on /\ c.fields = b.fields /\ c.to = b.to
      <4> HIDE DEF b
      <4> QED
        BY <3>2 DEF Working
    <3>4. new[b.on].owner = b.to /\ new[b.on].fields = lead[b.on].fields
      BY <3>2 DEF Row
    <3>5. Moves(j)
      BY <2>3, <3>1, WritesMoves
    <3>6. lead'[b.on] = new[b.on]
      <4> HIDE DEF new
      <4> QED
        BY <3>1, <3>2 DEF Writes
    <3> HIDE DEF new, c
    <3>7. job'[j] = c /\ (b.on \notin mixed' => b.on \notin mixed)
      BY <1>0, <3>1, <3>5 DEF Moves
    <3>8. FreshJob(j)'
      BY <1>0, <2>1, <2>3, <3>3, <3>4, <3>6, <3>7 DEF FreshJob
    <3> QED
      BY <1>0, <3>1, <3>5, <3>8, JobFresh
  <2> QED
    BY <1>8, <2>2, <2>3 DEF GiveLead
<1>9. ASSUME LogOwner(j) PROVE FreshInv' /\ Moves(j)
  <2> DEFINE c == [b EXCEPT !.pc = "next", !.to = NULL, !.owner = Remembered(b)]
  <2>1. b.pc = "logOwner" /\ KeepsRows /\ UNCHANGED reading /\ job' = [job EXCEPT ![j] = c]
    BY <1>9 DEF LogOwner, JobAt
  <2>2. c.pc = "next" /\ c.on = b.on /\ c.fields = b.fields /\ c.owner = b.to
    <3>1. b \in Working
      BY <1>w, <2>1
    <3> HIDE DEF b
    <3> QED
      BY <3>1 DEF Working, Remembered
  <2>3. b.on \notin mixed => lead[b.on].owner = b.to
    BY <1>0, <2>1 DEF FreshJob
  <2> HIDE DEF c
  <2> QED
    BY <1>2, <2>1, <2>2, <2>3
<1>10. ASSUME NotifyAgent(j) PROVE FreshInv' /\ Moves(j)
  <2> DEFINE c == [b EXCEPT !.todo = @ \ {"notify"}, !.told = Recipients(b.owner)]
  <2>1. b.pc = "next" /\ KeepsRows /\ UNCHANGED reading /\ job' = [job EXCEPT ![j] = c]
    BY <1>0, <1>10 DEF NotifyAgent, JobAt
  <2>2. c.pc = "next" /\ c.on = b.on /\ c.fields = b.fields /\ c.owner = b.owner
    <3>1. b \in Working
      BY <1>w, <2>1
    <3> HIDE DEF b
    <3> QED
      BY <2>1, <3>1 DEF Working
  <2>3. b.on \notin mixed => b.owner = lead[b.on].owner
    BY <1>0, <2>1 DEF FreshJob
  <2> HIDE DEF c
  <2> QED
    BY <1>2, <2>1, <2>2, <2>3
<1>11. ASSUME NEW k, NEW v, Persist(j, k, v) PROVE FreshInv' /\ Moves(j)
  <2>1. PICK new : Writes(j, {b.on}, new) /\ Finishes(j)
    BY <1>11 DEF Persist
  <2>2. Moves(j)
    BY <2>1, WritesMoves DEF Finishes
  <2> QED
    BY <1>0, <1>f, <2>1, <2>2 DEF Finishes
<1>12. ASSUME NothingSaved(j) PROVE FreshInv' /\ Moves(j)
  <2>1. Moves(j)
    BY <1>12, KeepsMoves DEF NothingSaved, Finishes
  <2> QED
    BY <1>0, <1>f, <1>12, <2>1 DEF NothingSaved, Finishes
<1> QED
  BY <1>1, <1>3, <1>4, <1>5, <1>6, <1>7, <1>8, <1>9, <1>10, <1>11, <1>12 DEF Routes

\* What of the leads a call of Cal.com leaves alone.
LEMMA CallsKeepTasks ==
  ASSUME NEW d, \/ \E u \in Uids : MatchBooker(d, u)
                \/ RecordBooking(d) \/ ConfirmBooking(d) \/ HookDies(d)
  PROVE  request' = request /\ job' = job /\ UNCHANGED <<members, products, unlogged>>
<1>1. ASSUME NEW u, MatchBooker(d, u)
      PROVE  request' = request /\ job' = job /\ UNCHANGED <<members, products, unlogged>>
  BY <1>1 DEF MatchBooker, teamVars, botVars
<1>2. ASSUME RecordBooking(d) PROVE request' = request /\ job' = job /\ UNCHANGED <<members, products, unlogged>>
  BY <1>2 DEF RecordBooking, teamVars, botVars
<1>3. ASSUME ConfirmBooking(d) PROVE request' = request /\ job' = job /\ UNCHANGED <<members, products, unlogged>>
  BY <1>3 DEF ConfirmBooking, leadsVars, rowVars, teamVars, botVars
<1>4. ASSUME HookDies(d) PROVE request' = request /\ job' = job /\ UNCHANGED <<members, products, unlogged>>
  BY <1>4 DEF HookDies, teamVars, botVars
<1> QED
  BY <1>1, <1>2, <1>3, <1>4

LEMMA CallsKeepFresh ==
  ASSUME LeadsTypeOK, AppointmentsTypeOK, FreshInv, NEW d \in Calls,
         \/ \E u \in Uids : MatchBooker(d, u)
         \/ RecordBooking(d) \/ ConfirmBooking(d) \/ HookDies(d)
  PROVE  FreshInv' /\ Moves(d)
<1>0. /\ call \in [Calls -> Call] /\ FreshCall(d) /\ New.pc = "new" /\ Done.pc = "done"
      /\ request' = request /\ job' = job
  BY CallsKeepTasks DEF FreshInv, AppointmentsTypeOK, New, Done
\* A call that has not matched its booker, or is past it.
<1>1. ASSUME NEW c, c.pc # "record", call' = [call EXCEPT ![d] = c], Moves(d) PROVE FreshInv'
  <2>1. FreshCall(d)'
    BY <1>0, <1>1 DEF FreshCall
  <2> QED
    BY <1>0, <1>1, <2>1, CallFresh
<1>2. ASSUME NEW u \in Uids, MatchBooker(d, u) PROVE FreshInv' /\ Moves(d)
  <2>1. PICK l \in LeadIds, sure \in BOOLEAN :
           /\ call' = [call EXCEPT ![d] = [pc |-> "record", uid |-> u, lead |-> l, sure |-> sure,
                                           advance |-> lead[l].status \in Open]]
           /\ Reads(d, {l})
    BY <1>2 DEF MatchBooker
  <2> DEFINE c == [pc |-> "record", uid |-> u, lead |-> l, sure |-> sure, advance |-> lead[l].status \in Open]
  <2>2. call' = [call EXCEPT ![d] = c] /\ c.lead = l /\ (c.advance => lead[l].status \in Open)
    BY <2>1
  <2> HIDE DEF c
  <2>3. Moves(d) /\ d \in reading'[l] /\ lead' = lead
    BY <1>2, <2>1, KeepsMoves, ReadersStay DEF MatchBooker, KeepsRows
  <2>4. FreshCall(d)'
    BY <1>0, <2>2, <2>3 DEF FreshCall
  <2> QED
    BY <1>0, <2>2, <2>3, <2>4, CallFresh
<1>3. ASSUME RecordBooking(d) PROVE FreshInv' /\ Moves(d)
  <2>1. Moves(d)
    <3>1. (\E ls, new : Writes(d, ls, new)) \/ KeepsRows
      BY <1>3 DEF RecordBooking
    <3>2. Leaves(d)
      BY <1>3 DEF RecordBooking
    <3> QED
      BY <3>1, <3>2, WritesMoves, KeepsMoves
  <2>2. call' = [call EXCEPT ![d] = Done] \/ call' = [call EXCEPT ![d] = [call[d] EXCEPT !.pc = "confirm"]]
    BY <1>0, <1>3 DEF RecordBooking, Hangs
  <2>3. [call[d] EXCEPT !.pc = "confirm"].pc = "confirm"
    <3>1. call[d] \in Calling
      BY <1>3, CallAtWork DEF RecordBooking
    <3> QED
      BY <3>1 DEF Calling
  <2>4. CASE call' = [call EXCEPT ![d] = Done]
    BY <1>0, <1>1, <2>1, <2>4
  <2>5. ASSUME NEW c, c.pc = "confirm", call' = [call EXCEPT ![d] = c] PROVE FreshInv'
    BY <1>1, <2>1, <2>5
  <2> QED
    BY <2>1, <2>2, <2>3, <2>4, <2>5
<1>4. ASSUME ConfirmBooking(d) PROVE FreshInv' /\ Moves(d)
  <2>1. KeepsRows /\ reading' = reading
    BY <1>4 DEF ConfirmBooking, leadsVars, rowVars, KeepsRows
  <2>2. call' = [call EXCEPT ![d] = Done]
    BY <1>4 DEF ConfirmBooking, Hangs
  <2>3. Moves(d)
    BY <2>1, KeepsMoves
  <2> QED
    BY <1>0, <1>1, <2>2, <2>3
<1>5. ASSUME HookDies(d) PROVE FreshInv' /\ Moves(d)
  <2>1. KeepsRows /\ Leaves(d) /\ call' = [call EXCEPT ![d] = New]
    BY <1>5 DEF HookDies
  <2>2. Moves(d)
    BY <2>1, KeepsMoves
  <2> QED
    BY <1>0, <1>1, <2>1, <2>2
<1> QED
  BY <1>2, <1>3, <1>4, <1>5

\* Neither the bot's menus nor what happens at Cal.com touches a lead.
LEMMA MeetingsAlone ==
  ASSUME \/ BotNext
         \/ \E u \in Uids : \/ \E l \in LeadIds, t \in Times, known \in BOOLEAN : BookAtCalcom(u, l, t, known)
                            \/ (\E t \in Times : MoveAtCalcom(u, t)) \/ CancelAtCalcom(u)
                            \/ (\E k \in DOMAIN booking[u] : ReceiveChange(u, k)) \/ MatchNobody(u)
  PROVE  UNCHANGED <<rowVars, request, job, members, products, call>>
<1>1. ASSUME NEW o, NEW l, ReadSlots(o, l) \/ SendMenu(o)
      PROVE  UNCHANGED <<rowVars, request, job, members, products, call>>
  BY <1>1 DEF ReadSlots, SendMenu, leadsVars, teamVars, botVars, hookVars
<1>2. ASSUME NEW x, NEW l, NEW s, ReadPick(x, l, s) PROVE UNCHANGED <<rowVars, request, job, members, products, call>>
  BY <1>2 DEF ReadPick, leadsVars, teamVars, botVars, hookVars
<1>3. ASSUME NEW x, BookSlot(x) PROVE UNCHANGED <<rowVars, request, job, members, products, call>>
  BY <1>3 DEF BookSlot, leadsVars, teamVars, botVars, hookVars
<1>4. ASSUME NEW x, ScheduleReminders(x) PROVE UNCHANGED <<rowVars, request, job, members, products, call>>
  BY <1>4 DEF ScheduleReminders, leadsVars, teamVars, botVars, hookVars
<1>5. ASSUME NEW x, ResumeFlow(x) \/ FireReminder(x) PROVE UNCHANGED <<rowVars, request, job, members, products, call>>
  BY <1>5 DEF ResumeFlow, FireReminder, leadsVars, teamVars, botVars, hookVars
<1>6. ASSUME NEW x, RerunReply(x) PROVE UNCHANGED <<rowVars, request, job, members, products, call>>
  BY <1>6 DEF RerunReply, leadsVars, teamVars, botVars, hookVars
<1>7. BotNext => UNCHANGED <<rowVars, request, job, members, products, call>>
  BY <1>1, <1>2, <1>3, <1>4, <1>5, <1>6 DEF BotNext
<1>8. AtCalcom => UNCHANGED <<rowVars, request, job, members, products, call>>
  BY DEF AtCalcom, leadsVars, teamVars, botVars
<1>9. ASSUME NEW u, \/ \E l \in LeadIds, t \in Times, known \in BOOLEAN : BookAtCalcom(u, l, t, known)
                    \/ (\E t \in Times : MoveAtCalcom(u, t)) \/ CancelAtCalcom(u)
      PROVE  UNCHANGED <<rowVars, request, job, members, products, call>>
  <2>1. ASSUME NEW l, NEW t, NEW known, BookAtCalcom(u, l, t, known) PROVE AtCalcom
    BY <2>1 DEF BookAtCalcom
  <2>2. ASSUME NEW t, MoveAtCalcom(u, t) PROVE AtCalcom
    BY <2>2 DEF MoveAtCalcom
  <2>3. ASSUME CancelAtCalcom(u) PROVE AtCalcom
    BY <2>3 DEF CancelAtCalcom
  <2> QED
    BY <1>8, <1>9, <2>1, <2>2, <2>3
<1>10. ASSUME NEW u, NEW k, ReceiveChange(u, k) PROVE UNCHANGED <<rowVars, request, job, members, products, call>>
  BY <1>10 DEF ReceiveChange, leadsVars, teamVars, botVars
<1>11. ASSUME NEW u, MatchNobody(u) PROVE UNCHANGED <<rowVars, request, job, members, products, call>>
  BY <1>11 DEF MatchNobody, leadsVars, teamVars, botVars
<1> QED
  BY <1>7, <1>9, <1>10, <1>11

LEMMA StillFresh ==
  ASSUME FreshInv, UNCHANGED <<rowVars, request, job, call>>
  PROVE  FreshInv'
<1>1. lead' = lead /\ reading' = reading /\ mixed' = mixed /\ request' = request /\ job' = job /\ call' = call
  BY DEF rowVars
<1>2. \A r \in Requests : FreshRequest(r)'
  BY <1>1 DEF FreshInv, FreshRequest
<1>3. \A j \in Jobs : FreshJob(j)'
  BY <1>1 DEF FreshInv, FreshJob
<1>4. \A d \in Calls : FreshCall(d)'
  BY <1>1 DEF FreshInv, FreshCall
<1> QED
  BY <1>2, <1>3, <1>4 DEF FreshInv

LEMMA InitFresh == Init => FreshInv
BY DEF Init, LeadsInit, AppointmentsInit, FreshInv, FreshRequest, FreshJob, FreshCall, New

LEMMA NextFresh ==
  ASSUME CrmInv, FreshInv, [Next]_vars
  PROVE  FreshInv'
<1>0. LeadsInv /\ LeadsTypeOK /\ AppointmentsTypeOK
  BY DEF CrmInv, LeadsInv, MeetingsInv
<1>1. ASSUME LeadsNext, UNCHANGED apptVars PROVE FreshInv'
  <2>1. ASSUME NEW u \in Users, NEW n, DeleteNote(u, n) PROVE FreshInv'
    <3>1. UNCHANGED <<rowVars, request, job, call>>
      BY <1>1, <2>1 DEF DeleteNote, RequestRest, botVars, apptVars, hookVars
    <3> QED
      BY <3>1, StillFresh
  <2>2. ASSUME NEW v, RemoveMember(v) \/ DeleteProduct(v) PROVE FreshInv'
    <3>1. /\ reading' = reading /\ request' = request /\ job' = job /\ call' = call
          /\ \E ls, new : Writes(NULL, ls, new)
      BY <1>1, <2>2 DEF RemoveMember, DeleteProduct, Detach, RequestRest, botVars, apptVars, hookVars
    <3>2. Moves(NULL)
      BY <3>1, WritesMoves
    <3> QED
      BY <1>0, <3>1, <3>2, NobodyFresh
  <2> QED
    BY <1>0, <1>1, <2>1, <2>2, EditsKeepFresh, JobsKeepFresh DEF LeadsNext
<1>2. ASSUME FollowUpsNext, UNCHANGED apptVars PROVE FreshInv'
  <2>1. ChaseRest
    BY <1>2 DEF FollowUpsNext, Answer, TimePasses, Chases, StartSweep, Nudge, CountNudge, EndSweep, WorkerDies
  <2>2. UNCHANGED <<rowVars, request, job, call>>
    BY <1>2, <2>1 DEF ChaseRest, botVars, apptVars, hookVars
  <2> QED
    BY <2>2, StillFresh
<1>3. ASSUME BotNext \/ CalcomNext PROVE FreshInv'
  <2>1. \/ UNCHANGED <<rowVars, request, job, call>>
        \/ \E d \in Calls : \/ \E u \in Uids : MatchBooker(d, u)
                            \/ RecordBooking(d) \/ ConfirmBooking(d) \/ HookDies(d)
    BY <1>3, MeetingsAlone DEF CalcomNext
  <2> QED
    BY <1>0, <2>1, StillFresh, CallsKeepFresh
<1>4. ASSUME UNCHANGED vars PROVE FreshInv'
  <2>1. UNCHANGED <<rowVars, request, job, call>>
    BY <1>4 DEF vars, leadsVars, botVars, apptVars, hookVars
  <2> QED
    BY <2>1, StillFresh
<1> QED
  BY <1>1, <1>2, <1>3, <1>4 DEF Next

-------------------------------------------------------------------------------
(* One thing at a time *)

\* What EditsAlone says of one lead.
Alone(l) ==
  /\ Cardinality(Changes(lead[l], lead'[l])) <= 1
  /\ (job' # job => lead[l].owner \in {NULL, lead'[l].owner})
  /\ (request' = request => lead[l].status \in Open \cup {lead'[l].status})

LEMMA OneChange ==
  ASSUME NEW a, NEW b, NEW x, Changes(a, b) \subseteq {x}
  PROVE  Cardinality(Changes(a, b)) <= 1
<1>1. CASE Changes(a, b) = {}
  <2>1. Cardinality(Changes(a, b)) = 0
    BY <1>1, FS_EmptySet
  <2> QED
    BY <2>1
<1>2. CASE Changes(a, b) = {x}
  <2>1. Cardinality(Changes(a, b)) = 1
    BY <1>2, FS_Singleton
  <2> QED
    BY <2>1
<1> QED
  BY <1>1, <1>2

LEMMA Untouched ==
  ASSUME NEW l, lead'[l] = lead[l]
  PROVE  Alone(l)
<1>1. Changes(lead[l], lead'[l]) = {}
  BY DEF Changes
<1> QED
  BY <1>1, FS_EmptySet DEF Alone

\* One column, the tags or the answers of a row are replaced.
Put(row, c, v) == [row EXCEPT ![c] = v]
PutTags(row, tags) == [row EXCEPT !.tags = tags]
PutFields(row, fields) == [row EXCEPT !.fields = fields]

LEMMA ColumnChanges ==
  ASSUME NEW row \in Row, NEW c \in Columns, NEW v \in Ranges[c]
  PROVE  Changes(row, Put(row, c, v)) \subseteq {c}
<1> DEFINE new == Put(row, c, v)
<1>1. new.tags = row.tags /\ new.fields = row.fields
  <2>1. CASE c = "status"
    BY <2>1 DEF Put, Row
  <2>2. CASE c = "owner"
    BY <2>2 DEF Put, Row
  <2>3. CASE c = "product"
    BY <2>3 DEF Put, Row
  <2>4. CASE c = "summary"
    BY <2>4 DEF Put, Row
  <2> QED
    BY <2>1, <2>2, <2>3, <2>4 DEF Columns
<1>2. ASSUME NEW d \in Columns, d # c PROVE new[d] = row[d]
  <2>1. CASE c = "status"
    BY <1>2, <2>1 DEF Put, Row, Columns
  <2>2. CASE c = "owner"
    BY <1>2, <2>2 DEF Put, Row, Columns
  <2>3. CASE c = "product"
    BY <1>2, <2>3 DEF Put, Row, Columns
  <2>4. CASE c = "summary"
    BY <1>2, <2>4 DEF Put, Row, Columns
  <2> QED
    BY <2>1, <2>2, <2>3, <2>4 DEF Columns
<1> HIDE DEF new
<1>3. Changes(row, new) \subseteq {c}
  BY <1>1, <1>2 DEF Changes
<1> QED
  BY <1>3 DEF new

LEMMA TagChanges ==
  ASSUME NEW row \in Row, NEW tags \in SUBSET Tags, NEW x, \A i : i # x => (i \in tags) = (i \in row.tags)
  PROVE  Changes(row, PutTags(row, tags)) \subseteq {x}
<1> DEFINE new == PutTags(row, tags)
<1>1. new.tags = tags /\ new.fields = row.fields
  BY SetTags DEF PutTags
<1>2. ASSUME NEW d \in Columns PROVE new[d] = row[d]
  BY SetTags DEF PutTags
<1> HIDE DEF new
<1>3. Changes(row, new) \subseteq {x}
  BY <1>1, <1>2 DEF Changes
<1> QED
  BY <1>3 DEF new

LEMMA FieldChanges ==
  ASSUME NEW row \in Row, NEW fields \in [Keys -> Answers \cup {NULL}], NEW k,
         \A i \in Keys : i # k => fields[i] = row.fields[i]
  PROVE  Changes(row, PutFields(row, fields)) \subseteq {k}
<1> DEFINE new == PutFields(row, fields)
<1>1. new.tags = row.tags /\ new.fields = fields
  BY SetFields DEF PutFields
<1>2. ASSUME NEW d \in Columns PROVE new[d] = row[d]
  BY SetFields DEF PutFields
<1> HIDE DEF new
<1>3. Changes(row, new) \subseteq {k}
  BY <1>1, <1>2 DEF Changes
<1> QED
  BY <1>3 DEF new

LEMMA UpdateChanges ==
  ASSUME NEW row \in Row, NEW seen \in Seen, NEW e \in Edit, e.kind # "bulk" => seen = Whole(row, e)
  PROVE  Changes(row, Update(row, seen, e)) \subseteq {e.col}
<1>1. CASE e.kind \in {"set", "bulk"} /\ e.col \in Columns /\ e.to \in Ranges[e.col]
  <2>1. Update(row, seen, e) = Put(row, e.col, e.to)
    BY <1>1 DEF Update, Put
  <2> QED
    BY <1>1, <2>1, ColumnChanges
<1>2. CASE e.kind \in {"tag", "untag"} /\ e.col \in Tags
  <2> DEFINE tags == IF e.kind = "tag" THEN row.tags \cup {e.col} ELSE row.tags \ {e.col}
  <2>1. seen.tags = row.tags
    BY <1>2 DEF Whole
  <2>2. Update(row, seen, e) = PutTags(row, tags)
    BY <1>2, <2>1 DEF Update, PutTags
  <2>3. tags \in SUBSET Tags /\ \A i : i # e.col => (i \in tags) = (i \in row.tags)
    BY <1>2 DEF Row
  <2> HIDE DEF tags
  <2> QED
    BY <2>2, <2>3, TagChanges
<1>3. CASE e.kind = "field" /\ e.col \in Keys /\ e.to \in Answers \cup {NULL}
  <2> DEFINE fields == [row.fields EXCEPT ![e.col] = e.to]
  <2>1. seen.fields = row.fields
    BY <1>3 DEF Whole
  <2>2. Update(row, seen, e) = PutFields(row, fields)
    BY <1>3, <2>1 DEF Update, PutFields
  <2>3. fields \in [Keys -> Answers \cup {NULL}] /\ \A i \in Keys : i # e.col => fields[i] = row.fields[i]
    BY <1>3 DEF Row
  <2> HIDE DEF fields
  <2> QED
    BY <2>2, <2>3, FieldChanges
<1>4. CASE e.kind = "note"
  BY <1>4 DEF Update, Changes
<1> QED
  BY <1>1, <1>2, <1>3, <1>4, EditKinds

\* Every step that writes lead rows leaves those that are not mixed alone, but for
\* one thing.
LEMMA EditsAreAlone ==
  ASSUME LeadsInv, AppointmentsTypeOK, FreshInv, NEW r \in Requests, Edits(r), UNCHANGED apptVars,
         NEW l \in LeadIds \ mixed'
  PROVE  Alone(l)
<1> DEFINE t == request[r]
<1>0. LeadsTypeOK /\ Moves(r) /\ FreshRequest(r) /\ lead[l] \in Row
  <2>1. LeadsTypeOK
    BY DEF LeadsInv
  <2>2. Moves(r)
    BY <2>1, EditsKeepFresh
  <2> QED
    BY <2>1, <2>2 DEF FreshInv, LeadsTypeOK
<1>1. CASE lead'[l] = lead[l]
  BY <1>1, Untouched
<1>2. CASE lead'[l] # lead[l]
  <2>1. ASSUME KeepsRows PROVE FALSE
    BY <1>2, <2>1 DEF KeepsRows
  <2>2. WriteLead(r)
    <3>1. ASSUME NEW u, NEW e, NEW k, OpenLead(r, u, k, e) \/ OpenBulk(r, u, k, e) PROVE FALSE
      BY <2>1, <3>1 DEF OpenLead, OpenBulk
    <3>2. CheckTarget(r) \/ BulkBefore(r) => KeepsRows
      BY DEF CheckTarget, BulkBefore
    <3>3. LogEdit(r) \/ WebDies(r) => KeepsRows
      BY DEF LogEdit, WebDies
    <3> QED
      BY <2>1, <3>1, <3>2, <3>3 DEF Edits
  <2>3. t.pc = "write" /\ job' = job
    BY <2>2 DEF WriteLead, At, RequestRest, botVars
  <2>4. /\ Writes(r, Targets(t), [k \in LeadIds |-> Update(lead[k], t.seen, t.edit)])
        /\ request' = [request EXCEPT ![r].pc = "log"]
    BY <2>1, <2>2 DEF WriteLead
  <2>5. request' # request
    <3>1. t \in [pc: {"check", "before", "write", "log"}, by: Users, edit: Edit,
                 on: SUBSET LeadIds, todo: SUBSET LeadIds, seen: Seen] /\ request \in [Requests -> Request]
      BY <1>0, <2>3 DEF LeadsTypeOK, Request, New, Done, Seen
    <3>2. [t EXCEPT !.pc = "log"].pc = "log"
      BY <3>1
    <3>3. request'[r].pc = "log"
      BY <2>4, <3>1, <3>2
    <3> QED
      BY <2>3, <3>3
  <2>6. l \in Targets(t) /\ lead'[l] = Update(lead[l], t.seen, t.edit)
    BY <1>2, <2>4 DEF Writes
  <2>7. t.edit \in Edit /\ t.seen \in Seen
    BY <1>0, <2>3, AtWork
  <2>8. t.edit.kind # "bulk" => t.seen = Whole(lead[l], t.edit)
    <3>1. l \notin mixed
      BY <1>0 DEF Moves
    <3> QED
      BY <1>0, <2>3, <2>6, <3>1 DEF FreshRequest, Targets
  <2>9. Changes(lead[l], lead'[l]) \subseteq {t.edit.col}
    BY <1>0, <2>6, <2>7, <2>8, UpdateChanges
  <2> QED
    BY <2>3, <2>5, <2>9, OneChange DEF Alone
<1> QED
  BY <1>1, <1>2

\* The columns that tell the bot's writes from people's.
LEMMA SameOwnerAndStatus ==
  ASSUME NEW l, NEW x, Changes(lead[l], lead'[l]) \subseteq {x}, lead'[l].owner = lead[l].owner,
         lead'[l].status = lead[l].status
  PROVE  Alone(l)
BY OneChange DEF Alone

LEMMA RoutesAreAlone ==
  ASSUME LeadsInv, AppointmentsTypeOK, FreshInv, NEW j \in Jobs, Routes(j), UNCHANGED apptVars,
         NEW l \in LeadIds \ mixed'
  PROVE  Alone(l)
<1> DEFINE b == job[j]
<1>0. LeadsTypeOK /\ Moves(j) /\ FreshJob(j) /\ lead[l] \in Row /\ l \notin mixed /\ Ready(b)
  <2>1. LeadsTypeOK
    BY DEF LeadsInv
  <2>2. Moves(j)
    BY JobsKeepFresh
  <2> QED
    BY <2>1, <2>2 DEF FreshInv, LeadsTypeOK, Moves, LeadsInv
<1>1. CASE lead'[l] = lead[l]
  BY <1>1, Untouched
<1>2. CASE lead'[l] # lead[l]
  <2>1. ASSUME KeepsRows PROVE FALSE
    BY <1>2, <2>1 DEF KeepsRows
  <2>w. b.pc \notin {"new", "done"} => b \in Working
    BY <1>0, JobAtWork
  <2>2. ASSUME WriteTags(j) PROVE Alone(l)
    <3>1. /\ b.pc = "tag" /\ Writes(j, {b.on}, [k \in LeadIds |-> [lead[k] EXCEPT !.tags = b.tags \cup {b.to}]])
      BY <2>2 DEF WriteTags, JobAt
    <3>2. l = b.on /\ lead'[l] = [lead[l] EXCEPT !.tags = b.tags \cup {b.to}]
      BY <1>2, <3>1 DEF Writes
    <3>3. b.tags = lead[l].tags /\ b.tags \cup {b.to} \in SUBSET Tags
      BY <1>0, <2>w, <3>1, <3>2 DEF FreshJob, Ready, Working
    <3>4. Changes(lead[l], lead'[l]) \subseteq {b.to}
      <4> DEFINE tags == b.tags \cup {b.to}
      <4>1. tags \in SUBSET Tags /\ \A i : i # b.to => (i \in tags) = (i \in lead[l].tags)
        BY <3>3
      <4>2. lead'[l] = PutTags(lead[l], tags)
        BY <3>2 DEF PutTags
      <4>3. lead[l] \in Row
        BY <1>0
      <4> HIDE DEF tags, b
      <4>4. Changes(lead[l], PutTags(lead[l], tags)) \subseteq {b.to}
        BY <4>1, <4>3, TagChanges
      <4> QED
        BY <4>2, <4>4
    <3>5. lead'[l].owner = lead[l].owner /\ lead'[l].status = lead[l].status
      BY <1>0, <3>2, <3>3, SetTags DEF Columns
    <3> QED
      BY <3>4, <3>5, SameOwnerAndStatus
  <2>3. ASSUME GiveLead(j) PROVE Alone(l)
    <3>1. b.pc = "give" /\ Writes(j, {b.on}, [k \in LeadIds |-> [lead[k] EXCEPT !.owner = b.to]])
      BY <2>1, <2>3 DEF GiveLead, JobAt
    <3>2. l = b.on /\ lead'[l] = [lead[l] EXCEPT !.owner = b.to]
      BY <1>2, <3>1 DEF Writes
    <3>3. lead[l].owner = NULL /\ b.to \in Ranges["owner"] /\ "owner" \in Columns
      BY <1>0, <3>1, <3>2 DEF FreshJob, Ready, Ranges, Columns
    <3>4. lead'[l] = Put(lead[l], "owner", b.to)
      BY <3>2 DEF Put
    <3>5. Changes(lead[l], lead'[l]) \subseteq {"owner"}
      BY <1>0, <3>3, <3>4, ColumnChanges
    <3>6. lead'[l].status = lead[l].status
      BY <1>0, <3>2 DEF Row
    <3> QED
      BY <3>3, <3>5, <3>6, OneChange DEF Alone
  <2>4. ASSUME NEW f \in Finds, Persist(j, f[1], f[2]) PROVE Alone(l)
    <3>1. /\ b.pc = "next"
          /\ Writes(j, {b.on}, [k \in LeadIds |-> [lead[k] EXCEPT !.fields = [b.fields EXCEPT ![f[1]] = f[2]]]])
      BY <2>4 DEF Persist, JobAt
    <3>2. l = b.on /\ lead'[l] = [lead[l] EXCEPT !.fields = [b.fields EXCEPT ![f[1]] = f[2]]]
      BY <1>2, <3>1 DEF Writes
    <3>3. b.fields = lead[l].fields /\ f[1] \in Keys /\ f[2] \in Answers \cup {NULL}
      BY <1>0, <3>1, <3>2, LeadsAssumption DEF FreshJob
    <3> DEFINE fields == [b.fields EXCEPT ![f[1]] = f[2]]
    <3>5. /\ fields \in [Keys -> Answers \cup {NULL}]
          /\ \A i \in Keys : i # f[1] => fields[i] = lead[l].fields[i]
      BY <1>0, <3>3 DEF Row
    <3>4. Changes(lead[l], lead'[l]) \subseteq {f[1]}
      <4>1. lead'[l] = PutFields(lead[l], fields)
        BY <3>2 DEF PutFields
      <4> HIDE DEF fields
      <4> QED
        BY <1>0, <3>5, <4>1, FieldChanges
    <3>6. lead'[l].owner = lead[l].owner /\ lead'[l].status = lead[l].status
      BY <1>0, <3>2, <3>5, SetFields DEF Columns
    <3> QED
      BY <3>4, <3>6, SameOwnerAndStatus
  <2>5. ASSUME NEW k, NEW todo, StartJob(j, k, todo) PROVE FALSE
    BY <2>1, <2>5 DEF StartJob
  <2>6. ASSUME NEW tag, ReadTags(j, tag) PROVE FALSE
    BY <2>1, <2>6 DEF ReadTags
  <2>7. LogTags(j) \/ ReadOwner(j) => KeepsRows
    BY DEF LogTags, ReadOwner
  <2>8. ASSUME NEW named, PickAssignee(j, named) PROVE FALSE
    BY <2>1, <2>8 DEF PickAssignee
  <2>9. LogOwner(j) \/ NotifyAgent(j) \/ NothingSaved(j) => KeepsRows
    BY DEF LogOwner, NotifyAgent, NothingSaved
  <2> QED
    BY <2>1, <2>2, <2>3, <2>4, <2>5, <2>6, <2>7, <2>8, <2>9 DEF Routes
<1> QED
  BY <1>1, <1>2

LEMMA DetachIsAlone ==
  ASSUME LeadsTypeOK, NEW c \in {"owner", "product"}, NEW v, Detach(c, v), job' = job, NEW l \in LeadIds
  PROVE  Alone(l)
<1>1. CASE lead'[l] = lead[l]
  BY <1>1, Untouched
<1>2. CASE lead'[l] # lead[l]
  <2>1. lead'[l] = Put(lead[l], c, NULL)
    BY <1>2 DEF Detach, Writes, Put
  <2>2. lead[l] \in Row /\ c \in Columns /\ NULL \in Ranges[c]
    BY DEF LeadsTypeOK, Columns, Ranges
  <2>3. Changes(lead[l], lead'[l]) \subseteq {c}
    BY <2>1, <2>2, ColumnChanges
  <2>4. lead'[l].status = lead[l].status
    BY <2>1, <2>2 DEF Put, Row
  <2> QED
    BY <2>3, <2>4, OneChange DEF Alone
<1> QED
  BY <1>1, <1>2

LEMMA CallsAreAlone ==
  ASSUME CrmInv, FreshInv, NEW d \in Calls, NEW u,
         MatchBooker(d, u) \/ RecordBooking(d) \/ ConfirmBooking(d) \/ HookDies(d),
         NEW l \in LeadIds \ mixed'
  PROVE  Alone(l)
<1> DEFINE c == call[d]
<1>1. CASE lead'[l] = lead[l]
  BY <1>1, Untouched
<1>2. CASE lead'[l] # lead[l]
  <2>1. ~KeepsRows /\ ~UNCHANGED leadsVars
    BY <1>2 DEF KeepsRows, leadsVars, rowVars
  <2>2. RecordBooking(d)
    BY <2>1 DEF MatchBooker, ConfirmBooking, HookDies
  <2>3. /\ c.pc = "record" /\ job' = job
        /\ \E ls : Writes(d, ls, [k \in LeadIds |-> [lead[k] EXCEPT !.status = "MEETING_SET"]])
                   /\ ls = IF c.advance THEN {c.lead} ELSE {}
    BY <2>1, <2>2 DEF RecordBooking, botVars
  <2>4. l = c.lead /\ c.advance /\ l \notin mixed /\ lead'[l] = Put(lead[l], "status", "MEETING_SET")
    BY <1>2, <2>3 DEF Writes, Put
  <2>5. lead[l].status \in Open
    BY <2>3, <2>4 DEF FreshInv, FreshCall
  <2>6. lead[l] \in Row /\ "status" \in Columns /\ "MEETING_SET" \in Ranges["status"]
    BY DEF CrmInv, LeadsInv, LeadsTypeOK, Columns, Ranges, Statuses
  <2>7. Changes(lead[l], lead'[l]) \subseteq {"status"}
    BY <2>4, <2>6, ColumnChanges
  <2> QED
    BY <2>3, <2>5, <2>7, OneChange DEF Alone
<1> QED
  BY <1>1, <1>2

LEMMA NextIsAlone ==
  ASSUME CrmInv, FreshInv, [Next]_vars, NEW l \in LeadIds \ mixed'
  PROVE  Alone(l)
<1>0. LeadsInv /\ LeadsTypeOK /\ AppointmentsTypeOK
  BY DEF CrmInv, LeadsInv, MeetingsInv
<1>u. ASSUME UNCHANGED rowVars PROVE Alone(l)
  BY <1>u, Untouched DEF rowVars
<1>1. ASSUME LeadsNext, UNCHANGED apptVars PROVE Alone(l)
  <2>1. ASSUME NEW u \in Users, NEW n, DeleteNote(u, n) PROVE Alone(l)
    BY <1>u, <2>1 DEF DeleteNote
  <2>2. ASSUME NEW v, RemoveMember(v) \/ DeleteProduct(v) PROVE Alone(l)
    <3>1. job' = job /\ (Detach("owner", v) \/ Detach("product", v))
      BY <2>2 DEF RemoveMember, DeleteProduct, RequestRest, botVars
    <3> QED
      BY <1>0, <3>1, DetachIsAlone
  <2> QED
    BY <1>0, <1>1, <2>1, <2>2, EditsAreAlone, RoutesAreAlone DEF LeadsNext
<1>2. ASSUME FollowUpsNext PROVE Alone(l)
  <2>1. ChaseRest
    BY <1>2 DEF FollowUpsNext, Answer, TimePasses, Chases, StartSweep, Nudge, CountNudge, EndSweep, WorkerDies
  <2> QED
    BY <1>u, <2>1 DEF ChaseRest
<1>3. ASSUME BotNext \/ CalcomNext PROVE Alone(l)
  <2>1. \/ UNCHANGED rowVars
        \/ \E d \in Calls : \/ \E u \in Uids : MatchBooker(d, u)
                            \/ RecordBooking(d) \/ ConfirmBooking(d) \/ HookDies(d)
    BY <1>3, MeetingsAlone DEF CalcomNext
  <2> QED
    BY <1>u, <2>1, CallsAreAlone
<1>4. ASSUME UNCHANGED vars PROVE Alone(l)
  BY <1>u, <1>4 DEF vars, leadsVars
<1> QED
  BY <1>1, <1>2, <1>3, <1>4 DEF Next

\* EditsAlone (Leads): a step changes one thing about a lead nobody else wrote
\* meanwhile; the bot takes none from its owner and moves none on.
THEOREM EditsAreOneAtATime == Spec => EditsAlone
<1>1. Init => CrmInv /\ FreshInv
  BY InitTypes, InitFresh
<1>2. CrmInv /\ FreshInv /\ [Next]_vars => CrmInv' /\ FreshInv'
  BY NextTypes, NextFresh
<1>3. CrmInv /\ FreshInv /\ [Next]_vars =>
        [\A l \in LeadIds \ mixed' :
           /\ Cardinality(Changes(lead[l], lead'[l])) <= 1
           /\ (job' # job => lead[l].owner \in {NULL, lead'[l].owner})
           /\ (request' = request => lead[l].status \in Open \cup {lead'[l].status})]_leadsVars
  BY NextIsAlone DEF Alone
<1> QED
  BY <1>1, <1>2, <1>3, PTL DEF Spec, EditsAlone

-------------------------------------------------------------------------------
(* Alerts *)

Alerts(j) == JobAt(j, "next") /\ job'[j].pc = "next" /\ "notify" \in job[j].todo \ job'[j].todo
Informed(j) == LET l == job[j].on IN l \in mixed \/ job'[j].told = Recipients(lead[l].owner)

LEMMA OtherJobs ==
  ASSUME job \in [Jobs -> Job], NEW i \in Jobs, Routes(i), NEW j \in Jobs, j # i
  PROVE  job'[j] = job[j]
<1>1. ASSUME NEW l, NEW todo, StartJob(i, l, todo) PROVE job'[j] = job[j]
  BY <1>1 DEF StartJob
<1>2. ASSUME NEW tag, ReadTags(i, tag) PROVE job'[j] = job[j]
  BY <1>2 DEF ReadTags
<1>3. ASSUME WriteTags(i) \/ LogTags(i) PROVE job'[j] = job[j]
  BY <1>3 DEF WriteTags, LogTags
<1>4. ASSUME ReadOwner(i) PROVE job'[j] = job[j]
  BY <1>4 DEF ReadOwner
<1>5. ASSUME NEW named, PickAssignee(i, named) PROVE job'[j] = job[j]
  BY <1>5 DEF PickAssignee
<1>6. ASSUME GiveLead(i) PROVE job'[j] = job[j]
  BY <1>6 DEF GiveLead, Finishes
<1>7. ASSUME LogOwner(i) \/ NotifyAgent(i) PROVE job'[j] = job[j]
  BY <1>7 DEF LogOwner, NotifyAgent
<1>8. ASSUME NEW k, NEW v, Persist(i, k, v) PROVE job'[j] = job[j]
  BY <1>8 DEF Persist, Finishes
<1>9. ASSUME NothingSaved(i) PROVE job'[j] = job[j]
  BY <1>9 DEF NothingSaved, Finishes
<1> QED
  BY <1>1, <1>2, <1>3, <1>4, <1>5, <1>6, <1>7, <1>8, <1>9 DEF Routes

LEMMA RoutesInform ==
  ASSUME LeadsInv, FreshInv, NEW j \in Jobs, Routes(j), Alerts(j)
  PROVE  Informed(j)
<1> DEFINE b == job[j]
<1>0. b \in Working /\ b.pc = "next" /\ "notify" \in b.todo /\ FreshJob(j) /\ job \in [Jobs -> Job]
  BY JobAtWork DEF Alerts, JobAt, LeadsInv, LeadsTypeOK, FreshInv
<1>1. ASSUME NEW l, NEW todo, StartJob(j, l, todo) PROVE FALSE
  BY <1>0, <1>1 DEF StartJob, JobAt
<1>2. ASSUME NEW tag, ReadTags(j, tag) PROVE FALSE
  <2> DEFINE c == IF tag \in lead[b.on].tags THEN [b EXCEPT !.todo = @ \ {"tag"}]
                  ELSE [b EXCEPT !.pc = "tag", !.todo = @ \ {"tag"}, !.to = tag, !.tags = lead[b.on].tags]
  <2>1. job' = [job EXCEPT ![j] = c]
    BY <1>2 DEF ReadTags
  <2>2. c.pc = "next" => "notify" \in c.todo
    BY <1>0 DEF Working
  <2> HIDE DEF c
  <2> QED
    BY <1>0, <2>1, <2>2 DEF Alerts
<1>3. WriteTags(j) \/ LogTags(j) => FALSE
  BY <1>0 DEF WriteTags, LogTags, JobAt
<1>4. ASSUME ReadOwner(j) PROVE FALSE
  <2> DEFINE c == IF Owned(b) THEN [b EXCEPT !.todo = @ \ {"owner"}, !.owner = lead[b.on].owner]
                  ELSE [b EXCEPT !.pc = "pick", !.todo = @ \ {"owner"}]
  <2>1. job' = [job EXCEPT ![j] = c]
    BY <1>4 DEF ReadOwner
  <2>2. c.pc = "next" => "notify" \in c.todo
    BY <1>0 DEF Working
  <2> HIDE DEF c
  <2> QED
    BY <1>0, <2>1, <2>2 DEF Alerts
<1>5. ASSUME NEW named, PickAssignee(j, named) PROVE FALSE
  BY <1>0, <1>5 DEF PickAssignee, JobAt
<1>6. GiveLead(j) \/ LogOwner(j) => FALSE
  BY <1>0 DEF GiveLead, LogOwner, JobAt
<1>7. ASSUME NotifyAgent(j) PROVE Informed(j)
  <2> DEFINE c == [b EXCEPT !.todo = @ \ {"notify"}, !.told = Recipients(b.owner)]
  <2>1. job' = [job EXCEPT ![j] = c]
    BY <1>0, <1>7 DEF NotifyAgent
  <2>2. c.told = Recipients(b.owner)
    BY <1>0 DEF Working
  <2>3. b.on \notin mixed => b.owner = lead[b.on].owner
    BY <1>0 DEF FreshJob
  <2> HIDE DEF c
  <2> QED
    BY <1>0, <2>1, <2>2, <2>3 DEF Informed
<1>8. ASSUME NEW k, NEW v, Persist(j, k, v) PROVE FALSE
  BY <1>0, <1>8 DEF Persist, Finishes, Alerts, Done
<1>9. NothingSaved(j) => FALSE
  BY <1>0 DEF NothingSaved, Finishes, Alerts, Done
<1> QED
  BY <1>1, <1>2, <1>3, <1>4, <1>5, <1>6, <1>7, <1>8, <1>9 DEF Routes

LEMMA NextInforms ==
  ASSUME CrmInv, FreshInv, [Next]_vars, NEW j \in Jobs, Alerts(j)
  PROVE  Informed(j)
<1>0. LeadsInv /\ LeadsTypeOK /\ job \in [Jobs -> Job]
  BY DEF CrmInv, LeadsInv, LeadsTypeOK
<1>u. ASSUME job' = job PROVE FALSE
  BY <1>u DEF Alerts
<1>1. ASSUME LeadsNext PROVE Informed(j)
  <2>1. ASSUME NEW i \in Jobs, Routes(i) PROVE Informed(j)
    <3>1. CASE i = j
      BY <1>0, <2>1, <3>1, RoutesInform
    <3>2. CASE i # j
      BY <1>0, <2>1, <3>2, OtherJobs DEF Alerts
    <3> QED
      BY <3>1, <3>2
  <2>2. ASSUME NEW r \in Requests, Edits(r) PROVE FALSE
    <3>1. RequestRest => job' = job
      BY DEF RequestRest, botVars
    <3>2. ASSUME NEW u, NEW e, NEW l, OpenLead(r, u, l, e) \/ OpenBulk(r, u, l, e) PROVE RequestRest
      BY <3>2 DEF OpenLead, OpenBulk
    <3>3. CheckTarget(r) \/ BulkBefore(r) => RequestRest
      BY DEF CheckTarget, BulkBefore
    <3>4. WriteLead(r) => RequestRest
      BY DEF WriteLead
    <3>5. LogEdit(r) \/ WebDies(r) => RequestRest
      BY DEF LogEdit, WebDies
    <3> QED
      BY <1>u, <2>2, <3>1, <3>2, <3>3, <3>4, <3>5 DEF Edits
  <2>3. ASSUME NEW u, NEW n, DeleteNote(u, n) PROVE FALSE
    BY <1>u, <2>3 DEF DeleteNote, RequestRest, botVars
  <2>4. ASSUME NEW v, RemoveMember(v) \/ DeleteProduct(v) PROVE FALSE
    BY <1>u, <2>4 DEF RemoveMember, DeleteProduct, RequestRest, botVars
  <2> QED
    BY <1>1, <2>1, <2>2, <2>3, <2>4 DEF LeadsNext
<1>2. ASSUME FollowUpsNext PROVE FALSE
  <2>1. ChaseRest
    BY <1>2 DEF FollowUpsNext, Answer, TimePasses, Chases, StartSweep, Nudge, CountNudge, EndSweep, WorkerDies
  <2> QED
    BY <1>u, <2>1 DEF ChaseRest, botVars
<1>3. ASSUME BotNext \/ CalcomNext PROVE FALSE
  <2>1. \/ job' = job
        \/ \E d \in Calls : \/ \E u \in Uids : MatchBooker(d, u)
                            \/ RecordBooking(d) \/ ConfirmBooking(d) \/ HookDies(d)
    BY <1>3, MeetingsAlone DEF CalcomNext
  <2> QED
    BY <1>u, <2>1, CallsKeepTasks
<1>4. ASSUME UNCHANGED vars PROVE FALSE
  BY <1>u, <1>4 DEF vars, leadsVars, botVars
<1> QED
  BY <1>1, <1>2, <1>3, <1>4 DEF Next

\* AlertsTheOwner (Leads): an alert goes to the owner the lead has, also when the
\* job has just assigned it, unless somebody else wrote the lead meanwhile.
THEOREM AlertsReachTheOwner == Spec => AlertsTheOwner
<1>1. Init => CrmInv /\ FreshInv
  BY InitTypes, InitFresh
<1>2. CrmInv /\ FreshInv /\ [Next]_vars => CrmInv' /\ FreshInv'
  BY NextTypes, NextFresh
<1>3. CrmInv /\ FreshInv /\ [Next]_vars =>
        [\A j \in Jobs :
           JobAt(j, "next") /\ job'[j].pc = "next" /\ "notify" \in job[j].todo \ job'[j].todo =>
           LET l == job[j].on IN l \in mixed \/ job'[j].told = Recipients(lead[l].owner)]_leadsVars
  BY NextInforms DEF Alerts, Informed
<1> QED
  BY <1>1, <1>2, <1>3, PTL DEF Spec, AlertsTheOwner

-------------------------------------------------------------------------------
(* The timeline *)

Traced == {"status", "owner", "product"}

\* What the timeline says of a column or of the tags is what the row shows, or
\* somebody is about to log it.
Tells(l, c) == lead[l][c] = timeline[l][c] \/ (lead[l][c] = NULL /\ ~Exists(c, timeline[l][c]))
Logging(r, l) == request[r].pc = "log" /\ l \in request[r].todo
ColumnTold(l, c) ==
  \/ Tells(l, c)
  \/ \E r \in Requests : Logging(r, l) /\ request[r].edit.col = c
  \/ c = "owner" /\ \E j \in Jobs : job[j].pc = "logOwner" /\ job[j].on = l
TagsTold(l) ==
  \/ lead[l].tags = timeline[l].tags
  \/ \E r \in Requests : Logging(r, l) /\ request[r].edit.kind \in {"tag", "untag"}
  \/ \E j \in Jobs : job[j].pc = "logTag" /\ job[j].on = l
Accounted(l) == l \in mixed \cup unlogged \/ (TagsTold(l) /\ \A c \in Traced : ColumnTold(l, c))

LEMMA ColumnKept ==
  ASSUME NEW l, NEW c \in Traced, ColumnTold(l, c), lead'[l][c] = lead[l][c], timeline'[l][c] = timeline[l][c],
         members' \subseteq members, products' \subseteq products,
         \A r \in Requests : Logging(r, l) /\ request[r].edit.col = c => request'[r] = request[r],
         c = "owner" => \A j \in Jobs : job[j].pc = "logOwner" /\ job[j].on = l => job'[j] = job[j]
  PROVE  ColumnTold(l, c)'
<1>1. ASSUME Tells(l, c) PROVE Tells(l, c)'
  BY <1>1 DEF Tells, Exists, Traced
<1>2. ASSUME NEW r \in Requests, Logging(r, l), request[r].edit.col = c PROVE ColumnTold(l, c)'
  BY <1>2 DEF Logging, ColumnTold
<1>3. ASSUME NEW j \in Jobs, c = "owner", job[j].pc = "logOwner", job[j].on = l PROVE ColumnTold(l, c)'
  BY <1>3 DEF ColumnTold
<1> QED
  BY <1>1, <1>2, <1>3 DEF ColumnTold

LEMMA TagsKept ==
  ASSUME NEW l, TagsTold(l), lead'[l].tags = lead[l].tags, timeline'[l].tags = timeline[l].tags,
         \A r \in Requests : Logging(r, l) /\ request[r].edit.kind \in {"tag", "untag"} => request'[r] = request[r],
         \A j \in Jobs : job[j].pc = "logTag" /\ job[j].on = l => job'[j] = job[j]
  PROVE  TagsTold(l)'
BY DEF TagsTold, Logging

LEMMA LeadKept ==
  ASSUME NEW l, Accounted(l), lead'[l] = lead[l], timeline'[l] = timeline[l],
         mixed \subseteq mixed', unlogged \subseteq unlogged', members' \subseteq members, products' \subseteq products,
         \A r \in Requests : Logging(r, l) => request'[r] = request[r],
         \A j \in Jobs : job[j].pc \in {"logTag", "logOwner"} /\ job[j].on = l => job'[j] = job[j]
  PROVE  Accounted(l)'
<1>1. CASE l \in mixed \cup unlogged
  BY <1>1 DEF Accounted
<1>2. CASE l \notin mixed \cup unlogged
  <2>1. TagsTold(l)'
    BY <1>2, TagsKept DEF Accounted
  <2>2. ASSUME NEW c \in Traced PROVE ColumnTold(l, c)'
    BY <1>2, ColumnKept DEF Accounted
  <2> QED
    BY <2>1, <2>2 DEF Accounted
<1> QED
  BY <1>1, <1>2

\* An entry is logged, or it is known to be missing.
LEMMA ColumnLogged ==
  ASSUME NEW row \in Row, NEW c \in Columns, NEW v \in Ranges[c]
  PROVE  /\ Put(row, c, v)[c] = v /\ Put(row, c, v).tags = row.tags
         /\ \A d \in Columns : d # c => Put(row, c, v)[d] = row[d]
<1> DEFINE new == Put(row, c, v)
<1>1. CASE c = "status"
  <2>1. new[c] = v /\ new.tags = row.tags /\ \A d \in Columns : d # c => new[d] = row[d]
    BY <1>1 DEF Put, Row, Columns
  <2> QED
    BY <2>1
<1>2. CASE c = "owner"
  <2>1. new[c] = v /\ new.tags = row.tags /\ \A d \in Columns : d # c => new[d] = row[d]
    BY <1>2 DEF Put, Row, Columns
  <2> QED
    BY <2>1
<1>3. CASE c = "product"
  <2>1. new[c] = v /\ new.tags = row.tags /\ \A d \in Columns : d # c => new[d] = row[d]
    BY <1>3 DEF Put, Row, Columns
  <2> QED
    BY <2>1
<1>4. CASE c = "summary"
  <2>1. new[c] = v /\ new.tags = row.tags /\ \A d \in Columns : d # c => new[d] = row[d]
    BY <1>4 DEF Put, Row, Columns
  <2> QED
    BY <2>1
<1> QED
  BY <1>1, <1>2, <1>3, <1>4 DEF Columns

LEMMA TagsLogged ==
  ASSUME NEW row \in Row, NEW tags \in SUBSET Tags
  PROVE  PutTags(row, tags).tags = tags /\ \A d \in Columns : PutTags(row, tags)[d] = row[d]
<1> DEFINE new == PutTags(row, tags)
<1>1. new.tags = tags /\ \A d \in Columns : new[d] = row[d]
  BY DEF PutTags, Row, Columns
<1> QED
  BY <1>1

LEMMA LogsLead ==
  ASSUME NEW by, NEW ls, NEW col, NEW value, Logs(by, ls, col, value), NEW l \in LeadIds
  PROVE  /\ unlogged \subseteq unlogged'
         /\ l \notin ls => timeline'[l] = timeline[l]
         /\ l \in ls /\ l \notin unlogged' => timeline'[l] = Put(timeline[l], col, value)
BY DEF Logs, Put

\* What an edit leaves as it was.
LEMMA UpdateLeaves ==
  ASSUME NEW row \in Row, NEW seen \in Seen, NEW e \in Edit
  PROVE  /\ \A c \in Traced : c # e.col => Update(row, seen, e)[c] = row[c]
         /\ e.kind \notin {"tag", "untag"} => Update(row, seen, e).tags = row.tags
<1> DEFINE new == Update(row, seen, e)
<1>t. Traced \subseteq Columns
  BY DEF Traced, Columns
<1>1. CASE e.kind \in {"set", "bulk"} /\ e.col \in Columns /\ e.to \in Ranges[e.col]
  <2>1. new = Put(row, e.col, e.to)
    BY <1>1 DEF Update, Put
  <2> HIDE DEF new
  <2>2. (\A c \in Traced : c # e.col => new[c] = row[c]) /\ new.tags = row.tags
    BY <1>1, <1>t, <2>1, ColumnLogged
  <2> QED
    BY <2>2 DEF new
<1>2. CASE e.kind \in {"tag", "untag"} /\ e.col \in Tags
  <2> DEFINE tags == IF e.kind = "tag" THEN seen.tags \cup {e.col} ELSE seen.tags \ {e.col}
  <2>1. new = PutTags(row, tags) /\ tags \in SUBSET Tags
    BY <1>2 DEF Update, PutTags, Seen
  <2> HIDE DEF new, tags
  <2>2. \A c \in Traced : new[c] = row[c]
    BY <1>t, <2>1, TagsLogged
  <2> QED
    BY <1>2, <2>2 DEF new
<1>3. CASE e.kind = "field" /\ e.col \in Keys /\ e.to \in Answers \cup {NULL}
  <2> DEFINE fields == [seen.fields EXCEPT ![e.col] = e.to]
  <2>1. new = [row EXCEPT !.fields = fields] /\ fields \in [Keys -> Answers \cup {NULL}]
    BY <1>3 DEF Update, Seen
  <2> HIDE DEF fields
  <2>2. (\A c \in Traced : new[c] = row[c]) /\ new.tags = row.tags
    BY <2>1 DEF Traced, Row
  <2> QED
    BY <2>2
<1>4. CASE e.kind = "note"
  BY <1>4 DEF Update
<1> QED
  BY <1>1, <1>2, <1>3, <1>4, EditKinds

\* A step of a request that is not at its log.
LEMMA RequestKept ==
  ASSUME LeadsTypeOK, NEW r \in Requests, NEW n, request' = [request EXCEPT ![r] = n], request[r].pc # "log",
         KeepsRows, job' = job, timeline' = timeline, unlogged' = unlogged, members' = members, products' = products,
         NEW l \in LeadIds, Accounted(l)
  PROVE  Accounted(l)'
<1>1. \A q \in Requests : Logging(q, l) => request'[q] = request[q]
  BY DEF Logging, LeadsTypeOK
<1> QED
  BY <1>1, LeadKept DEF KeepsRows

LEMMA EditsAccount ==
  ASSUME LeadsInv, AppointmentsTypeOK, FreshInv, NEW r \in Requests, Edits(r), UNCHANGED apptVars,
         NEW l \in LeadIds, Accounted(l)
  PROVE  Accounted(l)'
<1> DEFINE t == request[r]
<1>0. /\ LeadsTypeOK /\ FreshRequest(r) /\ request \in [Requests -> Request] /\ lead[l] \in Row /\ timeline[l] \in Row
      /\ New.pc = "new" /\ Done.pc = "done"
  BY DEF LeadsInv, LeadsTypeOK, FreshInv, New, Done
<1>m. mixed \subseteq mixed'
  BY <1>0, EditsKeepFresh DEF Moves
<1>j. RequestRest => job' = job
  BY DEF RequestRest, botVars
<1>1. ASSUME NEW u, NEW e, NEW k, OpenLead(r, u, k, e) PROVE Accounted(l)'
  <2>1. PICK n : request' = [request EXCEPT ![r] = n]
    BY <1>1 DEF OpenLead
  <2> QED
    BY <1>0, <1>1, <1>j, <2>1, RequestKept DEF OpenLead, At, teamVars
<1>2. ASSUME NEW u, NEW e, NEW ls, OpenBulk(r, u, ls, e) PROVE Accounted(l)'
  <2>1. PICK n : request' = [request EXCEPT ![r] = n]
    BY <1>2 DEF OpenBulk
  <2> QED
    BY <1>0, <1>2, <1>j, <2>1, RequestKept DEF OpenBulk, At, teamVars
<1>3. ASSUME CheckTarget(r) PROVE Accounted(l)'
  <2>1. PICK n : request' = [request EXCEPT ![r] = n]
    <3>1. Ends(r) \/ \E pc : To(r, pc)
      BY <1>3 DEF CheckTarget
    <3> QED
      BY <1>0, <3>1 DEF Ends, To
  <2> QED
    BY <1>0, <1>3, <1>j, <2>1, RequestKept DEF CheckTarget, At, teamVars
<1>4. ASSUME BulkBefore(r) PROVE Accounted(l)'
  <2>1. PICK n : request' = [request EXCEPT ![r] = n]
    BY <1>0, <1>4 DEF BulkBefore
  <2> QED
    BY <1>0, <1>4, <1>j, <2>1, RequestKept DEF BulkBefore, At, teamVars
<1>5. ASSUME WriteLead(r) PROVE Accounted(l)'
  <2>0. /\ t.pc = "write" /\ job' = job /\ UNCHANGED <<timeline, unlogged, members, products>>
        /\ t.edit \in Edit /\ t.seen \in Seen /\ t.on \in SUBSET LeadIds /\ t.todo \in SUBSET LeadIds
    BY <1>0, <1>5, <1>j, AtWork DEF WriteLead, At
  <2>1. CASE Ends(r) /\ KeepsRows
    BY <1>0, <2>0, <2>1, RequestKept DEF Ends
  <2>2. CASE /\ Writes(r, Targets(t), [k \in LeadIds |-> Update(lead[k], t.seen, t.edit)])
             /\ request' = [request EXCEPT ![r].pc = "log"]
    <3> DEFINE n == [t EXCEPT !.pc = "log"]
    <3>1. request' = [request EXCEPT ![r] = n]
      BY <1>0, <2>2
    <3>2. n.pc = "log" /\ n.edit = t.edit /\ n.todo = t.todo
      <4>1. t \in [pc: {"check", "before", "write", "log"}, by: Users, edit: Edit,
                   on: SUBSET LeadIds, todo: SUBSET LeadIds, seen: Seen]
        BY <1>0, <2>0 DEF Request, New, Done, Seen
      <4> HIDE DEF t
      <4> QED
        BY <4>1
    <3> HIDE DEF n
    <3>3. request'[r] = n /\ \A q \in Requests : Logging(q, l) => request'[q] = request[q]
      BY <1>0, <2>0, <3>1 DEF Logging
    <3>4. CASE lead'[l] = lead[l]
      BY <1>m, <2>0, <3>3, <3>4, LeadKept
    <3>5. CASE lead'[l] # lead[l] /\ l \notin mixed' \cup unlogged'
      <4>1. l \in Targets(t) /\ lead'[l] = Update(lead[l], t.seen, t.edit) /\ l \notin mixed \cup unlogged
        BY <1>m, <2>0, <2>2, <3>5 DEF Writes
      <4>2. l \in t.todo
        <5>1. CASE t.edit.kind # "bulk"
          BY <1>0, <2>0, <4>1, <5>1 DEF FreshRequest, Targets
        <5>2. CASE t.edit.kind = "bulk"
          <6>1. l \in t.on /\ Sees(t.by, lead[l])
            BY <4>1, <5>2 DEF Targets, Visible, Sees
          <6>2. (l \in t.todo) = (Sees(t.by, lead[l]) /\ Asks(lead[l], t.edit))
            BY <1>0, <2>0, <4>1, <5>2, <6>1 DEF FreshRequest
          <6>3. ASSUME ~Asks(lead[l], t.edit) PROVE FALSE
            <7>1. t.edit.col \in Columns /\ t.edit.to \in Ranges[t.edit.col] /\ lead[l][t.edit.col] = t.edit.to
              BY <2>0, <5>2, <6>3, EditKinds DEF Asks
            <7>2. lead'[l] = [lead[l] EXCEPT ![t.edit.col] = t.edit.to]
              BY <4>1, <5>2 DEF Update
            <7>3. lead'[l] = lead[l]
              BY <1>0, <7>1, <7>2 DEF Row
            <7> QED
              BY <3>5, <7>3
          <6> QED
            BY <6>1, <6>2, <6>3
        <5> QED
          BY <5>1, <5>2
      <4>3. Logging(r, l)' /\ request'[r].edit = t.edit
        BY <3>2, <3>3, <4>2 DEF Logging
      <4>4. ASSUME NEW c \in Traced PROVE ColumnTold(l, c)'
        <5>1. CASE c = t.edit.col
          BY <4>3, <5>1 DEF ColumnTold
        <5>2. CASE c # t.edit.col
          <6>1. lead'[l][c] = lead[l][c]
            BY <1>0, <2>0, <4>1, <5>2, UpdateLeaves
          <6>2. ColumnTold(l, c)
            BY <4>1 DEF Accounted
          <6> QED
            BY <2>0, <3>3, <6>1, <6>2, ColumnKept
        <5> QED
          BY <5>1, <5>2
      <4>5. TagsTold(l)'
        <5>1. CASE t.edit.kind \in {"tag", "untag"}
          BY <4>3, <5>1 DEF TagsTold
        <5>2. CASE t.edit.kind \notin {"tag", "untag"}
          <6>1. lead'[l].tags = lead[l].tags
            BY <1>0, <2>0, <4>1, <5>2, UpdateLeaves
          <6>2. TagsTold(l)
            BY <4>1 DEF Accounted
          <6> QED
            BY <2>0, <3>3, <6>1, <6>2, TagsKept
        <5> QED
          BY <5>1, <5>2
      <4> QED
        BY <4>4, <4>5 DEF Accounted
    <3> QED
      BY <3>4, <3>5 DEF Accounted
  <2> QED
    BY <1>5, <2>1, <2>2 DEF WriteLead
<1>6. ASSUME LogEdit(r) PROVE Accounted(l)'
  <2> DEFINE e == t.edit
  <2>0. /\ t.pc = "log" /\ job' = job /\ lead' = lead /\ mixed' = mixed /\ members' = members /\ products' = products
        /\ request' = [request EXCEPT ![r] = Done]
    BY <1>6, <1>j DEF LogEdit, At, KeepsRows, teamVars, Ends
  <2>e. /\ e \in Edit /\ t.seen \in Seen
        /\ l \in t.todo /\ l \notin mixed => Displays(t, lead[l])
    BY <1>0, <2>0, AtWork DEF FreshRequest
  <2>q. \A q \in Requests : Logging(q, l) /\ q # r => request'[q] = request[q]
    BY <1>0, <2>0 DEF Logging
  <2>1. ASSUME l \notin t.todo, timeline'[l] = timeline[l], unlogged \subseteq unlogged' PROVE Accounted(l)'
    <3>1. \A q \in Requests : Logging(q, l) => request'[q] = request[q]
      BY <2>1, <2>q DEF Logging
    <3> QED
      BY <1>m, <2>0, <2>1, <3>1, LeadKept
  <2>2. ASSUME l \in t.todo, l \notin mixed' \cup unlogged', e.col \in Traced, unlogged \subseteq unlogged',
               timeline'[l] = Put(timeline[l], e.col, e.to)
        PROVE  Accounted(l)'
    <3>1. e.col \in Columns /\ e.to \in Ranges[e.col] /\ e.kind \notin {"tag", "untag"}
      BY <2>e, <2>2, EditKinds, LeadsAssumption DEF Traced, Columns
    <3>2. l \notin mixed \cup unlogged /\ lead[l][e.col] = e.to
      BY <2>0, <2>e, <2>2 DEF Displays, Traced
    <3>3. /\ timeline'[l][e.col] = e.to /\ timeline'[l].tags = timeline[l].tags
          /\ \A c \in Columns : c # e.col => timeline'[l][c] = timeline[l][c]
      BY <1>0, <2>2, <3>1, ColumnLogged
    <3>4. TagsTold(l)'
      <4>1. \A q \in Requests : Logging(q, l) /\ request[q].edit.kind \in {"tag", "untag"} => request'[q] = request[q]
        BY <2>q, <3>1
      <4>2. TagsTold(l)
        BY <3>2 DEF Accounted
      <4> QED
        BY <2>0, <3>3, <4>1, <4>2, TagsKept
    <3>5. ASSUME NEW c \in Traced PROVE ColumnTold(l, c)'
      <4>1. CASE c = e.col
        BY <2>0, <3>2, <3>3, <4>1 DEF ColumnTold, Tells
      <4>2. CASE c # e.col
        <5>1. \A q \in Requests : Logging(q, l) /\ request[q].edit.col = c => request'[q] = request[q]
          BY <2>q, <4>2
        <5>2. ColumnTold(l, c) /\ c \in Columns
          BY <3>2 DEF Accounted, Traced, Columns
        <5> QED
          BY <2>0, <3>3, <4>2, <5>1, <5>2, ColumnKept
      <4> QED
        BY <4>1, <4>2
    <3> QED
      BY <3>4, <3>5 DEF Accounted
  <2>3. ASSUME l \in t.todo, l \notin mixed' \cup unlogged', e.col \notin Traced, e.kind \in {"tag", "untag"},
               unlogged \subseteq unlogged', timeline'[l] = Put(timeline[l], "tags", Update(NewLead, t.seen, e).tags)
        PROVE  Accounted(l)'
    <3> DEFINE tags == Update(NewLead, t.seen, e).tags
    <3>1. tags \in SUBSET Tags
      BY <2>e, NewLeadType, UpdateType DEF Row
    <3>2. l \notin mixed \cup unlogged /\ lead[l].tags = tags
      BY <2>0, <2>e, <2>3 DEF Displays
    <3>3. timeline'[l] = PutTags(timeline[l], tags)
      BY <2>3 DEF Put, PutTags
    <3> HIDE DEF tags
    <3>4. timeline'[l].tags = tags /\ \A c \in Columns : timeline'[l][c] = timeline[l][c]
      BY <1>0, <3>1, <3>3, TagsLogged
    <3>5. TagsTold(l)'
      BY <2>0, <3>2, <3>4 DEF TagsTold
    <3>6. ASSUME NEW c \in Traced PROVE ColumnTold(l, c)'
      <4>1. \A q \in Requests : Logging(q, l) /\ request[q].edit.col = c => request'[q] = request[q]
        BY <2>3, <2>q
      <4>2. ColumnTold(l, c) /\ c \in Columns
        BY <3>2 DEF Accounted, Traced, Columns
      <4> QED
        BY <2>0, <3>4, <4>1, <4>2, ColumnKept
    <3> QED
      BY <3>5, <3>6 DEF Accounted
  <2>4. ASSUME l \in t.todo, e.col \notin Traced, e.kind \notin {"tag", "untag"}, timeline' = timeline,
               unlogged' = unlogged, l \notin mixed' \cup unlogged'
        PROVE  Accounted(l)'
    <3>1. TagsTold(l)'
      <4>1. \A q \in Requests : Logging(q, l) /\ request[q].edit.kind \in {"tag", "untag"} => request'[q] = request[q]
        BY <2>4, <2>q
      <4>2. TagsTold(l)
        BY <2>0, <2>4 DEF Accounted
      <4> QED
        BY <2>0, <2>4, <4>1, <4>2, TagsKept
    <3>2. ASSUME NEW c \in Traced PROVE ColumnTold(l, c)'
      <4>1. \A q \in Requests : Logging(q, l) /\ request[q].edit.col = c => request'[q] = request[q]
        BY <2>4, <2>q
      <4>2. ColumnTold(l, c)
        BY <2>0, <2>4 DEF Accounted
      <4> QED
        BY <2>0, <2>4, <4>1, <4>2, ColumnKept
    <3> QED
      BY <3>1, <3>2 DEF Accounted
  <2>5. CASE l \in mixed' \cup unlogged'
    BY <2>5 DEF Accounted
  <2>6. CASE e.col \in Traced /\ l \notin mixed' \cup unlogged'
    <3>1. Logs(t.by, t.todo, e.col, e.to)
      BY <1>6, <2>6 DEF LogEdit, Traced
    <3> QED
      BY <2>1, <2>2, <2>6, <3>1, LogsLead
  <2>7. CASE e.col \notin Traced /\ e.kind \in {"tag", "untag"} /\ l \notin mixed' \cup unlogged'
    <3>1. Logs(t.by, t.todo, "tags", Update(NewLead, t.seen, e).tags)
      BY <1>6, <2>7 DEF LogEdit, Traced
    <3> QED
      BY <2>1, <2>3, <2>7, <3>1, LogsLead
  <2>8. CASE e.col \notin Traced /\ e.kind \notin {"tag", "untag"} /\ l \notin mixed' \cup unlogged'
    <3>1. timeline' = timeline /\ unlogged' = unlogged
      BY <1>6, <2>8 DEF LogEdit, Traced
    <3> QED
      BY <2>1, <2>4, <2>8, <3>1
  <2> QED
    BY <2>5, <2>6, <2>7, <2>8
<1>7. ASSUME WebDies(r) PROVE Accounted(l)'
  <2>1. /\ request' = [request EXCEPT ![r] = Done] /\ KeepsRows /\ job' = job /\ timeline' = timeline
        /\ members' = members /\ products' = products
        /\ unlogged' = IF t.pc = "log" THEN unlogged \cup t.todo ELSE unlogged
    BY <1>7, <1>j DEF WebDies, Ends, teamVars
  <2>2. CASE t.pc = "log" /\ l \in t.todo
    BY <2>1, <2>2 DEF Accounted
  <2>3. CASE t.pc # "log" \/ l \notin t.todo
    <3>1. \A q \in Requests : Logging(q, l) => request'[q] = request[q]
      BY <1>0, <2>1, <2>3 DEF Logging
    <3>2. lead' = lead /\ mixed' = mixed /\ unlogged \subseteq unlogged'
      BY <2>1 DEF KeepsRows
    <3> QED
      BY <2>1, <3>1, <3>2, LeadKept
  <2> QED
    BY <2>2, <2>3
<1> QED
  BY <1>1, <1>2, <1>3, <1>4, <1>5, <1>6, <1>7 DEF Edits

\* A step of a job that writes no row and logs nothing.
LEMMA JobKept ==
  ASSUME LeadsTypeOK, NEW j \in Jobs, Routes(j), job[j].pc \notin {"logTag", "logOwner"}, KeepsRows,
         request' = request, timeline' = timeline, unlogged' = unlogged, members' = members, products' = products,
         NEW l, Accounted(l)
  PROVE  Accounted(l)'
<1>1. \A i \in Jobs : job[i].pc \in {"logTag", "logOwner"} => job'[i] = job[i]
  BY OtherJobs DEF LeadsTypeOK
<1> QED
  BY <1>1, LeadKept DEF KeepsRows

LEMMA RoutesAccount ==
  ASSUME LeadsInv, AppointmentsTypeOK, FreshInv, NEW j \in Jobs, Routes(j), UNCHANGED apptVars,
         NEW l \in LeadIds, Accounted(l)
  PROVE  Accounted(l)'
<1> DEFINE b == job[j]
<1>0. /\ LeadsTypeOK /\ FreshJob(j) /\ job \in [Jobs -> Job] /\ lead[l] \in Row /\ timeline[l] \in Row /\ Ready(b)
      /\ b.pc \notin {"new", "done"} => b \in Working
  BY JobAtWork DEF LeadsInv, LeadsTypeOK, FreshInv
<1>m. mixed \subseteq mixed'
  BY JobsKeepFresh DEF Moves
<1>i. \A i \in Jobs : i # j => job'[i] = job[i]
  BY <1>0, OtherJobs
<1>r. JobRest => request' = request /\ members' = members /\ products' = products
  BY DEF JobRest, teamVars
<1>x. CASE l \in mixed' \cup unlogged'
  BY <1>x DEF Accounted
<1>1. ASSUME NEW k, NEW todo, StartJob(j, k, todo) PROVE Accounted(l)'
  BY <1>0, <1>1, <1>r, JobKept DEF StartJob, JobAt, NoLog
<1>2. ASSUME NEW tag, ReadTags(j, tag) PROVE Accounted(l)'
  BY <1>0, <1>2, <1>r, JobKept DEF ReadTags, JobAt, NoLog
<1>3. ASSUME WriteTags(j), l \notin mixed' \cup unlogged' PROVE Accounted(l)'
  <2>1. /\ b.pc = "tag" /\ timeline' = timeline /\ unlogged' = unlogged
        /\ Writes(j, {b.on}, [k \in LeadIds |-> [lead[k] EXCEPT !.tags = b.tags \cup {b.to}]])
        /\ request' = request /\ members' = members /\ products' = products
    BY <1>3, <1>r DEF WriteTags, JobAt, NoLog
  <2>2. \A i \in Jobs : job[i].pc \in {"logTag", "logOwner"} => job'[i] = job[i]
    BY <1>i, <2>1
  <2>3. CASE l # b.on
    <3>1. lead'[l] = lead[l]
      BY <2>1, <2>3 DEF Writes
    <3> QED
      BY <1>m, <2>1, <2>2, <3>1, LeadKept
  <2>4. CASE l = b.on
    <3> DEFINE tags == b.tags \cup {b.to}
               c == [b EXCEPT !.pc = "logTag"]
    <3>1. tags \in SUBSET Tags /\ c.pc = "logTag" /\ c.on = b.on
      BY <1>0, <2>1 DEF Ready, Working
    <3>2. lead'[l] = PutTags(lead[l], tags) /\ job' = [job EXCEPT ![j] = c]
      BY <1>0, <1>3, <2>1, <2>4 DEF Writes, PutTags, WriteTags
    <3> HIDE DEF tags, c
    <3>3. TagsTold(l)'
      <4>1. job'[j] = c
        BY <1>0, <3>2
      <4> QED
        BY <2>4, <3>1, <4>1 DEF TagsTold
    <3>4. ASSUME NEW d \in Traced PROVE ColumnTold(l, d)'
      <4>1. lead'[l][d] = lead[l][d]
        BY <1>0, <3>1, <3>2, TagsLogged DEF Traced, Columns
      <4>2. ColumnTold(l, d)
        BY <1>3, <1>m, <2>1 DEF Accounted
      <4> QED
        BY <2>1, <2>2, <4>1, <4>2, ColumnKept
    <3> QED
      BY <3>3, <3>4 DEF Accounted
  <2> QED
    BY <2>3, <2>4
<1>4. ASSUME LogTags(j), l \notin mixed' \cup unlogged' PROVE Accounted(l)'
  <2>1. /\ b.pc = "logTag" /\ lead' = lead /\ mixed' = mixed /\ Logs(NULL, {b.on}, "tags", b.tags \cup {b.to})
        /\ request' = request /\ members' = members /\ products' = products
    BY <1>4, <1>r DEF LogTags, JobAt, KeepsRows
  <2>2. unlogged \subseteq unlogged'
    BY <2>1, LogsLead
  <2>3. CASE l # b.on
    <3>1. timeline'[l] = timeline[l]
      BY <2>1, <2>3, LogsLead
    <3>2. \A i \in Jobs : job[i].pc \in {"logTag", "logOwner"} /\ job[i].on = l => job'[i] = job[i]
      BY <1>i, <2>3
    <3> QED
      BY <2>1, <2>2, <3>1, <3>2, LeadKept
  <2>4. CASE l = b.on
    <3> DEFINE tags == b.tags \cup {b.to}
    <3>1. tags \in SUBSET Tags /\ l \notin mixed \cup unlogged
      BY <1>0, <1>4, <2>1, <2>2 DEF Ready, Working
    <3>2. timeline'[l] = PutTags(timeline[l], tags)
      BY <1>4, <2>1, <2>4, LogsLead DEF Put, PutTags
    <3>3. lead[l].tags = tags
      BY <1>0, <2>1, <2>4, <3>1 DEF FreshJob
    <3> HIDE DEF tags
    <3>4. timeline'[l].tags = tags /\ \A d \in Columns : timeline'[l][d] = timeline[l][d]
      BY <1>0, <3>1, <3>2, TagsLogged
    <3>5. TagsTold(l)'
      BY <2>1, <3>3, <3>4 DEF TagsTold
    <3>6. ASSUME NEW d \in Traced PROVE ColumnTold(l, d)'
      <4>1. ColumnTold(l, d) /\ d \in Columns
        BY <3>1 DEF Accounted, Traced, Columns
      <4>2. \A i \in Jobs : job[i].pc = "logOwner" => job'[i] = job[i]
        BY <1>i, <2>1
      <4> QED
        BY <2>1, <3>4, <4>1, <4>2, ColumnKept
    <3> QED
      BY <3>5, <3>6 DEF Accounted
  <2> QED
    BY <2>3, <2>4
<1>5. ASSUME ReadOwner(j) PROVE Accounted(l)'
  BY <1>0, <1>5, <1>r, JobKept DEF ReadOwner, JobAt, NoLog
<1>6. ASSUME NEW named, PickAssignee(j, named) PROVE Accounted(l)'
  BY <1>0, <1>6, <1>r, JobKept DEF PickAssignee, JobAt, NoLog
<1>7. ASSUME GiveLead(j), l \notin mixed' \cup unlogged' PROVE Accounted(l)'
  <2>1. /\ b.pc = "give" /\ timeline' = timeline /\ unlogged' = unlogged
        /\ request' = request /\ members' = members /\ products' = products
    BY <1>7, <1>r DEF GiveLead, JobAt, NoLog
  <2>k. CASE KeepsRows
    BY <1>0, <2>1, <2>k, JobKept
  <2>w. CASE /\ Writes(j, {b.on}, [k \in LeadIds |-> [lead[k] EXCEPT !.owner = b.to]])
             /\ job' = [job EXCEPT ![j].pc = "logOwner"]
    <3>0. \A i \in Jobs : job[i].pc \in {"logTag", "logOwner"} => job'[i] = job[i]
      BY <1>i, <2>1
    <3>1. CASE l # b.on
      <4>1. lead'[l] = lead[l]
        BY <2>w, <3>1 DEF Writes
      <4> QED
        BY <1>m, <2>1, <3>0, <4>1, LeadKept
    <3>2. CASE l = b.on
      <4> DEFINE c == [b EXCEPT !.pc = "logOwner"]
      <4>1. c.pc = "logOwner" /\ c.on = b.on /\ b.to \in Ranges["owner"] /\ "owner" \in Columns
        BY <1>0, <2>1 DEF Ready, Working, Ranges, Columns
      <4>2. lead'[l] = Put(lead[l], "owner", b.to) /\ job' = [job EXCEPT ![j] = c]
        BY <1>0, <2>w, <3>2 DEF Writes, Put
      <4> HIDE DEF c
      <4>3. job'[j] = c
        BY <1>0, <4>2
      <4>4. lead'[l].tags = lead[l].tags /\ \A d \in Columns : d # "owner" => lead'[l][d] = lead[l][d]
        BY <1>0, <4>1, <4>2, ColumnLogged
      <4>5. TagsTold(l)'
        <5>1. TagsTold(l)
          BY <1>7, <1>m, <2>1 DEF Accounted
        <5> QED
          BY <2>1, <3>0, <4>4, <5>1, TagsKept
      <4>6. ASSUME NEW d \in Traced PROVE ColumnTold(l, d)'
        <5>1. CASE d = "owner"
          BY <3>2, <4>1, <4>3, <5>1 DEF ColumnTold
        <5>2. CASE d # "owner"
          <6>1. ColumnTold(l, d) /\ d \in Columns
            BY <1>7, <1>m, <2>1 DEF Accounted, Traced, Columns
          <6> QED
            BY <2>1, <3>0, <4>4, <5>2, <6>1, ColumnKept
        <5> QED
          BY <5>1, <5>2
      <4> QED
        BY <4>5, <4>6 DEF Accounted
    <3> QED
      BY <3>1, <3>2
  <2> QED
    BY <1>7, <2>k, <2>w DEF GiveLead
<1>8. ASSUME LogOwner(j), l \notin mixed' \cup unlogged' PROVE Accounted(l)'
  <2>1. /\ b.pc = "logOwner" /\ lead' = lead /\ mixed' = mixed /\ Logs(NULL, {b.on}, "owner", b.to)
        /\ request' = request /\ members' = members /\ products' = products
    BY <1>8, <1>r DEF LogOwner, JobAt, KeepsRows
  <2>2. unlogged \subseteq unlogged'
    BY <2>1, LogsLead
  <2>3. CASE l # b.on
    <3>1. timeline'[l] = timeline[l]
      BY <2>1, <2>3, LogsLead
    <3>2. \A i \in Jobs : job[i].pc \in {"logTag", "logOwner"} /\ job[i].on = l => job'[i] = job[i]
      BY <1>i, <2>3
    <3> QED
      BY <2>1, <2>2, <3>1, <3>2, LeadKept
  <2>4. CASE l = b.on
    <3>1. "owner" \in Columns /\ b.to \in Ranges["owner"] /\ l \notin mixed \cup unlogged
      BY <1>0, <1>8, <2>1, <2>2 DEF Ready, Ranges, Columns
    <3>2. timeline'[l] = Put(timeline[l], "owner", b.to)
      BY <1>8, <2>1, <2>4, LogsLead
    <3>3. lead[l].owner = b.to
      BY <1>0, <2>1, <2>4, <3>1 DEF FreshJob
    <3>4. /\ timeline'[l]["owner"] = b.to /\ timeline'[l].tags = timeline[l].tags
          /\ \A d \in Columns : d # "owner" => timeline'[l][d] = timeline[l][d]
      BY <1>0, <3>1, <3>2, ColumnLogged
    <3>5. TagsTold(l)'
      <4>1. TagsTold(l) /\ \A i \in Jobs : job[i].pc = "logTag" => job'[i] = job[i]
        BY <1>i, <2>1, <3>1 DEF Accounted
      <4> QED
        BY <2>1, <3>4, <4>1, TagsKept
    <3>6. ASSUME NEW d \in Traced PROVE ColumnTold(l, d)'
      <4>1. CASE d = "owner"
        BY <2>1, <3>3, <3>4, <4>1 DEF ColumnTold, Tells
      <4>2. CASE d # "owner"
        <5>1. ColumnTold(l, d) /\ d \in Columns
          BY <3>1 DEF Accounted, Traced, Columns
        <5> QED
          BY <2>1, <3>4, <4>2, <5>1, ColumnKept
      <4> QED
        BY <4>1, <4>2
    <3> QED
      BY <3>5, <3>6 DEF Accounted
  <2> QED
    BY <2>3, <2>4
<1>9. ASSUME NotifyAgent(j) PROVE Accounted(l)'
  BY <1>0, <1>9, <1>r, JobKept DEF NotifyAgent, JobAt, NoLog
<1>10. ASSUME NEW f \in Finds, Persist(j, f[1], f[2]), l \notin mixed' \cup unlogged' PROVE Accounted(l)'
  <2>1. /\ b.pc = "next" /\ timeline' = timeline /\ unlogged' = unlogged
        /\ Writes(j, {b.on}, [k \in LeadIds |-> [lead[k] EXCEPT !.fields = [b.fields EXCEPT ![f[1]] = f[2]]]])
        /\ request' = request /\ members' = members /\ products' = products
    BY <1>10, <1>r DEF Persist, JobAt, NoLog
  <2>2. \A i \in Jobs : job[i].pc \in {"logTag", "logOwner"} => job'[i] = job[i]
    BY <1>i, <2>1
  <2>3. lead'[l].tags = lead[l].tags /\ \A d \in Traced : lead'[l][d] = lead[l][d]
    <3> DEFINE fields == [b.fields EXCEPT ![f[1]] = f[2]]
    <3>1. lead'[l] = lead[l] \/ lead'[l] = PutFields(lead[l], fields)
      BY <2>1 DEF Writes, PutFields
    <3> HIDE DEF fields
    <3>2. PutFields(lead[l], fields).tags = lead[l].tags /\ \A d \in Traced : PutFields(lead[l], fields)[d] = lead[l][d]
      <4> DEFINE new == PutFields(lead[l], fields)
      <4>1. new.tags = lead[l].tags /\ \A d \in Traced : new[d] = lead[l][d]
        BY <1>0 DEF PutFields, Row, Traced
      <4> QED
        BY <4>1
    <3> QED
      BY <3>1, <3>2
  <2>4. TagsTold(l) /\ \A d \in Traced : ColumnTold(l, d)
    BY <1>10, <1>m, <2>1 DEF Accounted
  <2>5. TagsTold(l)'
    BY <2>1, <2>2, <2>3, <2>4, TagsKept
  <2>6. ASSUME NEW d \in Traced PROVE ColumnTold(l, d)'
    BY <2>1, <2>2, <2>3, <2>4, ColumnKept
  <2> QED
    BY <2>5, <2>6 DEF Accounted
<1>11. ASSUME NothingSaved(j) PROVE Accounted(l)'
  BY <1>0, <1>11, <1>r, JobKept DEF NothingSaved, JobAt, NoLog
<1> QED
  BY <1>x, <1>1, <1>2, <1>3, <1>4, <1>5, <1>6, <1>7, <1>8, <1>9, <1>10, <1>11 DEF Routes

\* What is gone leaves its column empty.
LEMMA DetachAccounts ==
  ASSUME LeadsTypeOK, NEW c \in {"owner", "product"}, NEW v, v # NULL, Detach(c, v), ~Exists(c, v)',
         members' \subseteq members, products' \subseteq products,
         request' = request, job' = job, timeline' = timeline, unlogged' = unlogged,
         NEW l \in LeadIds, Accounted(l)
  PROVE  Accounted(l)'
<1>1. mixed \subseteq mixed' /\ c \in Traced /\ c \in Columns /\ NULL \in Ranges[c] /\ lead[l] \in Row
  BY DEF Detach, Writes, Traced, Columns, Ranges, LeadsTypeOK
<1>2. CASE lead'[l] = lead[l]
  BY <1>1, <1>2, LeadKept
<1>3. CASE lead'[l] # lead[l] /\ l \notin mixed' \cup unlogged'
  <2>1. lead[l][c] = v /\ lead'[l] = Put(lead[l], c, NULL)
    BY <1>3 DEF Detach, Writes, Put
  <2>2. lead'[l][c] = NULL /\ lead'[l].tags = lead[l].tags /\ \A d \in Columns : d # c => lead'[l][d] = lead[l][d]
    BY <1>1, <2>1, ColumnLogged
  <2>3. TagsTold(l) /\ \A d \in Traced : ColumnTold(l, d)
    BY <1>1, <1>3 DEF Accounted
  <2>4. TagsTold(l)'
    BY <2>2, <2>3, TagsKept
  <2>5. ASSUME NEW d \in Traced PROVE ColumnTold(l, d)'
    <3>1. CASE d = c
      <4>1. CASE Tells(l, c)
        <5>1. timeline'[l][c] = v
          BY <2>1, <4>1 DEF Tells
        <5> QED
          BY <2>2, <3>1, <5>1 DEF ColumnTold, Tells
      <4>2. CASE ~Tells(l, c)
        BY <2>3, <3>1, <4>2 DEF ColumnTold, Logging
      <4> QED
        BY <4>1, <4>2
    <3>2. CASE d # c
      <4>1. lead'[l][d] = lead[l][d]
        BY <2>2, <3>2 DEF Traced, Columns
      <4> QED
        BY <2>3, <4>1, ColumnKept
    <3> QED
      BY <3>1, <3>2
  <2> QED
    BY <2>4, <2>5 DEF Accounted
<1> QED
  BY <1>2, <1>3 DEF Accounted

LEMMA CallsAccount ==
  ASSUME CrmInv, FreshInv, NEW d \in Calls,
         \/ \E u \in Uids : MatchBooker(d, u)
         \/ RecordBooking(d) \/ ConfirmBooking(d) \/ HookDies(d),
         NEW l \in LeadIds, Accounted(l)
  PROVE  Accounted(l)'
<1> DEFINE c == call[d]
<1>0. /\ LeadsTypeOK /\ AppointmentsTypeOK /\ lead[l] \in Row /\ timeline[l] \in Row
      /\ request' = request /\ job' = job /\ UNCHANGED <<members, products, unlogged>>
  BY CallsKeepTasks DEF CrmInv, LeadsInv, MeetingsInv, LeadsTypeOK
<1>m. mixed \subseteq mixed'
  BY <1>0, CallsKeepFresh DEF Moves
<1>k. ASSUME lead'[l] = lead[l], timeline'[l] = timeline[l] PROVE Accounted(l)'
  BY <1>0, <1>m, <1>k, LeadKept
<1>1. ASSUME NEW u, MatchBooker(d, u) PROVE Accounted(l)'
  BY <1>k, <1>1 DEF MatchBooker, KeepsRows
<1>2. ASSUME ConfirmBooking(d) PROVE Accounted(l)'
  BY <1>k, <1>2 DEF ConfirmBooking, leadsVars, rowVars
<1>3. ASSUME HookDies(d) PROVE Accounted(l)'
  BY <1>k, <1>3 DEF HookDies, KeepsRows
<1>4. ASSUME RecordBooking(d), l \notin mixed' \cup unlogged' PROVE Accounted(l)'
  <2>1. CASE KeepsRows /\ timeline' = timeline
    BY <1>k, <2>1 DEF KeepsRows
  <2>2. CASE /\ \E ls : /\ Writes(d, ls, [k \in LeadIds |-> [lead[k] EXCEPT !.status = "MEETING_SET"]])
                        /\ ls = IF c.advance THEN {c.lead} ELSE {}
             /\ timeline' = IF c.advance THEN [timeline EXCEPT ![c.lead].status = "MEETING_SET"] ELSE timeline
    <3>1. CASE ~(c.advance /\ l = c.lead)
      <4>1. lead'[l] = lead[l]
        BY <2>2, <3>1 DEF Writes
      <4>2. timeline'[l] = timeline[l]
        BY <1>0, <2>2, <3>1 DEF LeadsTypeOK
      <4> QED
        BY <1>k, <4>1, <4>2
    <3>2. CASE c.advance /\ l = c.lead
      <4>1. lead'[l] = Put(lead[l], "status", "MEETING_SET")
        BY <2>2, <3>2 DEF Writes, Put
      <4>2. timeline'[l] = Put(timeline[l], "status", "MEETING_SET")
        BY <1>0, <2>2, <3>2 DEF LeadsTypeOK, Put
      <4>3. "status" \in Columns /\ "MEETING_SET" \in Ranges["status"]
        BY DEF Columns, Ranges, Statuses
      <4>4. /\ lead'[l]["status"] = "MEETING_SET" /\ lead'[l].tags = lead[l].tags
            /\ \A k \in Columns : k # "status" => lead'[l][k] = lead[l][k]
        BY <1>0, <4>1, <4>3, ColumnLogged
      <4>5. /\ timeline'[l]["status"] = "MEETING_SET" /\ timeline'[l].tags = timeline[l].tags
            /\ \A k \in Columns : k # "status" => timeline'[l][k] = timeline[l][k]
        BY <1>0, <4>2, <4>3, ColumnLogged
      <4>6. TagsTold(l) /\ \A k \in Traced : ColumnTold(l, k)
        BY <1>0, <1>4, <1>m DEF Accounted
      <4>7. TagsTold(l)'
        BY <1>0, <4>4, <4>5, <4>6, TagsKept
      <4>8. ASSUME NEW k \in Traced PROVE ColumnTold(l, k)'
        <5>1. CASE k = "status"
          BY <4>4, <4>5, <5>1 DEF ColumnTold, Tells
        <5>2. CASE k # "status"
          <6>1. lead'[l][k] = lead[l][k] /\ timeline'[l][k] = timeline[l][k]
            BY <4>4, <4>5, <5>2 DEF Traced, Columns
          <6> QED
            BY <1>0, <4>6, <6>1, ColumnKept
        <5> QED
          BY <5>1, <5>2
      <4> QED
        BY <4>7, <4>8 DEF Accounted
    <3> QED
      BY <3>1, <3>2
  <2> QED
    BY <1>4, <2>1, <2>2 DEF RecordBooking
<1> QED
  BY <1>1, <1>2, <1>3, <1>4 DEF Accounted

LEMMA NextAccounts ==
  ASSUME CrmInv, FreshInv, [Next]_vars, NEW l \in LeadIds, Accounted(l)
  PROVE  Accounted(l)'
<1>0. LeadsInv /\ LeadsTypeOK /\ AppointmentsTypeOK
  BY DEF CrmInv, LeadsInv, MeetingsInv
<1>k. ASSUME UNCHANGED <<rowVars, request, job, members, products>> PROVE Accounted(l)'
  BY <1>k, LeadKept DEF rowVars
<1>1. ASSUME LeadsNext, UNCHANGED apptVars PROVE Accounted(l)'
  <2>1. ASSUME NEW u, NEW n, DeleteNote(u, n) PROVE Accounted(l)'
    BY <1>k, <2>1 DEF DeleteNote, RequestRest, botVars
  <2>2. ASSUME NEW u \in Users, RemoveMember(u) PROVE Accounted(l)'
    <3>1. /\ Detach("owner", u) /\ members' \subseteq members /\ products' = products /\ u \notin members'
          /\ request' = request /\ job' = job /\ timeline' = timeline /\ unlogged' = unlogged /\ u # NULL
      BY <2>2, LeadsAssumption DEF RemoveMember, RequestRest, botVars
    <3>2. ~Exists("owner", u)'
      BY <3>1 DEF Exists
    <3> QED
      BY <1>0, <3>1, <3>2, DetachAccounts
  <2>3. ASSUME NEW p \in Products, DeleteProduct(p) PROVE Accounted(l)'
    <3>1. /\ Detach("product", p) /\ products' \subseteq products /\ members' = members /\ p \notin products'
          /\ request' = request /\ job' = job /\ timeline' = timeline /\ unlogged' = unlogged /\ p # NULL
      BY <2>3, LeadsAssumption DEF DeleteProduct, RequestRest, botVars
    <3>2. ~Exists("product", p)'
      BY <3>1 DEF Exists
    <3> QED
      BY <1>0, <3>1, <3>2, DetachAccounts
  <2> QED
    BY <1>0, <1>1, <2>1, <2>2, <2>3, EditsAccount, RoutesAccount DEF LeadsNext
<1>2. ASSUME FollowUpsNext PROVE Accounted(l)'
  <2>1. ChaseRest
    BY <1>2 DEF FollowUpsNext, Answer, TimePasses, Chases, StartSweep, Nudge, CountNudge, EndSweep, WorkerDies
  <2> QED
    BY <1>k, <2>1 DEF ChaseRest, botVars, teamVars
<1>3. ASSUME BotNext \/ CalcomNext PROVE Accounted(l)'
  <2>1. \/ UNCHANGED <<rowVars, request, job, members, products>>
        \/ \E d \in Calls : \/ \E u \in Uids : MatchBooker(d, u)
                            \/ RecordBooking(d) \/ ConfirmBooking(d) \/ HookDies(d)
    BY <1>3, MeetingsAlone DEF CalcomNext
  <2> QED
    BY <1>k, <2>1, CallsAccount
<1>4. ASSUME UNCHANGED vars PROVE Accounted(l)'
  BY <1>k, <1>4 DEF vars, leadsVars, botVars, teamVars
<1> QED
  BY <1>1, <1>2, <1>3, <1>4 DEF Next

\* TimelineAccounts (Leads): where nobody is at work, the timeline of a lead ends
\* at what the lead shows, unless two wrote it at once or an entry was lost.
THEOREM TimelineIsComplete == Spec => []TimelineAccounts
<1>1. Init => CrmInv /\ FreshInv /\ \A l \in LeadIds : Accounted(l)
  <2>1. Init => \A l \in LeadIds : Accounted(l)
    BY DEF Init, LeadsInit, Accounted, TagsTold, ColumnTold, Tells
  <2> QED
    BY <2>1, InitTypes, InitFresh
<1>2. CrmInv /\ FreshInv /\ (\A l \in LeadIds : Accounted(l)) /\ [Next]_vars =>
        CrmInv' /\ FreshInv' /\ (\A l \in LeadIds : Accounted(l))'
  BY NextTypes, NextFresh, NextAccounts
<1>3. CrmInv /\ FreshInv /\ (\A l \in LeadIds : Accounted(l)) => TimelineAccounts
  <2> SUFFICES ASSUME CrmInv, FreshInv, \A l \in LeadIds : Accounted(l),
                      NEW l \in LeadIds \ (mixed \cup unlogged), reading[l] = {}
               PROVE  /\ \A c \in {"status", "owner", "product"} :
                           lead[l][c] = timeline[l][c] \/ (lead[l][c] = NULL /\ ~Exists(c, timeline[l][c]))
                      /\ lead[l].tags = timeline[l].tags
    BY DEF TimelineAccounts
  <2>1. \A r \in Requests : ~Logging(r, l)
    BY DEF FreshInv, FreshRequest, Logging
  <2>2. \A j \in Jobs : ~(job[j].pc \in {"logTag", "logOwner"} /\ job[j].on = l)
    BY DEF FreshInv, FreshJob
  <2>3. TagsTold(l) /\ \A c \in Traced : ColumnTold(l, c)
    BY DEF Accounted
  <2> QED
    BY <2>1, <2>2, <2>3 DEF TagsTold, ColumnTold, Tells, Traced
<1> QED
  BY <1>1, <1>2, <1>3, PTL DEF Spec

-------------------------------------------------------------------------------
(* The form of the lead page *)

\* The parts of a page, with a text for every name of a field.
Tab(q) == /\ DOMAIN q = {"on", "typed", "offers", "touched", "aged", "broken"}
          /\ DOMAIN q.typed = FieldNames

\* A control that was not touched, of an answer that has not changed since the
\* page was rendered and fits on one line, holds what the form shows now.
Faithful(q) ==
  \A k \in FieldNames :
    k \in q.on \ (q.touched \cup q.aged \cup q.broken) => ~Differs(k, q.typed[k])

PagesInv ==
  /\ page = [p \in Pages |-> page[p]]
  /\ \A p \in Pages : Tab(page[p]) /\ Faithful(page[p])

LEMMA ClosedTab == Tab(Closed) /\ Faithful(Closed) /\ Closed.on = {}
BY DEF Tab, Faithful, Closed

\* What is rendered is what the form shows, but for texts of several lines.
LEMMA RendersFaithfully ==
  ASSUME NEW k, OneLine[FieldInputValue(SpecOf(k), bag[k])] = FieldInputValue(SpecOf(k), bag[k])
                  \/ SpecOf(k).choices # {} \/ bag[k] = Unset
  PROVE  Shown(SpecOf(k), bag[k]) = FieldInputValue(SpecOf(k), bag[k])
<1> DEFINE t == FieldInputValue(SpecOf(k), bag[k])
<1>1. Representable(FieldInputType(SpecOf(k), bag[k]), t)
  <2>1. CASE SpecOf(k).expect \in {"number", "date"} /\ Representable(SpecOf(k).expect, t)
    BY <2>1 DEF FieldInputType
  <2>2. CASE ~(SpecOf(k).expect \in {"number", "date"} /\ Representable(SpecOf(k).expect, t))
    <3>1. FieldInputType(SpecOf(k), bag[k]) = "text"
      BY <2>2 DEF FieldInputType
    <3> QED
      BY <3>1 DEF Representable
  <2> QED
    BY <2>1, <2>2
<1>2. bag[k] = Unset => t = ""
  <2>1. Unset.text = ""
    BY DEF Unset
  <2> QED
    BY <2>1 DEF FieldInputValue
<1> HIDE DEF t
<1>3. Shown(SpecOf(k), bag[k]) = t
  <2>1. CASE SpecOf(k).choices # {}
    BY <1>1, <2>1 DEF Shown, t
  <2>2. CASE SpecOf(k).choices = {} /\ t = ""
    BY <1>1, <2>2 DEF Shown, t
  <2>3. CASE SpecOf(k).choices = {} /\ t # ""
    <3>1. OneLine[t] = t
      BY <1>2, <2>3 DEF t
    <3> QED
      BY <1>1, <2>3, <3>1 DEF Shown, t
  <2> QED
    BY <2>1, <2>2, <2>3
<1> QED
  BY <1>3 DEF t

LEMMA SameColumns ==
  ASSUME scenario' = scenario
  PROVE  \A k : SpecOf(k)' = SpecOf(k)
BY DEF SpecOf, Specs

LEMMA OpenPageFaithful ==
  ASSUME PagesInv, NEW p \in Pages, OpenPage(p)
  PROVE  PagesInv'
<1> DEFINE rows == Known \cup Extras
           q == [on |-> rows, touched |-> {}, aged |-> {},
                 typed |-> [k \in FieldNames |->
                              IF k \in rows THEN Shown(SpecOf(k), bag[k]) ELSE ""],
                 offers |-> [k \in FieldNames |->
                              IF k \in rows THEN Typeable(SpecOf(k), bag[k]) ELSE {}],
                 broken |-> {k \in rows :
                               SpecOf(k).choices = {} /\ bag[k] # Unset
                                 /\ LET t == FieldInputValue(SpecOf(k), bag[k])
                                    IN  OneLine[t] # t}]
<1>1. page' = [page EXCEPT ![p] = q]
  BY DEF OpenPage
<1>2. Tab(q)
  BY DEF Tab
<1>3. ASSUME NEW k \in FieldNames, k \in q.on, k \notin q.broken
      PROVE  q.typed[k] = FieldInputValue(SpecOf(k), bag[k])
  <2>1. q.typed[k] = Shown(SpecOf(k), bag[k])
    BY <1>3
  <2>2. OneLine[FieldInputValue(SpecOf(k), bag[k])] = FieldInputValue(SpecOf(k), bag[k])
          \/ SpecOf(k).choices # {} \/ bag[k] = Unset
    BY <1>3
  <2> QED
    BY <2>1, <2>2, RendersFaithfully
<1>4. Faithful(q)
  BY <1>3 DEF Faithful, Differs
<1> HIDE DEF q
<1>5. bag' = bag /\ scenario' = scenario
  BY DEF OpenPage, scenarioVars
<1>6. \A r : Faithful(r) => Faithful(r)'
  BY <1>5 DEF Faithful, Differs, SpecOf, Specs
<1> QED
  BY <1>1, <1>2, <1>4, <1>6 DEF PagesInv

LEMMA TypeFaithful ==
  ASSUME PagesInv, NEW p \in Pages, NEW k, NEW t, Type(p, k, t)
  PROVE  PagesInv'
<1> DEFINE q == [page[p] EXCEPT !.typed[k] = t, !.touched = @ \cup {k}]
<1>1. /\ page' = [page EXCEPT ![p] = q]
      /\ bag' = bag /\ scenario' = scenario
  BY DEF Type, scenarioVars
<1>2. Tab(page[p]) /\ Faithful(page[p])
  BY DEF PagesInv
<1>3. /\ q.on = page[p].on /\ q.touched = page[p].touched \cup {k}
      /\ q.aged = page[p].aged /\ q.broken = page[p].broken
      /\ q.typed = [page[p].typed EXCEPT ![k] = t]
      /\ DOMAIN q = DOMAIN page[p]
  BY <1>2 DEF Tab
<1> HIDE DEF q
<1>5. /\ DOMAIN q.typed = FieldNames
      /\ \A j \in FieldNames : j # k => q.typed[j] = page[p].typed[j]
  BY <1>2, <1>3 DEF Tab
<1>6. Tab(q)
  BY <1>2, <1>3, <1>5 DEF Tab
<1>7. Faithful(q)
  BY <1>2, <1>3, <1>5 DEF Faithful
<1>8. \A r : Faithful(r) => Faithful(r)'
  BY <1>1, SameColumns DEF Faithful, Differs
<1> QED
  BY <1>1, <1>6, <1>7, <1>8 DEF PagesInv

\* A page that ages is faithful still: the answers and columns that changed are
\* among those that have aged.
LEMMA AgedFaithful ==
  ASSUME NEW q, Tab(q), Faithful(q), NEW r, NEW more,
         r = [q EXCEPT !.aged = @ \cup more],
         \A k \in FieldNames : k \in q.on \ more =>
           bag'[k] = bag[k] /\ SpecOf(k)' = SpecOf(k)
  PROVE  Tab(r) /\ Faithful(r)' /\ r.on = q.on
<1>1. /\ r.on = q.on /\ r.typed = q.typed /\ r.touched = q.touched
      /\ r.aged = q.aged \cup more /\ r.broken = q.broken
      /\ DOMAIN r = DOMAIN q
  BY DEF Tab
<1>2. Tab(r)
  BY <1>1 DEF Tab
<1>3. ASSUME NEW k \in FieldNames, k \in r.on \ (r.touched \cup r.aged \cup r.broken)
      PROVE  r.typed[k] = FieldInputValue(SpecOf(k)', bag'[k])
  <2>1. k \in q.on \ more /\ ~Differs(k, q.typed[k])
    BY <1>1, <1>3 DEF Faithful
  <2> QED
    BY <1>1, <2>1 DEF Differs
<1>4. Faithful(r)'
  BY <1>3 DEF Faithful, Differs
<1> QED
  BY <1>1, <1>2, <1>4

LEMMA AgesFaithful ==
  ASSUME PagesInv, Ages
  PROVE  PagesInv' /\ \A p \in Pages : page'[p].on = page[p].on
<1>1. PICK columns \in {SchemaOf(row) : row \in {scenario'}} :
        page' = [p \in Pages |-> [page[p] EXCEPT
                   !.aged = @ \cup {k \in page[p].on :
                                      bag'[k] # bag[k] \/ SpecIn(columns, k) # SpecOf(k)}]]
  BY DEF Ages
<1>2. \A k : SpecOf(k)' = SpecIn(columns, k)
  BY <1>1 DEF SpecOf, Specs
<1>3. ASSUME NEW p \in Pages, NEW q, NEW r, NEW more, q = page[p], r = page'[p],
             more = {k \in q.on : bag'[k] # bag[k] \/ SpecIn(columns, k) # SpecOf(k)}
      PROVE  Tab(r) /\ Faithful(r)' /\ r.on = q.on
  <2>1. r = [q EXCEPT !.aged = @ \cup more]
    BY <1>1, <1>3
  <2>2. Tab(q) /\ Faithful(q)
    BY <1>3 DEF PagesInv
  <2>3. \A k \in FieldNames : k \in q.on \ more => bag'[k] = bag[k] /\ SpecOf(k)' = SpecOf(k)
    BY <1>2, <1>3
  <2> QED
    BY <2>1, <2>2, <2>3, AgedFaithful
<1>4. ASSUME NEW p \in Pages
      PROVE  Tab(page'[p]) /\ Faithful(page[p])' /\ page'[p].on = page[p].on
  BY <1>3 DEF Faithful
<1> QED
  BY <1>1, <1>4 DEF PagesInv

LEMMA SaveFieldsFaithful ==
  ASSUME PagesInv, NEW p \in Pages, SaveFields(p)
  PROVE  /\ PagesInv'
         /\ \A q \in Pages : q # p => page'[q].on = page[q].on
         /\ \A k \in FieldNames : bag'[k] # bag[k] =>
              k \in page[p].on /\ Differs(k, page[p].typed[k])
<1>1. /\ page' = [q \in Pages |->
                    IF q = p THEN Closed
                    ELSE [page[q] EXCEPT !.aged = @ \cup {k \in page[q].on : bag'[k] # bag[k]}]]
      /\ bag' = [k \in FieldNames |-> IF k \in page[p].on /\ k \in Known \cup Held
                                      THEN SaveField(k, page[p].typed[k]) ELSE bag[k]]
      /\ scenario' = scenario
  BY DEF SaveFields, scenarioVars
<1>2. \A k : SpecOf(k)' = SpecOf(k)
  BY <1>1, SameColumns
<1>3. ASSUME NEW v \in Pages, NEW q, NEW r, NEW more, v # p, q = page[v], r = page'[v],
             more = {k \in q.on : bag'[k] # bag[k]}
      PROVE  Tab(r) /\ Faithful(r)' /\ r.on = q.on
  <2>1. r = [q EXCEPT !.aged = @ \cup more]
    BY <1>1, <1>3
  <2>2. Tab(q) /\ Faithful(q)
    BY <1>3 DEF PagesInv
  <2>3. \A k \in FieldNames : k \in q.on \ more => bag'[k] = bag[k] /\ SpecOf(k)' = SpecOf(k)
    BY <1>2, <1>3
  <2> QED
    BY <2>1, <2>2, <2>3, AgedFaithful
<1>4. ASSUME NEW v \in Pages, v # p
      PROVE  Tab(page'[v]) /\ Faithful(page[v])' /\ page'[v].on = page[v].on
  BY <1>3, <1>4 DEF Faithful
<1>5. Tab(page'[p]) /\ Faithful(page[p])'
  <2>1. page'[p] = Closed /\ Closed.on = {}
    BY <1>1, ClosedTab
  <2> QED
    BY <2>1, ClosedTab DEF Faithful
<1>6. PagesInv'
  BY <1>1, <1>4, <1>5 DEF PagesInv
<1>7. ASSUME NEW k \in FieldNames, bag'[k] # bag[k]
      PROVE  k \in page[p].on /\ Differs(k, page[p].typed[k])
  BY <1>1, <1>7 DEF SaveField
<1> QED
  BY <1>4, <1>6, <1>7

\* What a step does to the pages, and what it changes of the answers when it
\* closes one.
LEMMA FormsStep ==
  ASSUME PagesInv, [FormsNext]_<<scenarioVars, formVars>>
  PROVE  /\ PagesInv'
         /\ \A p \in Pages, k \in FieldNames :
              page[p].on # {} /\ page'[p] = Closed /\ bag'[k] # bag[k] =>
                k \in page[p].on /\ Differs(k, page[p].typed[k])
<1>1. ASSUME NEW p \in Pages, OpenPage(p) PROVE PagesInv' /\ bag' = bag
  BY <1>1, OpenPageFaithful DEF OpenPage
<1>2. ASSUME NEW p \in Pages, NEW k \in FieldNames, NEW t \in Blanks, Type(p, k, t)
      PROVE  PagesInv' /\ bag' = bag
  BY <1>2, TypeFaithful DEF Type
<1>3. ASSUME NEW p \in Pages, SaveFields(p)
      PROVE  /\ PagesInv'
             /\ \A q \in Pages, k \in FieldNames :
                  page[q].on # {} /\ page'[q] = Closed /\ bag'[k] # bag[k] =>
                    k \in page[q].on /\ Differs(k, page[q].typed[k])
  <2>1. \A q \in Pages : page[q].on # {} /\ page'[q] = Closed => q = p
    BY <1>3, SaveFieldsFaithful, ClosedTab
  <2> QED
    BY <1>3, <2>1, SaveFieldsFaithful
<1>4. ASSUME Ages
      PROVE  PagesInv' /\ \A q \in Pages : ~(page[q].on # {} /\ page'[q] = Closed)
  BY <1>4, AgesFaithful, ClosedTab
<1>5. CASE BotSaves
  <2>1. Ages
    BY <1>5 DEF BotSaves, Stores
  <2> QED
    BY <1>4, <2>1
<1>6. CASE EditorNext /\ UNCHANGED <<bag, answers>> /\ Ages
  BY <1>4, <1>6
<1>7. CASE UNCHANGED <<scenarioVars, formVars>>
  <2>1. page' = page /\ bag' = bag /\ scenario' = scenario
    BY <1>7 DEF scenarioVars, formVars
  <2>2. \A k : SpecOf(k)' = SpecOf(k)
    BY <2>1, SameColumns
  <2>3. ASSUME NEW p \in Pages PROVE Faithful(page[p])'
    BY <2>1, <2>2 DEF PagesInv, Faithful, Differs
  <2> QED
    BY <2>1, <2>3 DEF PagesInv, Tab
<1> QED
  BY <1>1, <1>2, <1>3, <1>5, <1>6, <1>7 DEF FormsNext

\* An agent's save changes only the answers whose controls the agent touched, but
\* for answers and columns that changed under the open page and texts of several
\* lines; for every scenario, every schema derived from it, and any number of
\* pages open at once (leads/actions.ts, saveFieldsAction).
THEOREM SavesOnlyWhatWasTouched == FormsSpec => OnlyTouchedChange
<1>1. FormsInit => PagesInv
  <2> SUFFICES ASSUME FormsInit PROVE PagesInv
    OBVIOUS
  <2>1. page = [p \in Pages |-> Closed]
    BY DEF FormsInit
  <2> QED
    BY <2>1, ClosedTab DEF PagesInv
<1>2. PagesInv /\ [FormsNext]_<<scenarioVars, formVars>> => PagesInv'
  BY FormsStep
<1>3. PagesInv /\ [FormsNext]_<<scenarioVars, formVars>> =>
        \A p \in Pages : \A k \in FieldNames :
          /\ page[p].on # {} /\ page'[p] = Closed /\ bag'[k] # bag[k]
          => k \in page[p].touched \cup page[p].aged \cup page[p].broken
  BY FormsStep DEF PagesInv, Faithful
<1> QED
  BY <1>1, <1>2, <1>3, PTL DEF FormsSpec, OnlyTouchedChange

-------------------------------------------------------------------------------
(* Walks of a bounded number of turns *)

\* A nonempty set of naturals has a least element.
LEMMA LeastNatural ==
  ASSUME NEW S, S \subseteq Nat, S # {}
  PROVE  \E n \in S : \A m \in S : n <= m
<1>1. PICK n \in S : \A m \in S : ~(<<m, n>> \in OpToRel(<, Nat))
  BY NatLessThanWellFounded, WFMin
<1>2. ASSUME NEW m \in S PROVE n <= m
  <2>1. m \in Nat /\ n \in Nat
    OBVIOUS
  <2>2. ~(<<m, n>> \in OpToRel(<, Nat))
    BY <1>1, Zenon
  <2>3. ~(m < n)
    BY <2>1, <2>2 DEF OpToRel
  <2> QED
    BY <2>1, <2>3
<1> QED
  BY <1>2

\* What holds of turn 0, and of a turn when it holds of the one before, holds of
\* all of them.
LEMMA EveryTurn ==
  ASSUME NEW n \in Nat, NEW S, 0 \in S, \A m \in 1..n : m - 1 \in S => m \in S
  PROVE  0..n \subseteq S
<1> DEFINE missed == (0..n) \ S
<1> SUFFICES ASSUME missed # {} PROVE FALSE
  OBVIOUS
<1>1. PICK m \in missed : \A k \in missed : m <= k
  <2>1. missed \subseteq Nat
    OBVIOUS
  <2> QED
    BY <2>1, LeastNatural
<1>2. m \in 1..n
  OBVIOUS
<1>3. m - 1 \in 0..n /\ ~(m <= m - 1)
  BY <1>2
<1>4. m - 1 \in S
  BY <1>1, <1>3
<1> QED
  BY <1>2, <1>4

\* The walks of n turns from base, turn m leading from s to step[m][s].
Turns(n, S, step) == \A m \in 1..n, s \in S : step[m][s] \in S
Walks(n, S, base, step) ==
  {walk \in [0..n -> S] : walk[0] = base /\ \A m \in 1..n : walk[m] = step[m][walk[m - 1]]}

\* There is one when no turn leads out of S.
LEMMA WalkExists ==
  ASSUME NEW S, NEW n \in Nat, NEW base \in S, NEW step, Turns(n, S, step)
  PROVE  Walks(n, S, base, step) # {}
<1> DEFINE Follows(walk, m) == /\ walk[0] = base
                               /\ \A k \in 1..m : walk[k] = step[k][walk[k - 1]]
           some == {m \in 0..n : \E walk \in [0..m -> S] : Follows(walk, m)}
<1>1. 0 \in some
  <2> DEFINE walk == [k \in 0..0 |-> base]
  <2>1. walk \in [0..0 -> S] /\ walk[0] = base
    OBVIOUS
  <2>2. \A k \in 1..0 : FALSE
    OBVIOUS
  <2> HIDE DEF walk
  <2>3. Follows(walk, 0)
    BY <2>1, <2>2
  <2>4. 0 \in 0..n
    OBVIOUS
  <2> QED
    BY <2>1, <2>3, <2>4
<1>2. ASSUME NEW m \in 1..n, m - 1 \in some PROVE m \in some
  <2>1. m \in Nat /\ m - 1 \in Nat /\ m \in 0..n /\ m # 0
    OBVIOUS
  <2>2. PICK walk \in [0..(m - 1) -> S] : Follows(walk, m - 1)
    BY <1>2
  <2> DEFINE longer == [k \in 0..m |-> IF k = m THEN step[m][walk[m - 1]] ELSE walk[k]]
  <2>3. \A k \in 0..m : k # m => k \in 0..(m - 1)
    BY <2>1
  <2>4. walk[m - 1] \in S
    BY <2>1
  <2>5. step[m][walk[m - 1]] \in S
    BY <2>4 DEF Turns
  <2>6. longer \in [0..m -> S]
    BY <2>3, <2>5
  <2>7. longer[0] = base
    BY <2>1, <2>2
  <2>8. ASSUME NEW k \in 1..m PROVE longer[k] = step[k][longer[k - 1]]
    <3>1. k - 1 \in 0..m /\ k - 1 # m /\ k \in 0..m
      BY <2>1
    <3>2. longer[k - 1] = walk[k - 1]
      BY <3>1
    <3>3. CASE k = m
      BY <3>1, <3>2, <3>3
    <3>4. CASE k # m
      <4>1. k \in 1..(m - 1)
        BY <2>1, <3>4
      <4>2. walk[k] = step[k][walk[k - 1]]
        BY <2>2, <4>1
      <4> QED
        BY <3>1, <3>2, <3>4, <4>2
    <3> QED
      BY <3>3, <3>4
  <2> HIDE DEF longer
  <2>9. Follows(longer, m)
    BY <2>7, <2>8
  <2> QED
    BY <2>1, <2>6, <2>9
<1>3. n \in some
  <2>1. 0..n \subseteq some
    <3> HIDE DEF some
    <3> QED
      BY <1>1, <1>2, EveryTurn
  <2> QED
    BY <2>1
<1>4. PICK walk \in [0..n -> S] : Follows(walk, n)
  BY <1>3
<1> QED
  BY <1>4 DEF Walks

-------------------------------------------------------------------------------
(* A scenario while it is written *)

Step == NodeIds \X Node
Along == [cur: NodeOrNone, seen: SUBSET NodeIds, shown: Seq(Step)]

LEMMA FewNodes ==
  ASSUME NEW def, IsScript(def)
  PROVE  IsFiniteSet(DOMAIN def.nodes) /\ Cardinality(DOMAIN def.nodes) \in Nat
BY FS_Subset, FS_CardinalityType, EditorAssumption DEF IsScript, EditorAssumption

LEMMA BlankType == \A kind \in StepKinds : Blank(kind) \in Node
BY EditorAssumption DEF Blank, Node, NodeKinds, NodeOrNone, Expects, EditorAssumption

LEMMA PassType ==
  ASSUME NEW def, IsScript(def), NEW walk \in Along
  PROVE  Pass(def, walk) \in Along
<1>1. CASE walk.cur \notin DOMAIN def.nodes \ walk.seen
  BY <1>1 DEF Pass
<1>2. CASE walk.cur \in DOMAIN def.nodes \ walk.seen
  <2> DEFINE node == def.nodes[walk.cur]
             shown == <<walk.cur, [node EXCEPT !.next = None, !.other = None]>>
  <2>1. walk.cur \in NodeIds /\ node \in Node
    BY <1>2 DEF IsScript
  <2>2. After(node) \in NodeOrNone
    BY <2>1 DEF After, Node
  <2>3. shown \in Step
    <3>1. [node EXCEPT !.next = None, !.other = None] \in Node
      BY <2>1 DEF Node, NodeOrNone
    <3> QED
      BY <2>1, <3>1 DEF Step
  <2>4. /\ walk.shown \in Seq(Step) /\ Append(walk.shown, shown) \in Seq(Step)
        /\ walk.seen \cup {walk.cur} \in SUBSET NodeIds
    BY <2>1, <2>3 DEF Along
  <2>5. Pass(def, walk) = [cur |-> After(node), seen |-> walk.seen \cup {walk.cur},
                           shown |-> IF node.kind \in StepKinds THEN Append(walk.shown, shown) ELSE walk.shown]
    BY <1>2 DEF Pass
  <2> HIDE DEF node, shown
  <2> QED
    BY <2>2, <2>4, <2>5 DEF Along
<1> QED
  BY <1>1, <1>2

\* The line as the editor walks it, turn by turn.
PassTurns(def) == Cardinality(DOMAIN def.nodes)
Start(def) == [cur |-> def.start, seen |-> {}, shown |-> << >>]
Passes(def, walk) ==
  /\ walk[0] = Start(def) /\ DefToSteps(def) = walk[PassTurns(def)].shown
  /\ \A n \in 1..PassTurns(def) : walk[n] = Pass(def, walk[n - 1])
  /\ \A n \in 0..PassTurns(def) : walk[n] \in Along

LEMMA PassesExist ==
  ASSUME NEW def, IsScript(def)
  PROVE  PassTurns(def) \in Nat /\ \E walk : Passes(def, walk)
<1> DEFINE turns == PassTurns(def)
           base == Start(def)
           Is(f) == f = [n \in 0..turns |-> IF n = 0 THEN base ELSE Pass(def, f[n - 1])]
           walk == CHOOSE f : Is(f)
           step == [m \in 1..turns |-> [w \in Along |-> Pass(def, w)]]
<1>1. turns \in Nat
  BY FewNodes DEF PassTurns
<1>2. base \in Along
  BY DEF Along, IsScript, NodeOrNone, Start
<1>3. DefToSteps(def) = walk[turns].shown
  BY DEF DefToSteps, PassTurns, Start
<1> HIDE DEF turns, base
<1>4. Turns(turns, Along, step)
  BY PassType DEF Turns
<1>5. \E f : Is(f)
  <2>1. \A m \in 1..turns, w \in Along : step[m][w] = Pass(def, w)
    OBVIOUS
  <2> HIDE DEF step
  <2> PICK f \in Walks(turns, Along, base, step) : TRUE
    BY <1>1, <1>2, <1>4, WalkExists
  <2>2. /\ f \in [0..turns -> Along] /\ f[0] = base
        /\ \A m \in 1..turns : f[m] = step[m][f[m - 1]]
    BY DEF Walks
  <2> DEFINE again == [m \in 0..turns |-> IF m = 0 THEN base ELSE Pass(def, f[m - 1])]
  <2>3. ASSUME NEW m \in 0..turns PROVE f[m] = again[m]
    <3>1. CASE m # 0
      <4>1. m \in 1..turns /\ m - 1 \in 0..turns
        BY <1>1, <3>1
      <4> QED
        BY <2>1, <2>2, <3>1, <4>1
    <3>2. CASE m = 0
      BY <2>2, <3>2
    <3> QED
      BY <3>1, <3>2
  <2>4. f = [m \in 0..turns |-> f[m]] /\ again = [m \in 0..turns |-> again[m]]
    BY <2>2
  <2>5. f = again
    <3> HIDE DEF again
    <3> QED
      BY <2>3, <2>4
  <2> QED
    BY <2>5
<1>6. Is(walk)
  BY <1>5
<1> HIDE DEF walk
<1> DEFINE good == {n \in 0..turns : walk[n] \in Along}
<1>7. 0 \in good
  BY <1>1, <1>2, <1>6
<1>8. ASSUME NEW m \in 1..turns PROVE m \in 0..turns /\ walk[m] = Pass(def, walk[m - 1])
  <2>1. m \in 0..turns /\ m # 0
    BY <1>1
  <2> QED
    BY <1>6, <2>1
<1>9. ASSUME NEW m \in 1..turns, m - 1 \in good PROVE m \in good
  BY <1>8, <1>9, PassType
<1>10. 0..turns \subseteq good
  <2> HIDE DEF good
  <2> QED
    BY <1>1, <1>7, <1>9, EveryTurn
<1>11. walk[0] = base
  BY <1>1, <1>6
<1>12. Passes(def, walk)
  BY <1>3, <1>8, <1>10, <1>11 DEF Passes, turns, base
<1> QED
  BY <1>1, <1>12 DEF turns

\* The editor shows steps, whatever the graph.
LEMMA DefToStepsType ==
  ASSUME NEW def, IsScript(def)
  PROVE  DefToSteps(def) \in Seq(Step)
<1> PICK walk : Passes(def, walk)
  BY PassesExist
<1>1. PassTurns(def) \in Nat
  BY PassesExist
<1>2. walk[PassTurns(def)] \in Along /\ DefToSteps(def) = walk[PassTurns(def)].shown
  BY <1>1 DEF Passes
<1> QED
  BY <1>2 DEF Along

\* What is saved is a script, each step leading to the next one.
LEMMA StepsToDefType ==
  ASSUME NEW seq \in Seq(Step)
  PROVE  IsScript(StepsToDef(seq))
<1> DEFINE at(id) == CHOOSE j \in DOMAIN seq : seq[j][1] = id
           node(id) == [seq[at(id)][2] EXCEPT
                          !.next = IF at(id) = Len(seq) THEN None ELSE seq[at(id) + 1][1],
                          !.field = IF seq[at(id)][2].kind = "question" THEN Named(@) ELSE ""]
           ids == {seq[i][1] : i \in DOMAIN seq}
<1>1. \A i \in DOMAIN seq : seq[i] \in Step /\ seq[i][1] \in NodeIds /\ seq[i][2] \in Node
  BY DEF Step
<1>2. ASSUME NEW id \in ids PROVE node(id) \in Node
  <2>1. at(id) \in DOMAIN seq
    OBVIOUS
  <2> DEFINE i == at(id)
             n == seq[i][2]
             next == IF i = Len(seq) THEN None ELSE seq[i + 1][1]
             field == IF n.kind = "question" THEN Named(n.field) ELSE ""
  <2>2. n \in Node
    BY <1>1, <2>1
  <2> HIDE DEF at
  <2>3. next \in NodeOrNone
    <3>1. CASE i = Len(seq)
      BY <3>1 DEF NodeOrNone
    <3>2. CASE i # Len(seq)
      <4>1. i + 1 \in DOMAIN seq
        BY <2>1, <3>2
      <4> QED
        BY <1>1, <3>2, <4>1 DEF NodeOrNone
    <3> QED
      BY <3>1, <3>2
  <2>4. field \in FieldNames \cup {""}
    BY <2>2, EditorAssumption DEF Named, Node, EditorAssumption
  <2>5. node(id) = [n EXCEPT !.next = next, !.field = field]
    BY <2>2 DEF Node
  <2> HIDE DEF i, n, next, field, node
  <2> QED
    BY <2>2, <2>3, <2>4, <2>5 DEF Node
<1>3. StepsToDef(seq) = [start |-> IF seq = << >> THEN "n1" ELSE seq[1][1], nodes |-> [id \in ids |-> node(id)]]
  BY DEF StepsToDef
<1>4. ids \subseteq NodeIds
  BY <1>1
<1>5. (IF seq = << >> THEN "n1" ELSE seq[1][1]) \in NodeIds
  <2>1. seq # << >> => 1 \in DOMAIN seq
    OBVIOUS
  <2> QED
    BY <1>1, <2>1, EditorAssumption DEF EditorAssumption
<1> HIDE DEF node, ids
<1> QED
  BY <1>2, <1>3, <1>4, <1>5 DEF IsScript

-------------------------------------------------------------------------------
(* The columns of a scenario *)

Queued(def) == [queue: Seq(NodeOrNone), ordered: Seq(DOMAIN def.nodes)]

LEMMA TurnType ==
  ASSUME NEW def, IsScript(def), NEW walk \in Queued(def)
  PROVE  Turn(def, walk) \in Queued(def)
<1>1. CASE walk.queue = << >>
  BY <1>1 DEF Turn
<1>2. CASE walk.queue # << >>
  <2> DEFINE id == Head(walk.queue)
             rest == Tail(walk.queue)
             to(target) == IF target = None THEN << >> ELSE <<target>>
             node == def.nodes[id]
             more == to(node.next) \o rest \o (IF node.kind = "condition" THEN to(node.other) ELSE << >>)
  <2>1. id \in NodeOrNone /\ rest \in Seq(NodeOrNone) /\ walk.ordered \in Seq(DOMAIN def.nodes)
    BY <1>2 DEF Queued
  <2>2. CASE id \notin DOMAIN def.nodes \/ Contains(walk.ordered, id)
    <3>1. Turn(def, walk) = [walk EXCEPT !.queue = rest]
      BY <1>2, <2>2 DEF Turn
    <3> HIDE DEF rest
    <3> QED
      BY <2>1, <3>1 DEF Queued
  <2>3. CASE ~(id \notin DOMAIN def.nodes \/ Contains(walk.ordered, id))
    <3>1. Turn(def, walk) = [queue |-> more, ordered |-> Append(walk.ordered, id)]
      BY <1>2, <2>3 DEF Turn
    <3>2. node \in Node
      BY <2>3 DEF IsScript
    <3>3. \A target \in NodeOrNone : to(target) \in Seq(NodeOrNone)
      OBVIOUS
    <3>4. node.next \in NodeOrNone /\ node.other \in NodeOrNone
      BY <3>2 DEF Node
    <3> HIDE DEF id, rest, node, to
    <3>5. more \in Seq(NodeOrNone)
      BY <2>1, <3>3, <3>4
    <3>6. Append(walk.ordered, id) \in Seq(DOMAIN def.nodes)
      <4> DEFINE ids == DOMAIN def.nodes
      <4>1. walk.ordered \in Seq(ids) /\ id \in ids
        BY <2>1, <2>3
      <4> HIDE DEF ids
      <4>2. Append(walk.ordered, id) \in Seq(ids)
        BY <4>1
      <4> QED
        BY <4>2 DEF ids
    <3> HIDE DEF more
    <3> QED
      BY <3>1, <3>5, <3>6 DEF Queued
  <2> QED
    BY <2>2, <2>3
<1> QED
  BY <1>1, <1>2

\* The walk of ReachableInOrder, turn by turn.
WalkTurns(def) == 2 * Cardinality(DOMAIN def.nodes) + 1
WalkBase(def) == [queue |-> <<def.start>>, ordered |-> << >>]
Visits(def, walk) ==
  /\ walk[0] = WalkBase(def) /\ ReachableInOrder(def) = walk[WalkTurns(def)].ordered
  /\ \A n \in 1..WalkTurns(def) : walk[n] = Turn(def, walk[n - 1])
  /\ \A n \in 0..WalkTurns(def) : walk[n] \in Queued(def)

LEMMA VisitsExist ==
  ASSUME NEW def, IsScript(def)
  PROVE  WalkTurns(def) \in Nat /\ \E walk : Visits(def, walk)
<1> DEFINE turns == WalkTurns(def)
           base == WalkBase(def)
           Is(f) == f = [n \in 0..turns |-> IF n = 0 THEN base ELSE Turn(def, f[n - 1])]
           walk == CHOOSE f : Is(f)
           step == [m \in 1..turns |-> [w \in Queued(def) |-> Turn(def, w)]]
<1>1. turns \in Nat
  BY FewNodes DEF WalkTurns
<1>2. base \in Queued(def)
  <2>1. def.start \in NodeOrNone
    BY DEF IsScript, NodeOrNone
  <2>2. <<def.start>> \in Seq(NodeOrNone) /\ << >> \in Seq(DOMAIN def.nodes)
    BY <2>1
  <2> QED
    BY <2>2 DEF Queued, WalkBase
<1>3. ReachableInOrder(def) = walk[turns].ordered
  BY DEF ReachableInOrder, WalkTurns, WalkBase
<1> HIDE DEF turns, base
<1>4. Turns(turns, Queued(def), step)
  BY TurnType DEF Turns
<1>5. \E f : Is(f)
  <2>1. \A m \in 1..turns, w \in Queued(def) : step[m][w] = Turn(def, w)
    OBVIOUS
  <2> HIDE DEF step
  <2> PICK f \in Walks(turns, Queued(def), base, step) : TRUE
    BY <1>1, <1>2, <1>4, WalkExists
  <2>2. /\ f \in [0..turns -> Queued(def)] /\ f[0] = base
        /\ \A m \in 1..turns : f[m] = step[m][f[m - 1]]
    BY DEF Walks
  <2> DEFINE again == [m \in 0..turns |-> IF m = 0 THEN base ELSE Turn(def, f[m - 1])]
  <2>3. ASSUME NEW m \in 0..turns PROVE f[m] = again[m]
    <3>1. CASE m # 0
      <4>1. m \in 1..turns /\ m - 1 \in 0..turns
        BY <1>1, <3>1
      <4> QED
        BY <2>1, <2>2, <3>1, <4>1
    <3>2. CASE m = 0
      BY <2>2, <3>2
    <3> QED
      BY <3>1, <3>2
  <2>4. f = [m \in 0..turns |-> f[m]] /\ again = [m \in 0..turns |-> again[m]]
    BY <2>2
  <2>5. f = again
    <3> HIDE DEF again
    <3> QED
      BY <2>3, <2>4
  <2> QED
    BY <2>5
<1>6. Is(walk)
  BY <1>5
<1> HIDE DEF walk
<1> DEFINE good == {n \in 0..turns : walk[n] \in Queued(def)}
<1>7. 0 \in good
  BY <1>1, <1>2, <1>6
<1>8. ASSUME NEW m \in 1..turns PROVE m \in 0..turns /\ walk[m] = Turn(def, walk[m - 1])
  <2>1. m \in 0..turns /\ m # 0
    BY <1>1
  <2> QED
    BY <1>6, <2>1
<1>9. ASSUME NEW m \in 1..turns, m - 1 \in good PROVE m \in good
  BY <1>8, <1>9, TurnType
<1>10. 0..turns \subseteq good
  <2> HIDE DEF good
  <2> QED
    BY <1>1, <1>7, <1>9, EveryTurn
<1>11. walk[0] = base
  BY <1>1, <1>6
<1>12. Visits(def, walk)
  BY <1>3, <1>8, <1>10, <1>11 DEF Visits, turns, base
<1> QED
  BY <1>1, <1>12 DEF turns

LEMMA ReachableType ==
  ASSUME NEW def, IsScript(def)
  PROVE  ReachableInOrder(def) \in Seq(DOMAIN def.nodes)
<1> PICK walk : Visits(def, walk)
  BY VisitsExist
<1>1. WalkTurns(def) \in Nat
  BY VisitsExist
<1>2. walk[WalkTurns(def)] \in Queued(def) /\ ReachableInOrder(def) = walk[WalkTurns(def)].ordered
  BY <1>1 DEF Visits
<1> QED
  BY <1>2 DEF Queued

\* A sequence of the elements of a finite set has them all.
LEMMA SetToSeqCovers ==
  ASSUME NEW S, IsFiniteSet(S)
  PROVE  /\ SetToSeq(S) \in Seq(S)
         /\ \A x \in S : \E i \in DOMAIN SetToSeq(S) : SetToSeq(S)[i] = x
<1> DEFINE n == Cardinality(S)
           Is(f) == f \in [1..n -> S] /\ IsInjective(f)
           seq == SetToSeq(S)
<1>1. n \in Nat /\ IsFiniteSet(1..n) /\ Cardinality(1..n) = n
  <2>1. n \in Nat
    BY FS_CardinalityType
  <2> HIDE DEF n
  <2> QED
    BY <2>1, FS_Interval
<1>2. \E f : Is(f)
  <2>1. ExistsBijection(1..n, S)
    BY FS_CardinalityType
  <2>2. PICK f \in Bijection(1..n, S) : TRUE
    BY <2>1 DEF ExistsBijection
  <2>3. Is(f)
    BY <2>2 DEF Bijection, Injection, IsInjective
  <2> QED
    BY <2>3
<1>3. Is(seq)
  BY <1>2 DEF SetToSeq
<1> HIDE DEF seq
<1>4. seq \in Injection(1..n, S)
  BY <1>3 DEF Injection, IsInjective
<1>5. seq \in Surjection(1..n, S)
  BY <1>1, <1>4, FS_Injection
<1>6. seq \in Seq(S) /\ \A x \in S : \E i \in DOMAIN seq : seq[i] = x
  BY <1>1, <1>3, <1>5 DEF Surjection
<1> QED
  BY <1>6 DEF seq

LEMMA JoinedSequences ==
  ASSUME NEW D, NEW s \in Seq(D), NEW t \in Seq(D)
  PROVE  /\ s \o t \in Seq(D)
         /\ \A i \in DOMAIN s : i \in DOMAIN (s \o t) /\ (s \o t)[i] = s[i]
         /\ \A i \in DOMAIN t : Len(s) + i \in DOMAIN (s \o t) /\ (s \o t)[Len(s) + i] = t[i]
OBVIOUS

\* Every node of a script is looked at for a column.
Lists(seq, D) == seq \in Seq(D) /\ \A id \in D : \E i \in DOMAIN seq : seq[i] = id

LEMMA NothingIsMissed ==
  ASSUME NEW D, IsFiniteSet(D), NEW order \in Seq(D)
  PROVE  Lists(order \o SetToSeq(D \ ToSet(order)), D)
<1> DEFINE all == order \o SetToSeq(D \ ToSet(order))
           left == D \ ToSet(order)
           rest == SetToSeq(left)
<1>1. IsFiniteSet(left)
  BY FS_Subset
<1>2. rest \in Seq(left) /\ \A x \in left : \E i \in DOMAIN rest : rest[i] = x
  <2> HIDE DEF left
  <2> QED
    BY <1>1, SetToSeqCovers
<1> HIDE DEF rest
<1>3. rest \in Seq(D)
  BY <1>2
<1>4. all = order \o rest
  BY DEF rest
<1> HIDE DEF all
<1>5. all \in Seq(D)
  BY <1>3, <1>4, JoinedSequences
<1>6. ASSUME NEW id \in D PROVE \E i \in DOMAIN all : all[i] = id
  <2>1. CASE id \in ToSet(order)
    <3>1. PICK i \in DOMAIN order : order[i] = id
      BY <2>1 DEF ToSet
    <3>2. i \in DOMAIN all /\ all[i] = id
      BY <1>3, <1>4, <3>1, JoinedSequences
    <3> QED
      BY <3>2
  <2>2. CASE id \notin ToSet(order)
    <3>1. PICK i \in DOMAIN rest : rest[i] = id
      BY <1>2, <2>2
    <3>2. /\ Len(order) + i \in DOMAIN (order \o rest)
          /\ (order \o rest)[Len(order) + i] = rest[i]
      BY <1>3, <3>1, JoinedSequences
    <3>3. Len(order) + i \in DOMAIN all /\ all[Len(order) + i] = id
      BY <1>4, <3>1, <3>2
    <3> QED
      BY <3>3
  <2> QED
    BY <2>1, <2>2
<1>7. Lists(all, D)
  BY <1>5, <1>6 DEF Lists
<1> QED
  BY <1>7 DEF all

Column == [key: FieldNames, expect: Expects, choices: SUBSET Writings]

Collects(node) == node.kind \in {"question", "save_field"} /\ Trim[node.field] # ""

\* No two columns of a scenario have one key.
OneEach(columns) == \A i, j \in DOMAIN columns : columns[i].key = columns[j].key => i = j
HasKey(columns, k) == \E i \in DOMAIN columns : columns[i].key = k
Columned(columns) == columns \in Seq(Column) /\ OneEach(columns)

\* A node adds its column, once, and takes none away.
LEMMA AddColumnKeeps ==
  ASSUME NEW columns, Columned(columns), NEW node \in Node
  PROVE  /\ Columned(AddColumn(columns, node))
         /\ \A k : HasKey(columns, k) => HasKey(AddColumn(columns, node), k)
         /\ Collects(node) => HasKey(AddColumn(columns, node), Trim[node.field])
<1> DEFINE key == Trim[node.field]
           old == {i \in DOMAIN columns : columns[i].key = key}
           new == AddColumn(columns, node)
<1>1. key \in FieldNames \cup {""} /\ node.expect \in Expects /\ node.choices \subseteq Writings
  BY EditorAssumption, FormsAssumption DEF Node, EditorAssumption, FormsAssumption
<1>2. columns \in Seq(Column) /\ OneEach(columns)
  BY DEF Columned
<1>3. CASE ~Collects(node)
  <2>1. new = columns
    BY <1>3 DEF AddColumn, Collects
  <2> QED
    BY <1>3, <2>1
<1>4. CASE Collects(node) /\ old = {}
  <2> DEFINE column == [key |-> key, expect |-> node.expect, choices |-> node.choices]
  <2>1. new = Append(columns, column)
    BY <1>4 DEF AddColumn, Collects
  <2>2. column \in Column /\ column.key = key
    <3>1. key \in FieldNames
      BY <1>1, <1>4 DEF Collects
    <3> QED
      BY <1>1, <3>1 DEF Column
  <2>3. \A i \in DOMAIN columns : columns[i].key # key
    BY <1>4
  <2> HIDE DEF new, column, key, old
  <2>4. /\ new \in Seq(Column) /\ Len(new) = Len(columns) + 1 /\ new[Len(columns) + 1] = column
        /\ \A i \in DOMAIN columns : new[i] = columns[i]
        /\ DOMAIN columns = 1..Len(columns) /\ DOMAIN new = 1..(Len(columns) + 1) /\ Len(columns) \in Nat
    BY <1>2, <2>1, <2>2
  <2>5. \A i \in DOMAIN new : i \in DOMAIN columns \/ i = Len(columns) + 1
    BY <2>4
  <2>6. OneEach(new)
    BY <1>2, <2>2, <2>3, <2>4, <2>5 DEF OneEach
  <2>7. Len(columns) + 1 \in DOMAIN new /\ \A i \in DOMAIN columns : i \in DOMAIN new
    BY <2>4
  <2>8. HasKey(new, key)
    BY <2>2, <2>4, <2>7 DEF HasKey
  <2>9. \A k : HasKey(columns, k) => HasKey(new, k)
    BY <2>4, <2>7 DEF HasKey
  <2>10. Columned(new)
    BY <2>4, <2>6 DEF Columned
  <2> QED
    BY <2>8, <2>9, <2>10 DEF new, key
<1>5. CASE Collects(node) /\ old # {}
  <2> DEFINE at == CHOOSE i \in old : TRUE
  <2>1. new = [columns EXCEPT ![at].choices = @ \cup node.choices]
    BY <1>5 DEF AddColumn, Collects
  <2>2. at \in DOMAIN columns /\ columns[at].key = key
    BY <1>5
  <2> HIDE DEF new, at, old
  <2>3. \A i \in DOMAIN columns : columns[i] \in Column
    BY <1>2
  <2>4. [columns[at] EXCEPT !.choices = @ \cup node.choices] \in Column
    <3>1. columns[at] \in Column
      BY <2>2, <2>3
    <3> QED
      BY <1>1, <3>1 DEF Column
  <2>5. new = [columns EXCEPT ![at] = [columns[at] EXCEPT !.choices = @ \cup node.choices]]
    BY <2>1
  <2>6. new \in Seq(Column) /\ DOMAIN new = DOMAIN columns
    BY <1>2, <2>2, <2>4, <2>5
  <2>7. \A i \in DOMAIN columns : new[i].key = columns[i].key
    <3>1. [columns[at] EXCEPT !.choices = @ \cup node.choices].key = columns[at].key
      BY <2>2, <2>3 DEF Column
    <3> QED
      BY <1>2, <2>2, <2>5, <3>1
  <2>8. OneEach(new)
    BY <1>2, <2>6, <2>7 DEF OneEach
  <2>9. \A k : HasKey(columns, k) => HasKey(new, k)
    BY <2>6, <2>7 DEF HasKey
  <2>10. HasKey(new, key)
    BY <2>2, <2>6, <2>7 DEF HasKey
  <2>11. Columned(new)
    BY <2>6, <2>8 DEF Columned
  <2> QED
    BY <2>9, <2>10, <2>11 DEF new
<1> QED
  BY <1>3, <1>4, <1>5

\* The columns of a script: one for each name that is asked for, or saved,
\* anywhere in it.
LEMMA DerivedColumns ==
  ASSUME NEW def, IsScript(def)
  PROVE  /\ Columned(DeriveFieldSchema(def))
         /\ \A id \in DOMAIN def.nodes :
              Collects(def.nodes[id]) => HasKey(DeriveFieldSchema(def), Trim[def.nodes[id].field])
<1> DEFINE order == ReachableInOrder(def)
           all == order \o SetToSeq(DOMAIN def.nodes \ ToSet(order))
           turns == Len(all)
           Is(f) == f = [n \in 0..turns |-> IF n = 0 THEN << >> ELSE AddColumn(f[n - 1], def.nodes[all[n]])]
           walk == CHOOSE f : Is(f)
           Some == {c \in Seq(Column) : OneEach(c)}
           step == [m \in 1..turns |-> [c \in Some |-> AddColumn(c, def.nodes[all[m]])]]
<1>1. /\ all \in Seq(DOMAIN def.nodes) /\ turns \in Nat
      /\ \A id \in DOMAIN def.nodes : \E i \in DOMAIN all : all[i] = id
  <2>1. order \in Seq(DOMAIN def.nodes) /\ IsFiniteSet(DOMAIN def.nodes)
    BY ReachableType, FewNodes
  <2> HIDE DEF order
  <2> DEFINE ids == DOMAIN def.nodes
  <2>2. all = order \o SetToSeq(ids \ ToSet(order)) /\ order \in Seq(ids) /\ IsFiniteSet(ids)
    BY <2>1
  <2> HIDE DEF all, ids
  <2>3. Lists(order \o SetToSeq(ids \ ToSet(order)), ids)
    BY <2>2, NothingIsMissed
  <2>4. all \in Seq(ids) /\ \A id \in ids : \E i \in DOMAIN all : all[i] = id
    BY <2>2, <2>3 DEF Lists
  <2>5. turns \in Nat
    BY <2>4
  <2> HIDE DEF turns
  <2> QED
    BY <2>4, <2>5 DEF ids
<1>2. << >> \in Some
  BY DEF OneEach
<1>3. DeriveFieldSchema(def) = walk[turns]
  BY DEF DeriveFieldSchema
<1> HIDE DEF all
<1>4. \A m \in 1..turns : all[m] \in DOMAIN def.nodes /\ def.nodes[all[m]] \in Node
  BY <1>1 DEF IsScript
<1>5. ASSUME NEW m \in 1..turns, NEW c \in Some PROVE AddColumn(c, def.nodes[all[m]]) \in Some
  <2>1. Columned(c) /\ def.nodes[all[m]] \in Node
    BY <1>4 DEF Columned
  <2>2. Columned(AddColumn(c, def.nodes[all[m]]))
    BY <2>1, AddColumnKeeps
  <2> QED
    BY <2>2 DEF Columned
<1> HIDE DEF turns
<1>6. Turns(turns, Some, step)
  <2> HIDE DEF Some
  <2> QED
    BY <1>5 DEF Turns
<1>7. \E f : Is(f)
  <2>1. \A m \in 1..turns, c \in Some : step[m][c] = AddColumn(c, def.nodes[all[m]])
    OBVIOUS
  <2> HIDE DEF step, Some
  <2> PICK f \in Walks(turns, Some, << >>, step) : TRUE
    BY <1>1, <1>2, <1>6, WalkExists
  <2>2. /\ f \in [0..turns -> Some] /\ f[0] = << >>
        /\ \A m \in 1..turns : f[m] = step[m][f[m - 1]]
    BY DEF Walks
  <2> DEFINE again == [m \in 0..turns |-> IF m = 0 THEN << >> ELSE AddColumn(f[m - 1], def.nodes[all[m]])]
  <2>3. ASSUME NEW m \in 0..turns PROVE f[m] = again[m]
    <3>1. CASE m # 0
      <4>1. m \in 1..turns /\ m - 1 \in 0..turns
        BY <1>1, <3>1
      <4> QED
        BY <2>1, <2>2, <3>1, <4>1
    <3>2. CASE m = 0
      BY <2>2, <3>2
    <3> QED
      BY <3>1, <3>2
  <2>4. f = [m \in 0..turns |-> f[m]] /\ again = [m \in 0..turns |-> again[m]]
    BY <2>2
  <2>5. f = again
    <3> HIDE DEF again
    <3> QED
      BY <2>3, <2>4
  <2> QED
    BY <2>5
<1>8. Is(walk)
  BY <1>7
<1> HIDE DEF walk
<1> DEFINE has(c, m) == Collects(def.nodes[all[m]]) => HasKey(c, Trim[def.nodes[all[m]].field])
           good == {n \in 0..turns : Columned(walk[n]) /\ \A m \in 1..n : has(walk[n], m)}
<1>9. 0 \in good
  <2>1. walk[0] = << >> /\ Columned(walk[0]) /\ 0 \in 0..turns
    BY <1>1, <1>2, <1>8 DEF Columned
  <2>2. \A m \in 1..0 : FALSE
    OBVIOUS
  <2> QED
    BY <2>1, <2>2
<1>10. ASSUME NEW n \in 1..turns, n - 1 \in good PROVE n \in good
  <2>1. n \in 0..turns /\ n # 0
    BY <1>1
  <2>2. walk[n] = AddColumn(walk[n - 1], def.nodes[all[n]])
    BY <1>8, <2>1
  <2>3. Columned(walk[n - 1]) /\ def.nodes[all[n]] \in Node
    BY <1>4, <1>10
  <2>4. /\ Columned(walk[n]) /\ has(walk[n], n)
        /\ \A k : HasKey(walk[n - 1], k) => HasKey(walk[n], k)
    BY <2>2, <2>3, AddColumnKeeps
  <2>5. ASSUME NEW m \in 1..n PROVE has(walk[n], m)
    <3>1. CASE m = n
      BY <2>4, <3>1
    <3>2. CASE m # n
      <4>1. m \in 1..(n - 1)
        BY <3>2
      <4>2. has(walk[n - 1], m)
        BY <1>10, <4>1
      <4> QED
        BY <2>4, <4>2
    <3> QED
      BY <3>1, <3>2
  <2> QED
    BY <2>1, <2>4, <2>5
<1>11. turns \in good
  <2>1. 0..turns \subseteq good
    <3> HIDE DEF good
    <3> QED
      BY <1>1, <1>9, <1>10, EveryTurn
  <2> QED
    BY <1>1, <2>1
<1>12. ASSUME NEW id \in DOMAIN def.nodes, Collects(def.nodes[id])
       PROVE  HasKey(walk[turns], Trim[def.nodes[id].field])
  <2>1. PICK i \in DOMAIN all : all[i] = id
    BY <1>1
  <2>2. i \in 1..turns
    BY <1>1 DEF turns
  <2> QED
    BY <1>11, <1>12, <2>1, <2>2
<1> QED
  BY <1>3, <1>11, <1>12

\* The columns a row has, if any, are those of its script.
EditorInv ==
  /\ scenario = [there |-> scenario.there, live |-> scenario.live,
                 definition |-> scenario.definition, schema |-> scenario.schema]
  /\ IsScript(scenario.definition)
  /\ scenario.schema \in {<< >>, DeriveFieldSchema(scenario.definition)}
  /\ steps \in Seq(Step) /\ edits \in 0..MaxEdits

LEMMA EditsBounded == MaxEdits \in Nat
BY EditorAssumption, Zenon DEF EditorAssumption

LEMMA BecomesKeeps ==
  ASSUME EditorInv, NEW seq, Becomes(seq), seq \in Seq(Step)
  PROVE  EditorInv'
<1>1. scenario' = scenario /\ steps' = seq /\ edits' = edits + 1 /\ edits < MaxEdits
  BY DEF Becomes
<1>2. edits' \in 0..MaxEdits
  <2>1. edits \in 0..MaxEdits
    BY DEF EditorInv
  <2> QED
    BY <1>1, <2>1, EditsBounded
<1> QED
  BY <1>1, <1>2 DEF EditorInv

LEMMA PatchKeeps ==
  ASSUME EditorInv, NEW i \in DOMAIN steps, NEW part, NEW value, Patch(i, part, value),
         [steps[i][2] EXCEPT ![part] = value] \in Node
  PROVE  EditorInv'
<1> DEFINE node == [steps[i][2] EXCEPT ![part] = value]
           seq == [steps EXCEPT ![i][2] = node]
<1>1. steps \in Seq(Step) /\ Becomes(seq)
  BY DEF EditorInv, Patch
<1>2. steps[i] \in Step
  BY <1>1
<1> HIDE DEF node
<1>3. steps[i] = <<steps[i][1], steps[i][2]>> /\ steps[i][1] \in NodeIds
  BY <1>2 DEF Step
<1>4. [steps[i] EXCEPT ![2] = node] = <<steps[i][1], node>>
  BY <1>3
<1>5. <<steps[i][1], node>> \in Step
  BY <1>3 DEF Step, node
<1>6. seq = [steps EXCEPT ![i] = <<steps[i][1], node>>]
  BY <1>4
<1>7. seq \in Seq(Step)
  <2> DEFINE new == <<steps[i][1], node>>
  <2>1. new \in Step /\ seq = [steps EXCEPT ![i] = new]
    BY <1>5, <1>6
  <2> HIDE DEF new, seq
  <2> QED
    BY <1>1, <2>1
<1> HIDE DEF seq
<1> QED
  BY <1>1, <1>7, BecomesKeeps

LEMMA PatchQuestionKeeps ==
  ASSUME EditorInv, NEW i \in DOMAIN steps, PatchQuestion(i)
  PROVE  EditorInv'
<1>1. steps[i] \in Step
  BY DEF EditorInv
<1>2. steps[i][2] \in Node
  BY <1>1 DEF Step
<1>3. CASE \E f \in FieldNames : Patch(i, "field", f)
  <2> PICK f \in FieldNames : Patch(i, "field", f)
    BY <1>3
  <2>1. [steps[i][2] EXCEPT !["field"] = f] \in Node
    BY <1>2 DEF Node
  <2> QED
    BY <2>1, PatchKeeps
<1>4. CASE \E e \in Expects : Patch(i, "expect", e)
  <2> PICK e \in Expects : Patch(i, "expect", e)
    BY <1>4
  <2>1. [steps[i][2] EXCEPT !["expect"] = e] \in Node
    BY <1>2 DEF Node
  <2> QED
    BY <2>1, PatchKeeps
<1>5. CASE \E c \in ChoiceSets : Patch(i, "choices", c)
  <2> PICK c \in ChoiceSets : Patch(i, "choices", c)
    BY <1>5
  <2>1. [steps[i][2] EXCEPT !["choices"] = c] \in Node
    BY <1>2 DEF Node
  <2> QED
    BY <2>1, PatchKeeps
<1> QED
  BY <1>3, <1>4, <1>5 DEF PatchQuestion

LEMMA StepsMove ==
  ASSUME EditorInv, NEW i \in DOMAIN steps, RemoveStep(i) \/ MoveStep(i, i + 1)
  PROVE  EditorInv'
<1>1. steps \in Seq(Step)
  BY DEF EditorInv
<1>2. CASE RemoveStep(i)
  <2>1. RemoveAt(steps, i) \in Seq(Step)
    <3>1. SubSeq(steps, 1, i - 1) \in Seq(Step) /\ SubSeq(steps, i + 1, Len(steps)) \in Seq(Step)
      BY <1>1
    <3> QED
      BY <3>1 DEF RemoveAt
  <2> QED
    BY <1>2, <2>1, BecomesKeeps DEF RemoveStep
<1>3. CASE MoveStep(i, i + 1)
  <2> DEFINE seq == [steps EXCEPT ![i] = steps[i + 1], ![i + 1] = steps[i]]
  <2>1. seq \in Seq(Step)
    <3>1. i + 1 \in DOMAIN steps
      BY <1>3 DEF MoveStep
    <3>2. steps[i] \in Step /\ steps[i + 1] \in Step
      BY <1>1, <3>1
    <3> QED
      BY <1>1, <3>1, <3>2
  <2>2. Becomes(seq)
    BY <1>3 DEF MoveStep
  <2> HIDE DEF seq
  <2> QED
    BY <2>1, <2>2, BecomesKeeps
<1> QED
  BY <1>2, <1>3

LEMMA AddStepKeeps ==
  ASSUME EditorInv, NEW kind \in StepKinds, NEW at \in 0..Len(steps), AddStep(kind, at)
  PROVE  EditorInv'
<1>1. steps \in Seq(Step)
  BY DEF EditorInv
<1> PICK id \in NodeIds : Becomes(InsertAt(steps, at + 1, <<id, Blank(kind)>>))
  BY DEF AddStep
<1>2. <<id, Blank(kind)>> \in Step
  BY BlankType DEF Step
<1>3. InsertAt(steps, at + 1, <<id, Blank(kind)>>) \in Seq(Step)
  <2> DEFINE new == <<id, Blank(kind)>>
  <2>1. new \in Step
    BY <1>2
  <2> HIDE DEF new
  <2>2. /\ SubSeq(steps, 1, at + 1 - 1) \in Seq(Step) /\ <<new>> \in Seq(Step)
        /\ SubSeq(steps, at + 1, Len(steps)) \in Seq(Step)
    BY <1>1, <2>1
  <2>3. InsertAt(steps, at + 1, new) \in Seq(Step)
    BY <2>2 DEF InsertAt
  <2> QED
    BY <2>3 DEF new
<1> QED
  BY <1>3, BecomesKeeps

\* What the editor, and the scenario's own buttons, do.
LEMMA EditorKeeps ==
  ASSUME EditorInv, EditorNext
  PROVE  EditorInv'
<1>1. CASE OpenEditor
  <2>1. DefToSteps(scenario.definition) \in Seq(Step)
    BY DefToStepsType DEF EditorInv
  <2> QED
    BY <1>1, <2>1 DEF OpenEditor, EditorInv
<1>2. ASSUME NEW i \in DOMAIN steps, PatchQuestion(i) \/ RemoveStep(i) \/ MoveStep(i, i + 1)
      PROVE  EditorInv'
  BY <1>2, PatchQuestionKeeps, StepsMove
<1>3. ASSUME NEW kind \in StepKinds, NEW at \in 0..Len(steps), AddStep(kind, at)
      PROVE  EditorInv'
  BY <1>3, AddStepKeeps
<1>4. ASSUME NEW covered \in BOOLEAN, SaveFlow(covered)
      PROVE  EditorInv'
  <2> DEFINE def == StepsToDef(steps)
             live == scenario.live \/ ~covered
  <2>1. IsScript(def)
    BY StepsToDefType DEF EditorInv
  <2>2. scenario' = [scenario EXCEPT !.definition = def, !.schema = DeriveFieldSchema(def), !.live = live]
    BY <1>4 DEF SaveFlow
  <2>3. steps' = steps /\ edits' = edits
    BY <1>4 DEF SaveFlow
  <2> HIDE DEF def, live
  <2>4. scenario' = [there |-> scenario.there, live |-> live, definition |-> def, schema |-> DeriveFieldSchema(def)]
    BY <2>2 DEF EditorInv
  <2> QED
    BY <2>1, <2>3, <2>4 DEF EditorInv
<1>5. CASE ToggleFlow
  <2> DEFINE live == ~scenario.live
  <2>1. scenario' = [scenario EXCEPT !.live = live] /\ steps' = steps /\ edits' = edits
    BY <1>5 DEF ToggleFlow
  <2> HIDE DEF live
  <2>2. scenario' = [there |-> scenario.there, live |-> live,
                     definition |-> scenario.definition, schema |-> scenario.schema]
    BY <2>1 DEF EditorInv
  <2> QED
    BY <2>1, <2>2 DEF EditorInv
<1>6. CASE DeleteFlow
  <2>1. scenario' = [scenario EXCEPT !.there = FALSE] /\ steps' = steps /\ edits' = edits
    BY <1>6 DEF DeleteFlow
  <2>2. scenario' = [there |-> FALSE, live |-> scenario.live,
                     definition |-> scenario.definition, schema |-> scenario.schema]
    BY <2>1 DEF EditorInv
  <2> QED
    BY <2>1, <2>2 DEF EditorInv
<1> QED
  BY <1>1, <1>2, <1>3, <1>4, <1>5, <1>6 DEF EditorNext

LEMMA EditorInitially == EditorInit => EditorInv
<1> SUFFICES ASSUME EditorInit PROVE EditorInv
  OBVIOUS
<1> PICK def \in Scripts :
       \E schema \in {<< >>, DeriveFieldSchema(def)} :
         scenario = [there |-> TRUE, live |-> FALSE, definition |-> def, schema |-> schema]
  BY DEF EditorInit
<1> PICK schema \in {<< >>, DeriveFieldSchema(def)} :
       scenario = [there |-> TRUE, live |-> FALSE, definition |-> def, schema |-> schema]
  OBVIOUS
<1>1. IsScript(def)
  BY EditorAssumption, Zenon DEF EditorAssumption
<1>3. 0 \in 0..MaxEdits
  BY EditsBounded
<1>2. steps = << >> /\ edits = 0 /\ << >> \in Seq(Step)
  BY DEF EditorInit
<1> QED
  BY <1>1, <1>2, <1>3 DEF EditorInv

Given == Value \cup {Unset}
FormsInv == EditorInv /\ FormsTypeOK

LEMMA Texts ==
  /\ "" \in Blanks /\ Writings \subseteq Blanks /\ "" \notin Writings
  /\ \A t \in Blanks : NumberRead[t] \in Blanks
  /\ \A t \in Writings : Stamp[t] \in Blanks /\ Day[t] \in Blanks /\ OneLine[t] \in Writings
  /\ NumberLike \subseteq Writings /\ DateLike \subseteq Writings /\ Literals \subseteq Given
BY FormsAssumption DEF FormsAssumption, Blanks, Given

LEMMA AnswerText ==
  ASSUME NEW v \in Given
  PROVE  v.text \in Blanks /\ (v # Unset => v.text \in Writings)
<1>1. CASE v \in Value
  BY <1>1, Texts DEF Value
<1>2. CASE v = Unset
  <2>1. Unset.text = ""
    BY DEF Unset
  <2> QED
    BY <1>2, <2>1, Texts
<1> QED
  BY <1>1, <1>2 DEF Given

LEMMA TextOfType == \A t \in Blanks : TextOf(t) \in Given
BY DEF TextOf, Given, Value, Unset, Blanks

LEMMA NumericType == \A t \in Blanks : NumberRead[t] # "" => Numeric(t) \in Given
BY Texts DEF Numeric, Given, Value, Blanks

LEMMA ParsedType ==
  ASSUME NEW spec, NEW raw \in Blanks
  PROVE  ParseFieldInput(spec, raw) \in Given
BY TextOfType, NumericType DEF ParseFieldInput

LEMMA CoercedType ==
  ASSUME NEW node, NEW t \in Writings
  PROVE  Coerced(node, t) \in Given
<1>1. t \in Blanks /\ Stamp[t] \in Blanks /\ Unset \in Given
  BY Texts DEF Given
<1> QED
  BY <1>1, TextOfType, NumericType DEF Coerced

LEMMA InputValueType ==
  ASSUME NEW spec, NEW v \in Given
  PROVE  /\ FieldInputValue(spec, v) \in Blanks
         /\ v # Unset => FieldInputValue(spec, v) \in Writings
BY AnswerText, Texts DEF FieldInputValue, Blanks

LEMMA ShownType ==
  ASSUME NEW spec, NEW v \in Given
  PROVE  Shown(spec, v) \in Blanks
<1> DEFINE t == FieldInputValue(spec, v)
<1>1. t \in Blanks /\ (t # "" => t \in Writings)
  BY InputValueType DEF Blanks
<1> HIDE DEF t
<1>2. t # "" => OneLine[t] \in Blanks
  BY <1>1, Texts
<1>3. Shown(spec, v) = CASE spec.choices # {} -> t
                         [] ~Representable(FieldInputType(spec, v), t) -> ""
                         [] t = "" -> ""
                         [] OTHER -> OneLine[t]
  BY DEF Shown, t
<1> QED
  BY <1>1, <1>2, <1>3, Texts

LEMMA TypeableType ==
  ASSUME NEW spec, spec.choices \subseteq Writings, NEW v \in Given
  PROVE  Typeable(spec, v) \subseteq Blanks
<1>1. ChoiceOptions(spec, v) \subseteq Blanks
  BY AnswerText, Texts DEF ChoiceOptions
<1>2. {OneLine[t] : t \in Writings} \subseteq Blanks
  BY Texts
<1> QED
  BY <1>1, <1>2, Texts DEF Typeable

\* The columns that show.
LEMMA SpecsColumned ==
  ASSUME EditorInv
  PROVE  Columned(Specs)
<1>1. Columned(DeriveFieldSchema(scenario.definition))
  BY DerivedColumns DEF EditorInv
<1>2. Columned(<< >>)
  BY DEF Columned, OneEach
<1> QED
  BY <1>1, <1>2 DEF Specs, SchemaOf, EditorInv

LEMMA SpecOfType ==
  ASSUME EditorInv, NEW k
  PROVE  SpecOf(k).choices \subseteq Writings
<1>1. Specs \in Seq(Column)
  BY SpecsColumned DEF Columned
<1> DEFINE at == {i \in DOMAIN Specs : Specs[i].key = k}
<1>2. CASE at = {}
  <2>1. SpecOf(k) = NoSpec
    BY <1>2 DEF SpecOf, SpecIn
  <2>2. NoSpec.choices = {}
    BY DEF NoSpec
  <2> QED
    BY <2>1, <2>2
<1>3. CASE at # {}
  <2>1. PICK i \in DOMAIN Specs : SpecOf(k) = Specs[i]
    BY <1>3 DEF SpecOf, SpecIn
  <2>2. Specs[i] \in Column
    BY <1>1
  <2> QED
    BY <2>1, <2>2 DEF Column
<1> QED
  BY <1>2, <1>3

LEMMA KnownNames ==
  ASSUME EditorInv
  PROVE  Known \cup Extras \subseteq FieldNames
<1>1. Specs \in Seq(Column)
  BY SpecsColumned DEF Columned
<1>2. \A i \in DOMAIN Specs : Specs[i].key \in FieldNames
  <2> SUFFICES ASSUME NEW i \in DOMAIN Specs PROVE Specs[i].key \in FieldNames
    OBVIOUS
  <2>1. Specs[i] \in Column
    BY <1>1
  <2> QED
    BY <2>1 DEF Column
<1> QED
  BY <1>2 DEF Known, Extras, Held

\* An answer has one row, and is in a column while the script asks for it.
LEMMA ColumnsOfAnswers ==
  ASSUME FormsInv
  PROVE  AnswersKeepColumns
<1> SUFFICES ASSUME NEW k \in Held
             PROVE  /\ RowsOf(k) = 1
                    /\ LET asked == {id \in DOMAIN scenario.definition.nodes :
                                       scenario.definition.nodes[id].kind \in {"question", "save_field"}
                                         /\ scenario.definition.nodes[id].field = k}
                       IN  scenario.there /\ asked # {} /\ Trim[k] = k
                             => k \in Known /\ FormatFieldValue(SpecOf(k), bag[k]) # ""
  BY DEF AnswersKeepColumns
<1>1. k \in FieldNames /\ bag[k] # Unset /\ bag[k] \in Given
  BY DEF Held, FormsInv, FormsTypeOK, Given
<1>2. RowsOf(k) = 1
  <2> DEFINE at == {i \in DOMAIN Specs : Specs[i].key = k}
  <2>1. CASE at = {}
    <3>1. k \in Extras
      BY <2>1 DEF Extras, Known
    <3>2. Cardinality(at) = 0
      BY <2>1, FS_EmptySet
    <3> QED
      BY <3>1, <3>2 DEF RowsOf
  <2>2. CASE at # {}
    <3>1. PICK i \in DOMAIN Specs : Specs[i].key = k
      BY <2>2
    <3>2. OneEach(Specs)
      BY SpecsColumned DEF FormsInv, Columned
    <3>3. at = {i}
      BY <3>1, <3>2 DEF OneEach
    <3>4. k \notin Extras
      BY <3>1 DEF Extras, Known
    <3>5. Cardinality(at) = 1
      BY <3>3, FS_Singleton
    <3> QED
      BY <3>4, <3>5 DEF RowsOf
  <2> QED
    BY <2>1, <2>2
<1>3. FormatFieldValue(SpecOf(k), bag[k]) # ""
  BY <1>1, AnswerText, Texts DEF FormatFieldValue
<1>4. ASSUME NEW id \in DOMAIN scenario.definition.nodes,
             scenario.definition.nodes[id].kind \in {"question", "save_field"},
             scenario.definition.nodes[id].field = k, scenario.there, Trim[k] = k
      PROVE  k \in Known
  <2> DEFINE def == scenario.definition
  <2>1. IsScript(def) /\ scenario.schema \in {<< >>, DeriveFieldSchema(def)}
    BY DEF FormsInv, EditorInv
  <2>2. Specs = DeriveFieldSchema(def)
    BY <1>4, <2>1 DEF Specs, SchemaOf
  <2>3. k # ""
    BY <1>1, EditorAssumption DEF EditorAssumption
  <2>4. Collects(def.nodes[id]) /\ Trim[def.nodes[id].field] = k
    BY <1>4, <2>3 DEF Collects
  <2> HIDE DEF def
  <2>5. id \in DOMAIN def.nodes
    BY DEF def
  <2>6. HasKey(DeriveFieldSchema(def), Trim[def.nodes[id].field])
    BY <2>1, <2>4, <2>5, DerivedColumns
  <2> QED
    BY <2>2, <2>4, <2>6 DEF HasKey, Known
<1> QED
  BY <1>2, <1>3, <1>4

LEMMA FormsParts ==
  FormsInv <=> /\ EditorInv /\ bag \in [FieldNames -> Given]
               /\ page \in [Pages -> Page] /\ answers \in 0..MaxAnswers
BY DEF FormsInv, FormsTypeOK, EditorInv, IsScript, Given

LEMMA FormsPartsNext ==
  ASSUME EditorInv', bag' \in [FieldNames -> Given],
         page' \in [Pages -> Page], answers' \in 0..MaxAnswers
  PROVE  FormsInv'
BY DEF FormsInv, FormsTypeOK, EditorInv, IsScript, Given

LEMMA EditorAlone ==
  ASSUME EditorInv, UNCHANGED scenarioVars
  PROVE  EditorInv'
BY DEF EditorInv, scenarioVars

LEMMA ClosedType == Closed \in Page
BY Texts DEF Closed, Page

LEMMA OpenPageTypes ==
  ASSUME FormsInv, NEW p \in Pages, OpenPage(p)
  PROVE  FormsInv'
<1> DEFINE rows == Known \cup Extras
           typed == [k \in FieldNames |-> IF k \in rows THEN Shown(SpecOf(k), bag[k]) ELSE ""]
           offers == [k \in FieldNames |-> IF k \in rows THEN Typeable(SpecOf(k), bag[k]) ELSE {}]
           broken == {k \in rows : SpecOf(k).choices = {} /\ bag[k] # Unset
                        /\ LET t == FieldInputValue(SpecOf(k), bag[k]) IN OneLine[t] # t}
           q == [on |-> rows, touched |-> {}, aged |-> {}, typed |-> typed, offers |-> offers, broken |-> broken]
<1>1. EditorInv /\ bag \in [FieldNames -> Given] /\ page \in [Pages -> Page] /\ answers \in 0..MaxAnswers
  BY FormsParts
<1>2. page' = [page EXCEPT ![p] = q]
  BY DEF OpenPage
<1>3. rows \subseteq FieldNames /\ broken \subseteq FieldNames
  BY <1>1, KnownNames
<1>4. typed \in [FieldNames -> Blanks]
  BY <1>1, ShownType, Texts
<1>5. offers \in [FieldNames -> SUBSET Blanks]
  <2> SUFFICES ASSUME NEW k \in FieldNames PROVE Typeable(SpecOf(k), bag[k]) \subseteq Blanks
    OBVIOUS
  <2>1. SpecOf(k).choices \subseteq Writings /\ bag[k] \in Given
    BY <1>1, SpecOfType
  <2> QED
    BY <2>1, TypeableType
<1> HIDE DEF rows, typed, offers, broken
<1>6. q \in Page
  BY <1>3, <1>4, <1>5 DEF Page
<1> HIDE DEF q
<1>7. page' \in [Pages -> Page]
  BY <1>1, <1>2, <1>6
<1>8. UNCHANGED scenarioVars /\ bag' = bag /\ answers' = answers
  BY DEF OpenPage
<1> QED
  BY <1>1, <1>7, <1>8, EditorAlone, FormsPartsNext

LEMMA TypeTypes ==
  ASSUME FormsInv, NEW p \in Pages, NEW k \in FieldNames, NEW t \in Blanks, Type(p, k, t)
  PROVE  FormsInv'
<1> DEFINE q == [page[p] EXCEPT !.typed[k] = t, !.touched = @ \cup {k}]
<1>1. EditorInv /\ bag \in [FieldNames -> Given] /\ page \in [Pages -> Page] /\ answers \in 0..MaxAnswers
  BY FormsParts
<1>2. page' = [page EXCEPT ![p] = q]
  BY DEF Type
<1>3. q \in Page
  <2>1. page[p] \in Page
    BY <1>1
  <2> DEFINE typed == [page[p].typed EXCEPT ![k] = t]
             touched == page[p].touched \cup {k}
  <2>2. q = [page[p] EXCEPT !.typed = typed, !.touched = touched]
    BY <2>1 DEF Page
  <2>3. typed \in [FieldNames -> Blanks] /\ touched \subseteq FieldNames
    BY <2>1 DEF Page
  <2> HIDE DEF q, typed, touched
  <2> QED
    BY <2>1, <2>2, <2>3 DEF Page
<1> HIDE DEF q
<1>4. page' \in [Pages -> Page]
  BY <1>1, <1>2, <1>3
<1>5. UNCHANGED scenarioVars /\ bag' = bag /\ answers' = answers
  BY DEF Type
<1> QED
  BY <1>1, <1>4, <1>5, EditorAlone, FormsPartsNext

LEMMA AgedType ==
  ASSUME NEW q \in Page, NEW more, more \subseteq q.on
  PROVE  [q EXCEPT !.aged = @ \cup more] \in Page
BY DEF Page

LEMMA AgesTypes ==
  ASSUME FormsInv, Ages
  PROVE  page' \in [Pages -> Page]
<1>1. PICK columns \in {SchemaOf(row) : row \in {scenario'}} :
        page' = [p \in Pages |-> [page[p] EXCEPT
                   !.aged = @ \cup {k \in page[p].on :
                                      bag'[k] # bag[k] \/ SpecIn(columns, k) # SpecOf(k)}]]
  BY DEF Ages
<1>2. ASSUME NEW p \in Pages
      PROVE  [page[p] EXCEPT !.aged = @ \cup {k \in page[p].on :
                                bag'[k] # bag[k] \/ SpecIn(columns, k) # SpecOf(k)}] \in Page
  <2> DEFINE more == {k \in page[p].on : bag'[k] # bag[k] \/ SpecIn(columns, k) # SpecOf(k)}
  <2>1. page[p] \in Page /\ more \subseteq page[p].on
    BY FormsParts
  <2> HIDE DEF more
  <2>2. [page[p] EXCEPT !.aged = @ \cup more] \in Page
    BY <2>1, AgedType
  <2> QED
    BY <2>2 DEF more
<1> QED
  BY <1>1, <1>2

LEMMA SaveFieldsTypes ==
  ASSUME FormsInv, NEW p \in Pages, SaveFields(p)
  PROVE  FormsInv'
<1>1. EditorInv /\ bag \in [FieldNames -> Given] /\ page \in [Pages -> Page] /\ answers \in 0..MaxAnswers
  BY FormsParts
<1>2. bag' \in [FieldNames -> Given]
  <2>1. bag' = [k \in FieldNames |-> IF k \in page[p].on /\ k \in Known \cup Held
                                     THEN SaveField(k, page[p].typed[k]) ELSE bag[k]]
    BY DEF SaveFields
  <2>2. ASSUME NEW k \in FieldNames PROVE SaveField(k, page[p].typed[k]) \in Given
    <3>1. page[p].typed[k] \in Blanks /\ bag[k] \in Given
      BY <1>1 DEF Page
    <3>2. ParseFieldInput(SpecOf(k), page[p].typed[k]) \in Given
      BY <3>1, ParsedType
    <3> QED
      BY <3>1, <3>2 DEF SaveField
  <2> QED
    BY <1>1, <2>1, <2>2
<1>3. page' \in [Pages -> Page]
  <2>1. page' = [q \in Pages |->
                   IF q = p THEN Closed
                   ELSE [page[q] EXCEPT !.aged = @ \cup {k \in page[q].on : bag'[k] # bag[k]}]]
    BY DEF SaveFields
  <2>2. ASSUME NEW q \in Pages
        PROVE  [page[q] EXCEPT !.aged = @ \cup {k \in page[q].on : bag'[k] # bag[k]}] \in Page
    <3> DEFINE more == {k \in page[q].on : bag'[k] # bag[k]}
    <3>1. page[q] \in Page /\ more \subseteq page[q].on
      BY <1>1
    <3> HIDE DEF more
    <3>2. [page[q] EXCEPT !.aged = @ \cup more] \in Page
      BY <3>1, AgedType
    <3> QED
      BY <3>2 DEF more
  <2> QED
    BY <2>1, <2>2, ClosedType
<1>4. UNCHANGED scenarioVars /\ answers' = answers
  BY DEF SaveFields
<1> QED
  BY <1>1, <1>2, <1>3, <1>4, EditorAlone, FormsPartsNext

LEMMA AnswersBounded == MaxAnswers \in Nat
BY FormsAssumption, Zenon DEF FormsAssumption

LEMMA BotSavesTypes ==
  ASSUME FormsInv, BotSaves
  PROVE  FormsInv'
<1>1. EditorInv /\ bag \in [FieldNames -> Given] /\ page \in [Pages -> Page] /\ answers \in 0..MaxAnswers
  BY FormsParts
<1>2. \E field : \E value \in Given : Stores(field, value)
  <2>1. PICK id \in DOMAIN scenario.definition.nodes :
          LET node == scenario.definition.nodes[id] IN
            \/ \E t \in Writings : Stores(node.field, Coerced(node, t))
            \/ \E v \in Literals : Stores(node.field, v)
    BY DEF BotSaves
  <2> DEFINE node == scenario.definition.nodes[id]
  <2>2. CASE \E t \in Writings : Stores(node.field, Coerced(node, t))
    BY <2>2, CoercedType
  <2>3. CASE \E v \in Literals : Stores(node.field, v)
    BY <2>3, Texts
  <2> QED
    BY <2>1, <2>2, <2>3
<1> PICK field : \E value \in Given : Stores(field, value)
  BY <1>2
<1> PICK value \in Given : Stores(field, value)
  OBVIOUS
<1>3. bag' \in [FieldNames -> Given]
  BY <1>1 DEF Stores
<1>4. answers' \in 0..MaxAnswers
  BY <1>1, AnswersBounded DEF Stores
<1>5. UNCHANGED scenarioVars /\ Ages
  BY DEF Stores
<1> QED
  BY <1>1, <1>3, <1>4, <1>5, EditorAlone, AgesTypes, FormsPartsNext

LEMMA NextFormTypes ==
  ASSUME FormsInv, [FormsNext]_<<scenarioVars, formVars>>
  PROVE  FormsInv'
<1>1. CASE EditorNext /\ UNCHANGED <<bag, answers>> /\ Ages
  <2>1. EditorInv /\ bag \in [FieldNames -> Given] /\ answers \in 0..MaxAnswers
    BY FormsParts
  <2>2. EditorInv' /\ page' \in [Pages -> Page] /\ bag' = bag /\ answers' = answers
    BY <1>1, <2>1, EditorKeeps, AgesTypes
  <2> QED
    BY <2>1, <2>2, FormsPartsNext
<1>2. CASE UNCHANGED <<scenarioVars, formVars>>
  <2>1. EditorInv /\ bag \in [FieldNames -> Given] /\ page \in [Pages -> Page] /\ answers \in 0..MaxAnswers
    BY FormsParts
  <2>2. UNCHANGED scenarioVars /\ bag' = bag /\ page' = page /\ answers' = answers
    BY <1>2 DEF formVars
  <2> QED
    BY <2>1, <2>2, EditorAlone, FormsPartsNext
<1> QED
  BY <1>1, <1>2, OpenPageTypes, TypeTypes, SaveFieldsTypes, BotSavesTypes DEF FormsNext

LEMMA InitFormTypes == FormsInit => FormsInv
<1> SUFFICES ASSUME FormsInit PROVE FormsInv
  OBVIOUS
<1>1. EditorInv
  BY EditorInitially DEF FormsInit
<1>2. bag \in [FieldNames -> Given]
  BY DEF FormsInit, Given
<1>3. page \in [Pages -> Page]
  BY ClosedType DEF FormsInit
<1>4. answers \in 0..MaxAnswers
  BY AnswersBounded DEF FormsInit
<1> QED
  BY <1>1, <1>2, <1>3, <1>4, FormsParts

\* Whatever graph a script is, however its steps are edited and saved beside
\* leads that have answered, each answer has one row on the lead's page, and is in
\* a column of the scenario, not blank, for as long as its name is asked for
\* (deriveFieldSchema of fields.ts, schemaOf of lib/leads.ts, saveFlowAction).
THEOREM AnswersStayInColumns == FormsSpec => [](FormsTypeOK /\ AnswersKeepColumns)
<1>1. FormsInit => FormsInv
  BY InitFormTypes
<1>2. FormsInv /\ [FormsNext]_<<scenarioVars, formVars>> => FormsInv'
  BY NextFormTypes
<1>3. FormsInv => FormsTypeOK /\ AnswersKeepColumns
  BY ColumnsOfAnswers DEF FormsInv
<1> QED
  BY <1>1, <1>2, <1>3, PTL DEF FormsSpec

-------------------------------------------------------------------------------
(* What is saved is what is shown again *)

\* The steps of a tab: each of a kind that can be drawn, and none twice.
Drawn(node) == node.kind \in StepKinds /\ node.next = None /\ node.other = None
Once(seq) == \A i, j \in DOMAIN seq : seq[i][1] = seq[j][1] => i = j
InLine(seq) == (\A i \in DOMAIN seq : Drawn(seq[i][2])) /\ Once(seq)

\* One step more, of a node that was not shown yet.
LEMMA LongerLine ==
  ASSUME NEW seq \in Seq(Step), InLine(seq), NEW new \in Step, Drawn(new[2]),
         \A i \in DOMAIN seq : seq[i][1] # new[1]
  PROVE  InLine(Append(seq, new))
<1> DEFINE longer == Append(seq, new)
<1>1. /\ Len(seq) \in Nat /\ DOMAIN longer = 1..(Len(seq) + 1) /\ DOMAIN seq = 1..Len(seq)
      /\ \A i \in 1..Len(seq) : longer[i] = seq[i]
      /\ longer[Len(seq) + 1] = new
  OBVIOUS
<1> HIDE DEF longer
<1>2. \A i \in DOMAIN longer : i \in DOMAIN seq \/ i = Len(seq) + 1
  BY <1>1
<1>3. \A i \in DOMAIN longer : Drawn(longer[i][2])
  BY <1>1, <1>2 DEF InLine
<1>4. Once(longer)
  <2> SUFFICES ASSUME NEW i \in DOMAIN longer, NEW j \in DOMAIN longer, longer[i][1] = longer[j][1]
               PROVE  i = j
    BY DEF Once
  <2>1. CASE i \in DOMAIN seq /\ j \in DOMAIN seq
    BY <1>1, <2>1 DEF InLine, Once
  <2>2. CASE i = Len(seq) + 1 /\ j = Len(seq) + 1
    BY <2>2
  <2>3. CASE i = Len(seq) + 1 /\ j \in DOMAIN seq
    BY <1>1, <2>3
  <2>4. CASE j = Len(seq) + 1 /\ i \in DOMAIN seq
    BY <1>1, <2>4
  <2> QED
    BY <1>2, <2>1, <2>2, <2>3, <2>4
<1> QED
  BY <1>3, <1>4 DEF InLine, longer

\* Whatever graph it walks through, the editor shows each step once.
LEMMA ShownInLine ==
  ASSUME NEW def, IsScript(def)
  PROVE  InLine(DefToSteps(def))
<1> PICK walk : Passes(def, walk)
  BY PassesExist
<1> DEFINE turns == PassTurns(def)
           Lining(w) == InLine(w.shown) /\ \A i \in DOMAIN w.shown : w.shown[i][1] \in w.seen
           good == {n \in 0..turns : Lining(walk[n])}
<1>1. turns \in Nat
  BY PassesExist
<1>2. 0 \in good
  <2>1. walk[0].shown = << >> /\ 0 \in 0..turns
    BY <1>1 DEF Passes, Start
  <2>2. InLine(<< >>)
    BY DEF InLine, Once
  <2> QED
    BY <2>1, <2>2
<1>3. ASSUME NEW m \in 1..turns, m - 1 \in good PROVE m \in good
  <2> DEFINE w == walk[m - 1]
  <2>1. w \in Along /\ walk[m] = Pass(def, w) /\ Lining(w) /\ m \in 0..turns
    BY <1>1, <1>3 DEF Passes
  <2> HIDE DEF w
  <2>2. CASE w.cur \notin DOMAIN def.nodes \ w.seen
    BY <2>1, <2>2 DEF Pass
  <2>3. CASE w.cur \in DOMAIN def.nodes \ w.seen
    <3> DEFINE node == def.nodes[w.cur]
               new == <<w.cur, [node EXCEPT !.next = None, !.other = None]>>
               longer == Append(w.shown, new)
    <3>1. walk[m] = [cur |-> After(node), seen |-> w.seen \cup {w.cur},
                     shown |-> IF node.kind \in StepKinds THEN longer ELSE w.shown]
      BY <2>1, <2>3 DEF Pass
    <3>2. w.cur \in NodeIds /\ node \in Node /\ w.shown \in Seq(Step)
      BY <2>1, <2>3 DEF IsScript, Along
    <3>3. CASE node.kind \in StepKinds
      <4>1. new \in Step /\ Drawn(new[2]) /\ new[1] = w.cur
        BY <3>2, <3>3 DEF Step, Node, NodeOrNone, Drawn
      <4>2. \A i \in DOMAIN w.shown : w.shown[i][1] # new[1]
        BY <2>1, <2>3, <4>1
      <4> HIDE DEF new
      <4>3. InLine(longer)
        BY <2>1, <3>2, <4>1, <4>2, LongerLine
      <4>4. \A i \in DOMAIN longer : longer[i][1] \in w.seen \cup {w.cur}
        BY <2>1, <3>2, <4>1
      <4>5. walk[m].shown = longer /\ walk[m].seen = w.seen \cup {w.cur}
        BY <3>1, <3>3
      <4> HIDE DEF longer
      <4> QED
        BY <2>1, <4>3, <4>4, <4>5
    <3>4. CASE node.kind \notin StepKinds
      <4>1. walk[m].shown = w.shown /\ walk[m].seen = w.seen \cup {w.cur}
        BY <3>1, <3>4
      <4> QED
        BY <2>1, <4>1
    <3> QED
      BY <3>3, <3>4
  <2> QED
    BY <2>2, <2>3
<1>4. 0..turns \subseteq good
  <2> HIDE DEF good, turns
  <2> QED
    BY <1>1, <1>2, <1>3, EveryTurn
<1>5. turns \in good
  BY <1>1, <1>4
<1> QED
  BY <1>5 DEF Passes

\* What the row keeps of a step.
SavedNode(node) == [node EXCEPT !.field = IF node.kind = "question" THEN Named(node.field) ELSE ""]
Saved(seq) == [i \in DOMAIN seq |-> <<seq[i][1], SavedNode(seq[i][2])>>]

\* The script of a line has one node per step, which leads to the next one.
LEMMA SavedNodes ==
  ASSUME NEW seq \in Seq(Step), InLine(seq)
  PROVE  /\ DOMAIN StepsToDef(seq).nodes = {seq[i][1] : i \in DOMAIN seq}
         /\ \A i \in DOMAIN seq :
              LET node == StepsToDef(seq).nodes[seq[i][1]]
              IN  /\ node.kind \in StepKinds
                  /\ After(node) = IF i = Len(seq) THEN None ELSE seq[i + 1][1]
                  /\ [node EXCEPT !.next = None, !.other = None] = SavedNode(seq[i][2])
<1> DEFINE at(id) == CHOOSE j \in DOMAIN seq : seq[j][1] = id
           kept(id) == [seq[at(id)][2] EXCEPT
                          !.next = IF at(id) = Len(seq) THEN None ELSE seq[at(id) + 1][1],
                          !.field = IF seq[at(id)][2].kind = "question" THEN Named(@) ELSE ""]
           ids == {seq[i][1] : i \in DOMAIN seq}
<1>1. StepsToDef(seq).nodes = [id \in ids |-> kept(id)]
  BY DEF StepsToDef
<1>2. ASSUME NEW i \in DOMAIN seq
      PROVE  LET node == StepsToDef(seq).nodes[seq[i][1]]
             IN  /\ node.kind \in StepKinds
                 /\ After(node) = IF i = Len(seq) THEN None ELSE seq[i + 1][1]
                 /\ [node EXCEPT !.next = None, !.other = None] = SavedNode(seq[i][2])
  <2> DEFINE id == seq[i][1]
             next == IF i = Len(seq) THEN None ELSE seq[i + 1][1]
             n == seq[i][2]
             field == IF n.kind = "question" THEN Named(n.field) ELSE ""
             node == StepsToDef(seq).nodes[id]
  <2>1. at(id) = i
    BY DEF InLine, Once
  <2>2. n \in Node /\ n.kind \in StepKinds /\ n.next = None /\ n.other = None
    <3>1. seq[i] \in Step
      OBVIOUS
    <3> QED
      BY <3>1 DEF Step, InLine, Drawn
  <2>3. node = kept(id)
    <3>1. id \in ids
      OBVIOUS
    <3> HIDE DEF ids, kept, id
    <3> QED
      BY <1>1, <3>1
  <2>4. node = [n EXCEPT !.next = next, !.field = field]
    BY <2>1, <2>2, <2>3 DEF Node
  <2>5. SavedNode(n) = [n EXCEPT !.field = field]
    BY DEF SavedNode
  <2> HIDE DEF id, next, n, field, node
  <2>6. node.kind = n.kind /\ node.next = next
    BY <2>2, <2>4 DEF Node
  <2>7. After(node) = next
    BY <2>2, <2>6 DEF After, StepKinds, Silent
  <2>8. [node EXCEPT !.next = None, !.other = None] = SavedNode(n)
    BY <2>2, <2>4, <2>5 DEF Node
  <2> QED
    BY <2>2, <2>6, <2>7, <2>8 DEF id, next, n, node
<1> QED
  BY <1>1, <1>2

\* As many nodes as steps.
LEMMA NodesOfLine ==
  ASSUME NEW seq \in Seq(Step), Once(seq)
  PROVE  Cardinality({seq[i][1] : i \in DOMAIN seq}) = Len(seq)
<1> DEFINE ids == {seq[i][1] : i \in DOMAIN seq}
           f == [i \in 1..Len(seq) |-> seq[i][1]]
<1>1. Len(seq) \in Nat /\ DOMAIN seq = 1..Len(seq)
  OBVIOUS
<1>2. f \in [1..Len(seq) -> ids] /\ \A id \in ids : \E i \in 1..Len(seq) : f[i] = id
  BY <1>1
<1>3. \A i, j \in 1..Len(seq) : f[i] = f[j] => i = j
  BY <1>1 DEF Once
<1> HIDE DEF ids, f
<1>4. f \in Surjection(1..Len(seq), ids) /\ f \in Injection(1..Len(seq), ids)
  BY <1>2, <1>3 DEF Surjection, Injection, IsInjective
<1>5. IsFiniteSet(1..Len(seq)) /\ Cardinality(1..Len(seq)) = Len(seq)
  BY <1>1, FS_Interval
<1> QED
  BY <1>4, <1>5, FS_Surjection DEF ids

\* What a line of steps is saved as is shown as that line.
LEMMA LineReturns ==
  ASSUME NEW seq \in Seq(Step), InLine(seq)
  PROVE  DefToSteps(StepsToDef(seq)) = Saved(seq)
<1> DEFINE def == StepsToDef(seq)
           turns == PassTurns(def)
           saved == Saved(seq)
<1>1. IsScript(def)
  BY StepsToDefType
<1> PICK walk : Passes(def, walk)
  BY <1>1, PassesExist
<1>2. /\ turns = Len(seq) /\ turns \in Nat /\ DOMAIN seq = 1..turns
      /\ DOMAIN def.nodes = {seq[i][1] : i \in DOMAIN seq}
  <2>1. DOMAIN def.nodes = {seq[i][1] : i \in DOMAIN seq}
    BY SavedNodes
  <2>2. Len(seq) \in Nat /\ DOMAIN seq = 1..Len(seq)
    OBVIOUS
  <2> QED
    BY <2>1, <2>2, NodesOfLine DEF InLine, PassTurns
<1>3. \A i \in DOMAIN seq : /\ def.nodes[seq[i][1]].kind \in StepKinds
                            /\ After(def.nodes[seq[i][1]]) = IF i = Len(seq) THEN None ELSE seq[i + 1][1]
                            /\ [def.nodes[seq[i][1]] EXCEPT !.next = None, !.other = None] = SavedNode(seq[i][2])
  BY SavedNodes
<1>4. def.start = IF seq = << >> THEN "n1" ELSE seq[1][1]
  BY DEF StepsToDef
<1>5. \A i \in DOMAIN seq : saved[i] = <<seq[i][1], SavedNode(seq[i][2])>>
  BY DEF Saved
<1>6. saved \in Seq({saved[i] : i \in DOMAIN seq}) /\ Len(saved) = turns /\ DOMAIN saved = 1..turns
  BY <1>2 DEF Saved
<1> HIDE DEF def, turns, saved
<1> DEFINE Far(w, n) == /\ w.seen = {seq[i][1] : i \in 1..n} /\ w.shown = SubSeq(saved, 1, n)
                        /\ n < turns => w.cur = seq[n + 1][1]
           good == {n \in 0..turns : Far(walk[n], n)}
<1>7. 0 \in good
  <2>1. walk[0] = Start(def)
    BY DEF Passes
  <2>2. /\ SubSeq(saved, 1, 0) = << >> /\ {seq[i][1] : i \in 1..0} = {} /\ 0 \in 0..turns
    BY <1>2, <1>6
  <2>3. 0 < turns => seq # << >>
    BY <1>2
  <2>4. 0 < turns => def.start = seq[0 + 1][1]
    BY <1>4, <2>3
  <2>5. walk[0].cur = def.start /\ walk[0].seen = {} /\ walk[0].shown = << >>
    BY <2>1 DEF Start
  <2> QED
    BY <2>2, <2>4, <2>5
<1>8. ASSUME NEW m \in 1..turns, m - 1 \in good PROVE m \in good
  <2> DEFINE w == walk[m - 1]
  <2>1. walk[m] = Pass(def, w) /\ Far(w, m - 1) /\ m \in 0..turns /\ m \in DOMAIN seq /\ m - 1 + 1 = m /\ m - 1 < turns
    BY <1>2, <1>8 DEF Passes, turns
  <2> HIDE DEF w
  <2>2. w.cur = seq[m][1] /\ w.cur \in DOMAIN def.nodes
    BY <1>2, <2>1
  <2>3. w.cur \notin w.seen
    <3>1. \A i \in 1..(m - 1) : i \in DOMAIN seq /\ i # m
      BY <1>2
    <3> QED
      BY <2>1, <2>2, <3>1 DEF InLine, Once
  <2> DEFINE node == def.nodes[w.cur]
             new == <<w.cur, [node EXCEPT !.next = None, !.other = None]>>
  <2>5. walk[m] = [cur |-> After(node), seen |-> w.seen \cup {w.cur}, shown |-> Append(w.shown, new)]
    BY <1>3, <2>1, <2>2, <2>3 DEF Pass
  <2>6. new = saved[m]
    <3>1. [def.nodes[seq[m][1]] EXCEPT !.next = None, !.other = None] = SavedNode(seq[m][2])
      BY <1>3, <2>1
    <3>2. saved[m] = <<seq[m][1], SavedNode(seq[m][2])>>
      BY <1>5, <2>1
    <3> QED
      BY <2>2, <3>1, <3>2
  <2> HIDE DEF node, new
  <2>7. Append(w.shown, new) = SubSeq(saved, 1, m)
    <3>1. m \in Nat /\ m - 1 \in Nat /\ m <= Len(saved)
      BY <1>2, <1>6
    <3>2. w.shown = SubSeq(saved, 1, m - 1)
      BY <2>1
    <3> QED
      BY <1>6, <2>6, <3>1, <3>2
  <2>8. {seq[i][1] : i \in 1..m} = {seq[i][1] : i \in 1..(m - 1)} \cup {seq[m][1]}
    <3>1. 1..m = 1..(m - 1) \cup {m}
      OBVIOUS
    <3> QED
      BY <3>1
  <2>9. m < turns => After(node) = seq[m + 1][1]
    <3>1. m < turns => m # Len(seq)
      BY <1>2
    <3>2. After(def.nodes[seq[m][1]]) = IF m = Len(seq) THEN None ELSE seq[m + 1][1]
      BY <1>3, <2>1
    <3> QED
      BY <2>2, <3>1, <3>2 DEF node
  <2>10. walk[m].seen = {seq[i][1] : i \in 1..m}
    BY <2>1, <2>2, <2>5, <2>8
  <2>11. walk[m].shown = SubSeq(saved, 1, m) /\ walk[m].cur = After(node)
    BY <2>5, <2>7
  <2> QED
    BY <2>1, <2>9, <2>10, <2>11
<1>9. 0..turns \subseteq good
  <2> HIDE DEF good
  <2> QED
    BY <1>2, <1>7, <1>8, EveryTurn
<1>10. turns \in good
  BY <1>2, <1>9
<1>11. SubSeq(saved, 1, turns) = saved
  BY <1>2, <1>6
<1> QED
  BY <1>10, <1>11 DEF Passes, turns, def, saved

\* Steps taken from a line, none twice, are a line.
LEMMA TakenFromLine ==
  ASSUME NEW seq, InLine(seq), NEW new, NEW from \in [DOMAIN new -> DOMAIN seq],
         \A k, l \in DOMAIN new : from[k] = from[l] => k = l,
         \A k \in DOMAIN new : new[k] = seq[from[k]]
  PROVE  InLine(new)
BY DEF InLine, Once

LEMMA RemoveInLine ==
  ASSUME NEW seq \in Seq(Step), InLine(seq), NEW i \in DOMAIN seq
  PROVE  InLine(RemoveAt(seq, i))
<1> DEFINE new == RemoveAt(seq, i)
           from == [k \in 1..(Len(seq) - 1) |-> IF k < i THEN k ELSE k + 1]
<1>1. Len(seq) \in Nat /\ DOMAIN seq = 1..Len(seq) /\ i \in 1..Len(seq)
  OBVIOUS
<1>2. /\ Len(SubSeq(seq, 1, i - 1)) = i - 1 /\ Len(SubSeq(seq, i + 1, Len(seq))) = Len(seq) - i
      /\ SubSeq(seq, 1, i - 1) \in Seq(Step) /\ SubSeq(seq, i + 1, Len(seq)) \in Seq(Step)
  BY <1>1
<1>3. DOMAIN new = 1..(Len(seq) - 1)
  BY <1>1, <1>2 DEF RemoveAt
<1>4. \A k \in 1..(Len(seq) - 1) : from[k] \in 1..Len(seq) /\ from[k] = IF k < i THEN k ELSE k + 1
  BY <1>1
<1>5. ASSUME NEW k \in 1..(Len(seq) - 1) PROVE new[k] = seq[from[k]]
  <2> DEFINE left == SubSeq(seq, 1, i - 1)
             right == SubSeq(seq, i + 1, Len(seq))
  <2>1. \A n \in 1..(i - 1) : left[n] = seq[n]
    BY <1>1
  <2>2. \A n \in 1..(Len(seq) - i) : right[n] = seq[i + n]
    BY <1>1
  <2>3. new = left \o right /\ left \in Seq(Step) /\ right \in Seq(Step)
        /\ Len(left) = i - 1 /\ Len(right) = Len(seq) - i
    BY <1>2 DEF RemoveAt
  <2> HIDE DEF left, right, new, from
  <2>4. CASE k < i
    BY <1>1, <1>4, <2>1, <2>3, <2>4
  <2>5. CASE ~(k < i)
    <3>1. k - (i - 1) \in 1..(Len(seq) - i) /\ i + (k - (i - 1)) = k + 1
      BY <1>1, <2>5
    <3>2. k \in 1..(Len(left) + Len(right)) /\ ~(k <= Len(left)) /\ k - Len(left) = k - (i - 1)
      BY <1>1, <2>3, <2>5
    <3>3. (left \o right)[k] = right[k - Len(left)]
      <4>1. left \in Seq(Step) /\ right \in Seq(Step)
        BY <2>3
      <4> QED
        BY <3>2, <4>1, SMTT(20)
    <3>4. new[k] = right[k - (i - 1)]
      BY <2>3, <3>2, <3>3
    <3>5. right[k - (i - 1)] = seq[k + 1]
      BY <2>2, <3>1
    <3> QED
      BY <1>4, <2>5, <3>4, <3>5
  <2> QED
    BY <2>4, <2>5
<1> HIDE DEF new
<1>6. from \in [DOMAIN new -> DOMAIN seq]
  BY <1>1, <1>3, <1>4
<1> HIDE DEF from
<1>7. ASSUME NEW k \in 1..(Len(seq) - 1), NEW l \in 1..(Len(seq) - 1), from[k] = from[l]
      PROVE  k = l
  <2>1. (IF k < i THEN k ELSE k + 1) = (IF l < i THEN l ELSE l + 1)
    BY <1>4, <1>7
  <2> QED
    BY <1>1, <2>1
<1> QED
  BY <1>3, <1>5, <1>6, <1>7, TakenFromLine DEF new

LEMMA MoveInLine ==
  ASSUME NEW seq \in Seq(Step), InLine(seq), NEW i \in DOMAIN seq, NEW j \in DOMAIN seq
  PROVE  InLine([seq EXCEPT ![i] = seq[j], ![j] = seq[i]])
<1> DEFINE new == [seq EXCEPT ![i] = seq[j], ![j] = seq[i]]
           from == [k \in DOMAIN seq |-> IF k = j THEN i ELSE IF k = i THEN j ELSE k]
<1>1. DOMAIN new = DOMAIN seq /\ from \in [DOMAIN new -> DOMAIN seq]
  OBVIOUS
<1>2. \A k \in DOMAIN new : new[k] = seq[from[k]]
  OBVIOUS
<1>3. \A k, l \in DOMAIN new : from[k] = from[l] => k = l
  OBVIOUS
<1> HIDE DEF new, from
<1>4. InLine(new)
  BY <1>1, <1>2, <1>3, TakenFromLine
<1> QED
  BY <1>4 DEF new

LEMMA InsertInLine ==
  ASSUME NEW seq \in Seq(Step), InLine(seq), NEW pos \in 1..(Len(seq) + 1), NEW new \in Step, Drawn(new[2]),
         \A i \in DOMAIN seq : seq[i][1] # new[1]
  PROVE  InLine(InsertAt(seq, pos, new))
<1> DEFINE longer == InsertAt(seq, pos, new)
           left == SubSeq(seq, 1, pos - 1)
           right == SubSeq(seq, pos, Len(seq))
           most == left \o <<new>>
           from == [k \in 1..(Len(seq) + 1) |-> IF k < pos THEN k ELSE k - 1]
<1>1. Len(seq) \in Nat /\ DOMAIN seq = 1..Len(seq)
  OBVIOUS
<1>2. left \in Seq(Step) /\ Len(left) = pos - 1 /\ \A n \in 1..(pos - 1) : left[n] = seq[n]
  BY <1>1
<1>3. right \in Seq(Step) /\ Len(right) = Len(seq) - pos + 1
  BY <1>1
<1>4. \A n \in 1..(Len(seq) - pos + 1) : right[n] = seq[pos + n - 1]
  BY <1>1
<1>5. longer = most \o right
  BY DEF InsertAt
<1> HIDE DEF left, right, longer
<1>6. /\ most \in Seq(Step) /\ Len(most) = pos
      /\ most[pos] = new /\ \A k \in 1..(pos - 1) : most[k] = seq[k]
  <2>1. most = Append(left, new)
    BY <1>2
  <2>2. pos - 1 \in Nat /\ pos - 1 + 1 = pos
    BY <1>1
  <2>3. Append(left, new) \in Seq(Step) /\ Len(Append(left, new)) = pos
    BY <1>2, <2>2
  <2>4. Append(left, new)[pos] = new /\ \A k \in 1..(pos - 1) : Append(left, new)[k] = left[k]
    BY <1>2, <2>2
  <2> QED
    BY <1>2, <2>1, <2>3, <2>4
<1> HIDE DEF most
<1>7. DOMAIN longer = 1..(Len(seq) + 1)
  <2>1. Len(most \o right) = pos + (Len(seq) - pos + 1) /\ most \o right \in Seq(Step)
    BY <1>3, <1>6
  <2> QED
    BY <1>1, <1>5, <2>1
<1>8. longer[pos] = new /\ \A k \in 1..(pos - 1) : longer[k] = seq[k]
  BY <1>3, <1>5, <1>6
<1>9. ASSUME NEW k \in (pos + 1)..(Len(seq) + 1) PROVE longer[k] = seq[k - 1]
  <2>1. k - pos \in 1..(Len(seq) - pos + 1) /\ pos + (k - pos) - 1 = k - 1
    BY <1>1
  <2>2. longer[k] = right[k - pos]
    BY <1>1, <1>3, <1>5, <1>6
  <2>3. right[k - pos] = seq[pos + (k - pos) - 1]
    BY <1>4, <2>1
  <2> QED
    BY <2>1, <2>2, <2>3
<1>10. ASSUME NEW k \in DOMAIN longer, k # pos
       PROVE  from[k] \in DOMAIN seq /\ longer[k] = seq[from[k]] /\ from[k] = IF k < pos THEN k ELSE k - 1
  BY <1>1, <1>7, <1>8, <1>9, <1>10
<1> HIDE DEF from
<1>11. \A k \in DOMAIN longer : Drawn(longer[k][2])
  BY <1>8, <1>10 DEF InLine
<1>12. \A k, l \in DOMAIN longer : k # pos /\ l # pos /\ from[k] = from[l] => k = l
  BY <1>1, <1>7, <1>10
<1>13. Once(longer)
  <2> SUFFICES ASSUME NEW k \in DOMAIN longer, NEW l \in DOMAIN longer, longer[k][1] = longer[l][1]
               PROVE  k = l
    BY DEF Once
  <2>1. CASE k = pos \/ l = pos
    BY <1>8, <1>10, <2>1
  <2>2. CASE k # pos /\ l # pos
    BY <1>10, <1>12, <2>2 DEF InLine, Once
  <2> QED
    BY <2>1, <2>2
<1> QED
  BY <1>11, <1>13 DEF InLine, longer

LEMMA PatchInLine ==
  ASSUME NEW seq \in Seq(Step), InLine(seq), NEW i \in DOMAIN seq, NEW part \in {"field", "expect", "choices"},
         NEW value
  PROVE  InLine([seq EXCEPT ![i][2] = [seq[i][2] EXCEPT ![part] = value]])
<1> DEFINE node == [seq[i][2] EXCEPT ![part] = value]
           new == [seq EXCEPT ![i][2] = node]
<1>1. seq[i] \in Step /\ seq[i][2] \in Node /\ Drawn(seq[i][2])
  <2>1. seq[i] \in Step
    OBVIOUS
  <2> QED
    BY <2>1 DEF Step, InLine
<1>2. Drawn(node)
  BY <1>1 DEF Drawn, Node
<1> HIDE DEF node
<1>3. [seq[i] EXCEPT ![2] = node] = <<seq[i][1], node>>
  BY <1>1 DEF Step
<1>4. DOMAIN new = DOMAIN seq /\ \A k \in DOMAIN seq : new[k][1] = seq[k][1]
  BY <1>3
<1>5. \A k \in DOMAIN seq : new[k][2] = IF k = i THEN node ELSE seq[k][2]
  BY <1>3
<1> HIDE DEF new
<1> QED
  BY <1>2, <1>4, <1>5 DEF InLine, Once, new, node

\* However the steps are edited, they stay a line.
LEMMA EditorInLine ==
  ASSUME EditorInv, InLine(steps), EditorNext
  PROVE  InLine(steps')
<1>1. steps \in Seq(Step) /\ IsScript(scenario.definition)
  BY DEF EditorInv
<1>2. CASE OpenEditor
  BY <1>1, <1>2, ShownInLine DEF OpenEditor
<1>3. ASSUME NEW i \in DOMAIN steps, PatchQuestion(i)
      PROVE  InLine(steps')
  <2>1. ASSUME NEW part \in {"field", "expect", "choices"}, NEW value, Patch(i, part, value)
        PROVE  InLine(steps')
    BY <1>1, <2>1, PatchInLine DEF Patch, Becomes
  <2>2. "field" \in {"field", "expect", "choices"} /\ "expect" \in {"field", "expect", "choices"}
        /\ "choices" \in {"field", "expect", "choices"}
    OBVIOUS
  <2>3. CASE \E f \in FieldNames : Patch(i, "field", f)
    BY <2>1, <2>2, <2>3
  <2>4. CASE \E e \in Expects : Patch(i, "expect", e)
    BY <2>1, <2>2, <2>4
  <2>5. CASE \E c \in ChoiceSets : Patch(i, "choices", c)
    BY <2>1, <2>2, <2>5
  <2> QED
    BY <1>3, <2>3, <2>4, <2>5 DEF PatchQuestion
<1>4. ASSUME NEW i \in DOMAIN steps, RemoveStep(i)
      PROVE  InLine(steps')
  BY <1>1, <1>4, RemoveInLine DEF RemoveStep, Becomes
<1>5. ASSUME NEW i \in DOMAIN steps, MoveStep(i, i + 1)
      PROVE  InLine(steps')
  BY <1>1, <1>5, MoveInLine DEF MoveStep, Becomes
<1>6. ASSUME NEW kind \in StepKinds, NEW at \in 0..Len(steps), AddStep(kind, at)
      PROVE  InLine(steps')
  <2> PICK id \in NodeIds \ {steps[i][1] : i \in DOMAIN steps} :
             Becomes(InsertAt(steps, at + 1, <<id, Blank(kind)>>))
    BY <1>6 DEF AddStep
  <2> DEFINE new == <<id, Blank(kind)>>
  <2>1. new \in Step /\ Drawn(new[2]) /\ \A i \in DOMAIN steps : steps[i][1] # new[1]
    BY BlankType DEF Step, Drawn, Blank
  <2>2. steps' = InsertAt(steps, at + 1, new)
    BY DEF Becomes
  <2> HIDE DEF new
  <2>3. at + 1 \in 1..(Len(steps) + 1)
    BY <1>1
  <2> QED
    BY <1>1, <2>1, <2>2, <2>3, InsertInLine
<1>7. CASE ToggleFlow \/ DeleteFlow \/ \E covered \in BOOLEAN : SaveFlow(covered)
  <2>1. steps' = steps
    BY <1>7 DEF ToggleFlow, DeleteFlow, SaveFlow
  <2> QED
    BY <2>1
<1> QED
  BY <1>2, <1>3, <1>4, <1>5, <1>6, <1>7 DEF EditorNext

\* Saving the steps of a tab loses none of them: whatever was edited in whatever
\* order, the editor opened again on what was saved shows the same steps in the
\* same order (stepsToDef and defToSteps of SequenceEditor.tsx undo each other).
\* Only a question without a name gets one.
THEOREM SavedStepsReturn == FormsSpec => [](DefToSteps(StepsToDef(steps)) = Saved(steps))
<1> DEFINE LineInv == FormsInv /\ InLine(steps)
<1>1. FormsInit => LineInv
  <2> SUFFICES ASSUME FormsInit PROVE InLine(steps)
    BY InitFormTypes
  <2>1. steps = << >>
    BY DEF FormsInit, EditorInit
  <2> QED
    BY <2>1 DEF InLine, Once
<1>2. LineInv /\ [FormsNext]_<<scenarioVars, formVars>> => LineInv'
  <2> SUFFICES ASSUME FormsInv, InLine(steps), [FormsNext]_<<scenarioVars, formVars>> PROVE InLine(steps')
    BY NextFormTypes DEF LineInv
  <2>1. CASE EditorNext
    BY <2>1, EditorInLine DEF FormsInv
  <2>2. CASE UNCHANGED scenarioVars
    BY <2>2 DEF scenarioVars
  <2>3. EditorNext \/ UNCHANGED scenarioVars
    <3>1. CASE BotSaves
      BY <3>1 DEF BotSaves, Stores
    <3>2. ASSUME NEW p \in Pages, OpenPage(p) \/ SaveFields(p) \/ \E k \in FieldNames : \E t \in Blanks : Type(p, k, t)
          PROVE  UNCHANGED scenarioVars
      BY <3>2 DEF OpenPage, SaveFields, Type
    <3>3. CASE UNCHANGED <<scenarioVars, formVars>>
      BY <3>3
    <3> QED
      BY <3>1, <3>2, <3>3 DEF FormsNext
  <2> QED
    BY <2>1, <2>2, <2>3
<1>3. LineInv => DefToSteps(StepsToDef(steps)) = Saved(steps)
  BY LineReturns DEF FormsInv, EditorInv
<1> QED
  BY <1>1, <1>2, <1>3, PTL DEF FormsSpec

-------------------------------------------------------------------------------
(* What deriveFieldSchema walks through *)

\* Where a node leads, of what is there.
Exits(def, id) ==
  ({def.nodes[id].next} \cup (IF def.nodes[id].kind = "condition" THEN {def.nodes[id].other} ELSE {}))
    \cap DOMAIN def.nodes

\* The start of a script, if it is there, and whatever its members lead to.
Holds(def, set) ==
  /\ def.start \in DOMAIN def.nodes => def.start \in set
  /\ \A id \in set : Exits(def, id) \subseteq set

Left(def, walk) == Cardinality(DOMAIN def.nodes \ ToSet(walk.ordered))

\* Within turn n, as many turns are left as the queue and the nodes that were not
\* there yet can take.
InTime(def, walk, n) ==
  walk.queue = << >> \/ Len(walk.queue) + 2 * Left(def, walk) + n <= 2 * Cardinality(DOMAIN def.nodes) + 1

Waiting(def, walk) == ToSet(walk.queue) \cap DOMAIN def.nodes

\* Nothing twice; what is led to is there already or waits in the queue.
Orderly(def, walk) ==
  /\ \A i, j \in DOMAIN walk.ordered : walk.ordered[i] = walk.ordered[j] => i = j
  /\ {def.start} \cap DOMAIN def.nodes \subseteq ToSet(walk.ordered) \cup Waiting(def, walk)
  /\ \A id \in ToSet(walk.ordered) : Exits(def, id) \subseteq ToSet(walk.ordered) \cup Waiting(def, walk)

\* Only what any such set holds.
Within(def, walk, set) == ToSet(walk.ordered) \cup Waiting(def, walk) \subseteq set

LEMMA SetOfQueue ==
  ASSUME NEW D, NEW s \in Seq(D), s # << >>
  PROVE  /\ ToSet(s) = {Head(s)} \cup ToSet(Tail(s))
         /\ Tail(s) \in Seq(D) /\ Head(s) \in D /\ Len(Tail(s)) = Len(s) - 1
<1>1. /\ Tail(s) \in Seq(D) /\ Head(s) \in D /\ Len(s) \in Nat /\ Len(s) # 0
      /\ Len(Tail(s)) = Len(s) - 1 /\ Head(s) = s[1]
  OBVIOUS
<1>2. \A i \in 1..(Len(s) - 1) : Tail(s)[i] = s[i + 1]
  OBVIOUS
<1>3. DOMAIN s = 1..Len(s) /\ DOMAIN Tail(s) = 1..(Len(s) - 1)
  BY <1>1
<1>4. \A i \in DOMAIN Tail(s) : i + 1 \in DOMAIN s /\ s[i + 1] = Tail(s)[i]
  BY <1>1, <1>2, <1>3
<1>5. ASSUME NEW i \in DOMAIN s, i # 1
      PROVE  i - 1 \in DOMAIN Tail(s) /\ Tail(s)[i - 1] = s[i]
  <2>1. i - 1 \in 1..(Len(s) - 1) /\ (i - 1) + 1 = i
    BY <1>1, <1>3, <1>5
  <2> QED
    BY <1>2, <1>3, <2>1
<1>6. 1 \in DOMAIN s
  BY <1>1, <1>3
<1>7. ASSUME NEW x \in ToSet(s) PROVE x \in {Head(s)} \cup ToSet(Tail(s))
  <2>1. PICK i \in DOMAIN s : s[i] = x
    BY DEF ToSet
  <2>2. CASE i = 1
    BY <1>1, <2>1, <2>2
  <2>3. CASE i # 1
    BY <1>5, <2>1, <2>3 DEF ToSet
  <2> QED
    BY <2>2, <2>3
<1>8. ASSUME NEW x \in ToSet(Tail(s)) PROVE x \in ToSet(s)
  <2>1. PICK i \in DOMAIN Tail(s) : Tail(s)[i] = x
    BY DEF ToSet
  <2>2. i + 1 \in DOMAIN s /\ s[i + 1] = x
    BY <1>4, <2>1
  <2> QED
    BY <2>2 DEF ToSet
<1>9. Head(s) \in ToSet(s)
  BY <1>1, <1>6 DEF ToSet
<1>10. ToSet(s) = {Head(s)} \cup ToSet(Tail(s))
  BY <1>7, <1>8, <1>9
<1> QED
  BY <1>1, <1>10

LEMMA SetOfJoined ==
  ASSUME NEW D, NEW s \in Seq(D), NEW t \in Seq(D)
  PROVE  ToSet(s \o t) = ToSet(s) \cup ToSet(t) /\ Len(s \o t) = Len(s) + Len(t)
<1>1. \A i \in DOMAIN s : i \in DOMAIN (s \o t) /\ (s \o t)[i] = s[i]
  BY JoinedSequences
<1>2. \A i \in DOMAIN t : Len(s) + i \in DOMAIN (s \o t) /\ (s \o t)[Len(s) + i] = t[i]
  BY JoinedSequences
<1>3. \A i \in DOMAIN (s \o t) : i \in DOMAIN s \/ i - Len(s) \in DOMAIN t
  OBVIOUS
<1>4. ASSUME NEW i \in DOMAIN (s \o t), i \notin DOMAIN s
      PROVE  (s \o t)[i] = t[i - Len(s)]
  <2>1. Len(s) \in Nat /\ Len(t) \in Nat /\ DOMAIN s = 1..Len(s) /\ i \in 1..(Len(s) + Len(t))
    OBVIOUS
  <2>2. i - Len(s) \in DOMAIN t /\ Len(s) + (i - Len(s)) = i
    BY <1>3, <1>4, <2>1
  <2> QED
    BY <1>2, <2>2
<1>5. Len(s \o t) = Len(s) + Len(t)
  OBVIOUS
<1>6. ASSUME NEW x \in ToSet(s \o t) PROVE x \in ToSet(s) \cup ToSet(t)
  <2>1. PICK i \in DOMAIN (s \o t) : (s \o t)[i] = x
    BY DEF ToSet
  <2>2. CASE i \in DOMAIN s
    BY <1>1, <2>1, <2>2 DEF ToSet
  <2>3. CASE i \notin DOMAIN s
    <3>1. i - Len(s) \in DOMAIN t /\ t[i - Len(s)] = x
      BY <1>3, <1>4, <2>1, <2>3
    <3> QED
      BY <3>1 DEF ToSet
  <2> QED
    BY <2>2, <2>3
<1>7. ASSUME NEW x \in ToSet(s) PROVE x \in ToSet(s \o t)
  <2>1. PICK i \in DOMAIN s : s[i] = x
    BY <1>7 DEF ToSet
  <2>2. i \in DOMAIN (s \o t) /\ (s \o t)[i] = x
    BY <1>1, <2>1
  <2> QED
    BY <2>2 DEF ToSet
<1>8. ASSUME NEW x \in ToSet(t) PROVE x \in ToSet(s \o t)
  <2>1. PICK i \in DOMAIN t : t[i] = x
    BY <1>8 DEF ToSet
  <2>2. Len(s) + i \in DOMAIN (s \o t) /\ (s \o t)[Len(s) + i] = x
    BY <1>2, <2>1
  <2> QED
    BY <2>2 DEF ToSet
<1> QED
  BY <1>5, <1>6, <1>7, <1>8

LEMMA SetOfLonger ==
  ASSUME NEW D, NEW s \in Seq(D), NEW e \in D
  PROVE  ToSet(Append(s, e)) = ToSet(s) \cup {e}
<1>1. \A i \in DOMAIN s : i \in DOMAIN Append(s, e) /\ Append(s, e)[i] = s[i]
  OBVIOUS
<1>2. Len(s) + 1 \in DOMAIN Append(s, e) /\ Append(s, e)[Len(s) + 1] = e
  OBVIOUS
<1>3. \A i \in DOMAIN Append(s, e) : i \in DOMAIN s \/ i = Len(s) + 1
  OBVIOUS
<1> QED
  BY <1>1, <1>2, <1>3 DEF ToSet

\* What one turn of the walk does.
LEMMA TurnMeans ==
  ASSUME NEW def, IsScript(def), NEW walk \in Queued(def)
  PROVE  \/ walk.queue = << >> /\ Turn(def, walk) = walk
         \/ /\ Turn(def, walk).ordered = walk.ordered
            /\ Len(Turn(def, walk).queue) + 1 = Len(walk.queue)
            /\ Waiting(def, Turn(def, walk)) \subseteq Waiting(def, walk)
            /\ Waiting(def, walk) \subseteq Waiting(def, Turn(def, walk)) \cup ToSet(walk.ordered)
         \/ \E id \in Waiting(def, walk) \ ToSet(walk.ordered) :
              /\ Turn(def, walk).ordered = Append(walk.ordered, id)
              /\ Len(Turn(def, walk).queue) <= Len(walk.queue) + 1
              /\ Waiting(def, Turn(def, walk)) \subseteq Waiting(def, walk) \cup Exits(def, id)
              /\ Waiting(def, walk) \cup Exits(def, id) \subseteq Waiting(def, Turn(def, walk)) \cup {id}
<1> DEFINE turned == Turn(def, walk)
<1>1. CASE walk.queue = << >>
  BY <1>1 DEF Turn
<1>2. CASE walk.queue # << >>
  <2> DEFINE id == Head(walk.queue)
             rest == Tail(walk.queue)
             to(target) == IF target = None THEN << >> ELSE <<target>>
             node == def.nodes[id]
             other == IF node.kind = "condition" THEN to(node.other) ELSE << >>
             more == to(node.next) \o rest \o other
  <2>1. /\ walk.queue \in Seq(NodeOrNone) /\ walk.ordered \in Seq(DOMAIN def.nodes)
        /\ walk = [queue |-> walk.queue, ordered |-> walk.ordered]
    BY DEF Queued
  <2>2. /\ ToSet(walk.queue) = {id} \cup ToSet(rest) /\ id \in NodeOrNone
        /\ rest \in Seq(NodeOrNone) /\ Len(rest) = Len(walk.queue) - 1 /\ Len(walk.queue) \in Nat
    <3>1. Len(walk.queue) \in Nat
      BY <2>1
    <3> QED
      BY <1>2, <2>1, <3>1, SetOfQueue
  <2>3. Contains(walk.ordered, id) <=> id \in ToSet(walk.ordered)
    BY <2>1 DEF Contains, ToSet
  <2>4. CASE id \notin DOMAIN def.nodes \ ToSet(walk.ordered)
    <3>1. turned = [walk EXCEPT !.queue = rest]
      BY <1>2, <2>3, <2>4 DEF Turn
    <3> HIDE DEF rest, turned
    <3>2. turned.queue = rest /\ turned.ordered = walk.ordered
      BY <2>1, <3>1
    <3>3. /\ Waiting(def, turned) \subseteq Waiting(def, walk)
          /\ Waiting(def, walk) \subseteq Waiting(def, turned) \cup ToSet(walk.ordered)
      BY <2>2, <2>4, <3>2 DEF Waiting
    <3>4. Len(turned.queue) + 1 = Len(walk.queue)
      BY <2>2, <3>2
    <3> QED
      BY <3>2, <3>3, <3>4 DEF turned
  <2>5. CASE id \in DOMAIN def.nodes \ ToSet(walk.ordered)
    <3>1. turned = [queue |-> more, ordered |-> Append(walk.ordered, id)]
      BY <1>2, <2>3, <2>5 DEF Turn
    <3>2. node \in Node
      BY <2>5 DEF IsScript
    <3>3. ASSUME NEW target \in NodeOrNone
          PROVE  /\ to(target) \in Seq(NodeOrNone) /\ Len(to(target)) \in {0, 1}
                 /\ ToSet(to(target)) = {target} \ {None}
      <4>1. CASE target = None
        <5>1. to(target) = << >> /\ DOMAIN to(target) = {}
          BY <4>1
        <5> QED
          BY <4>1, <5>1 DEF ToSet
      <4>2. CASE target # None
        <5>1. to(target) = <<target>> /\ DOMAIN to(target) = {1} /\ to(target)[1] = target
          BY <4>2
        <5> QED
          BY <4>2, <5>1 DEF ToSet
      <4> QED
        BY <4>1, <4>2
    <3>4. node.next \in NodeOrNone /\ node.other \in NodeOrNone
      BY <3>2 DEF Node
    <3>5. /\ other \in Seq(NodeOrNone) /\ Len(other) \in {0, 1}
          /\ ToSet(other) = (IF node.kind = "condition" THEN {node.other} ELSE {}) \ {None}
      <4>1. CASE node.kind = "condition"
        BY <3>3, <3>4, <4>1
      <4>2. CASE node.kind # "condition"
        <5>1. other = << >> /\ DOMAIN other = {}
          BY <4>2
        <5> QED
          BY <4>2, <5>1 DEF ToSet
      <4> QED
        BY <4>1, <4>2
    <3>6. /\ to(node.next) \in Seq(NodeOrNone) /\ Len(to(node.next)) \in {0, 1}
          /\ ToSet(to(node.next)) = {node.next} \ {None}
      BY <3>3, <3>4
    <3> DEFINE first == to(node.next)
               front == first \o rest
    <3> HIDE DEF rest, other, node, turned, first
    <3>7. /\ ToSet(front) = ToSet(first) \cup ToSet(rest)
          /\ Len(front) = Len(first) + Len(rest) /\ front \in Seq(NodeOrNone)
      <4>1. first \in Seq(NodeOrNone) /\ rest \in Seq(NodeOrNone)
        BY <2>2, <3>6 DEF first
      <4>2. front \in Seq(NodeOrNone)
        BY <4>1
      <4> QED
        BY <4>1, <4>2, SetOfJoined
    <3>8. /\ ToSet(more) = ToSet(front) \cup ToSet(other)
          /\ Len(more) = Len(front) + Len(other)
      <4>1. more = front \o other
        BY DEF first
      <4> HIDE DEF more, front
      <4> QED
        BY <3>5, <3>7, <4>1, SetOfJoined
    <3> HIDE DEF more, front
    <3>9. turned.queue = more /\ turned.ordered = Append(walk.ordered, id)
      BY <3>1
    <3>10. Len(turned.queue) <= Len(walk.queue) + 1
      <4>1. Len(first) \in {0, 1} /\ Len(other) \in {0, 1}
        BY <3>5, <3>6 DEF first
      <4>2. Len(turned.queue) = Len(first) + (Len(walk.queue) - 1) + Len(other)
        BY <2>2, <3>7, <3>8, <3>9
      <4>3. \A a, b \in {0, 1}, n \in Nat : a + (n - 1) + b <= n + 1
        OBVIOUS
      <4> QED
        BY <2>2, <4>1, <4>2, <4>3
    <3>11. None \notin DOMAIN def.nodes
      BY EditorAssumption DEF IsScript, EditorAssumption
    <3>12. Waiting(def, turned) = (ToSet(rest) \cap DOMAIN def.nodes) \cup Exits(def, id)
      BY <3>5, <3>6, <3>7, <3>8, <3>9, <3>11 DEF Waiting, Exits, node, first
    <3>13. Waiting(def, walk) = (ToSet(rest) \cap DOMAIN def.nodes) \cup {id}
      BY <2>2, <2>5 DEF Waiting
    <3>14. id \in Waiting(def, walk) \ ToSet(walk.ordered)
      BY <2>5, <3>13
    <3> HIDE DEF id
    <3> QED
      BY <3>9, <3>10, <3>12, <3>13, <3>14 DEF turned
  <2> QED
    BY <2>4, <2>5
<1> QED
  BY <1>1, <1>2

\* A turn takes one of those that were left; what waited is looked at or waits on.
LEMMA TurnKeeps ==
  ASSUME NEW def, IsScript(def), NEW walk \in Queued(def), NEW n \in Nat, NEW set, Holds(def, set),
         InTime(def, walk, n), Orderly(def, walk), Within(def, walk, set)
  PROVE  LET turned == Turn(def, walk)
         IN  InTime(def, turned, n + 1) /\ Orderly(def, turned) /\ Within(def, turned, set)
<1> DEFINE turned == Turn(def, walk)
           ids == DOMAIN def.nodes
           bound == 2 * Cardinality(ids) + 1
<1>1. turned \in Queued(def)
  BY TurnType
<1>2. /\ walk.queue \in Seq(NodeOrNone) /\ turned.queue \in Seq(NodeOrNone)
      /\ walk.ordered \in Seq(ids) /\ Len(walk.queue) \in Nat /\ Len(turned.queue) \in Nat
  <2>1. walk.queue \in Seq(NodeOrNone) /\ turned.queue \in Seq(NodeOrNone) /\ walk.ordered \in Seq(ids)
    BY <1>1 DEF Queued
  <2> HIDE DEF turned
  <2> QED
    BY <2>1
<1>3. bound \in Nat /\ IsFiniteSet(ids)
  BY FewNodes
<1>4. ASSUME NEW s PROVE Cardinality(ids \ s) \in Nat /\ IsFiniteSet(ids \ s)
  BY <1>3, FS_Subset, FS_CardinalityType
<1>5. Left(def, walk) \in Nat
  BY <1>4 DEF Left
<1> HIDE DEF turned, bound, ids
<1>6. CASE walk.queue = << >> /\ turned = walk
  BY <1>6 DEF InTime, turned
<1>7. CASE /\ walk.queue # << >> /\ turned.ordered = walk.ordered
           /\ Len(turned.queue) + 1 = Len(walk.queue)
           /\ Waiting(def, turned) \subseteq Waiting(def, walk)
           /\ Waiting(def, walk) \subseteq Waiting(def, turned) \cup ToSet(walk.ordered)
  <2>1. Left(def, turned) = Left(def, walk)
    BY <1>7 DEF Left
  <2>2. Len(walk.queue) + 2 * Left(def, walk) + n <= bound
    BY <1>7 DEF InTime, bound, ids
  <2>3. Len(turned.queue) + 2 * Left(def, turned) + (n + 1) <= bound
    <3>1. Len(walk.queue) = Len(turned.queue) + 1 /\ Len(turned.queue) \in Nat
      BY <1>2, <1>7
    <3>2. ASSUME NEW a \in Nat, NEW b \in Nat, (a + 1) + 2 * b + n <= bound
          PROVE  a + 2 * b + (n + 1) <= bound
      BY <1>3, <3>2
    <3>3. (Len(turned.queue) + 1) + 2 * Left(def, walk) + n <= bound
      BY <2>2, <3>1
    <3> QED
      BY <1>5, <2>1, <3>1, <3>2, <3>3
  <2>4. InTime(def, turned, n + 1)
    BY <2>3 DEF InTime, bound, ids
  <2>5. Orderly(def, turned)
    BY <1>7 DEF Orderly
  <2>6. Within(def, turned, set)
    BY <1>7 DEF Within
  <2> QED
    BY <2>4, <2>5, <2>6 DEF turned
<1>8. ASSUME NEW id \in Waiting(def, walk) \ ToSet(walk.ordered), walk.queue # << >>,
             turned.ordered = Append(walk.ordered, id),
             Len(turned.queue) <= Len(walk.queue) + 1,
             Waiting(def, turned) \subseteq Waiting(def, walk) \cup Exits(def, id),
             Waiting(def, walk) \cup Exits(def, id) \subseteq Waiting(def, turned) \cup {id}
      PROVE  InTime(def, turned, n + 1) /\ Orderly(def, turned) /\ Within(def, turned, set)
  <2>1. id \in ids \ ToSet(walk.ordered)
    BY <1>8 DEF Waiting, ids
  <2>2. ToSet(turned.ordered) = ToSet(walk.ordered) \cup {id}
    BY <1>2, <1>8, <2>1, SetOfLonger
  <2>3. Left(def, turned) = Left(def, walk) - 1
    <3> DEFINE left == ids \ ToSet(walk.ordered)
    <3>1. ids \ ToSet(turned.ordered) = left \ {id} /\ id \in left /\ IsFiniteSet(left)
      BY <1>4, <2>1, <2>2
    <3> HIDE DEF left
    <3>2. Cardinality(left \ {id}) = Cardinality(left) - 1
      BY <3>1, FS_RemoveElement
    <3> QED
      BY <3>1, <3>2 DEF Left, left, ids
  <2>4. Len(walk.queue) + 2 * Left(def, walk) + n <= bound
    BY <1>8 DEF InTime, bound, ids
  <2>5. Len(turned.queue) + 2 * Left(def, turned) + (n + 1) <= bound
    <3> DEFINE a == Len(walk.queue)
               b == Len(turned.queue)
               c == Left(def, walk)
    <3>1. a \in Nat /\ b \in Nat /\ c \in Nat /\ b <= a + 1 /\ a + 2 * c + n <= bound /\ bound \in Nat
      BY <1>2, <1>3, <1>5, <1>8, <2>4
    <3> HIDE DEF a, b, c
    <3>2. b + 2 * (c - 1) + (n + 1) <= bound
      BY <3>1
    <3> QED
      BY <2>3, <3>2 DEF b, c
  <2>6. InTime(def, turned, n + 1)
    BY <2>5 DEF InTime, bound, ids
  <2>7. \A i, j \in DOMAIN turned.ordered : turned.ordered[i] = turned.ordered[j] => i = j
    <3>1. \A i, j \in DOMAIN walk.ordered : walk.ordered[i] = walk.ordered[j] => i = j
      BY DEF Orderly
    <3>2. /\ Len(walk.ordered) \in Nat /\ DOMAIN walk.ordered = 1..Len(walk.ordered)
          /\ DOMAIN turned.ordered = 1..(Len(walk.ordered) + 1)
          /\ turned.ordered[Len(walk.ordered) + 1] = id
          /\ \A i \in DOMAIN walk.ordered : turned.ordered[i] = walk.ordered[i]
      <4> DEFINE s == walk.ordered
      <4>1. s \in Seq(ids) /\ id \in ids /\ turned.ordered = Append(s, id)
        BY <1>2, <1>8, <2>1
      <4> HIDE DEF s
      <4> QED
        BY <4>1 DEF s
    <3>3. \A i \in DOMAIN walk.ordered : walk.ordered[i] # id
      BY <2>1 DEF ToSet
    <3>4. \A i \in DOMAIN turned.ordered : i \in DOMAIN walk.ordered \/ i = Len(walk.ordered) + 1
      BY <3>2
    <3> QED
      BY <3>1, <3>2, <3>3, <3>4
  <2>8. Orderly(def, turned)
    <3>1. {def.start} \cap DOMAIN def.nodes \subseteq ToSet(turned.ordered) \cup Waiting(def, turned)
      BY <1>8, <2>2 DEF Orderly
    <3>2. ASSUME NEW k \in ToSet(turned.ordered)
          PROVE  Exits(def, k) \subseteq ToSet(turned.ordered) \cup Waiting(def, turned)
      <4>1. CASE k = id
        BY <1>8, <2>2, <4>1
      <4>2. CASE k \in ToSet(walk.ordered)
        <5>1. Exits(def, k) \subseteq ToSet(walk.ordered) \cup Waiting(def, walk)
          BY <4>2 DEF Orderly
        <5> QED
          BY <1>8, <2>2, <5>1
      <4> QED
        BY <2>2, <4>1, <4>2
    <3> QED
      BY <2>7, <3>1, <3>2 DEF Orderly
  <2>9. Within(def, turned, set)
    <3>1. id \in set
      BY <1>8 DEF Within
    <3>2. Exits(def, id) \subseteq set
      BY <3>1 DEF Holds
    <3> QED
      BY <1>8, <2>2, <3>1, <3>2 DEF Within
  <2> QED
    BY <2>6, <2>8, <2>9
<1>9. \/ walk.queue = << >> /\ turned = walk
      \/ /\ turned.ordered = walk.ordered
         /\ Len(turned.queue) + 1 = Len(walk.queue)
         /\ Waiting(def, turned) \subseteq Waiting(def, walk)
         /\ Waiting(def, walk) \subseteq Waiting(def, turned) \cup ToSet(walk.ordered)
      \/ \E id \in Waiting(def, walk) \ ToSet(walk.ordered) :
           /\ turned.ordered = Append(walk.ordered, id)
           /\ Len(turned.queue) <= Len(walk.queue) + 1
           /\ Waiting(def, turned) \subseteq Waiting(def, walk) \cup Exits(def, id)
           /\ Waiting(def, walk) \cup Exits(def, id) \subseteq Waiting(def, turned) \cup {id}
  BY TurnMeans DEF turned
<1>10. walk.queue = << >> => turned = walk
  BY DEF turned, Turn
<1> QED
  BY <1>6, <1>7, <1>8, <1>9, <1>10 DEF turned

\* deriveFieldSchema looks at each node that can be reached from the start, once,
\* and at no other before these, in any graph: it walks to the end of its queue,
\* cycles or not (reachableInOrder of fields.ts).
THEOREM ReachesWhatCanBeReached ==
  ASSUME NEW def, IsScript(def)
  PROVE  /\ \A i, j \in DOMAIN ReachableInOrder(def) :
              ReachableInOrder(def)[i] = ReachableInOrder(def)[j] => i = j
         /\ Holds(def, ToSet(ReachableInOrder(def)))
         /\ \A set : Holds(def, set) => ToSet(ReachableInOrder(def)) \subseteq set
<1> PICK walk : Visits(def, walk)
  BY VisitsExist
<1> DEFINE turns == WalkTurns(def)
           last == walk[turns]
           Fine(set, n) == /\ walk[n] \in Queued(def) /\ InTime(def, walk[n], n)
                           /\ Orderly(def, walk[n]) /\ Within(def, walk[n], set)
<1>1. turns \in Nat
  BY VisitsExist
<1>2. \A id \in DOMAIN def.nodes : Exits(def, id) \subseteq DOMAIN def.nodes
  BY DEF Exits
<1>3. ASSUME NEW set, Holds(def, set) PROVE Fine(set, turns)
  <2> DEFINE good == {n \in 0..turns : Fine(set, n)}
             base == WalkBase(def)
  <2>1. 0 \in good
    <3>1. walk[0] = base /\ 0 \in 0..turns /\ base \in Queued(def)
      BY <1>1 DEF Visits
    <3>2. ToSet(base.ordered) = {} /\ ToSet(base.queue) = {def.start}
      <4>1. base.ordered = << >> /\ DOMAIN << >> = {}
        BY DEF WalkBase
      <4>2. base.queue = <<def.start>> /\ DOMAIN <<def.start>> = {1} /\ <<def.start>>[1] = def.start
        BY DEF WalkBase
      <4> QED
        BY <4>1, <4>2 DEF ToSet
    <3>3. InTime(def, base, 0)
      <4>1. Len(base.queue) = 1
        BY DEF WalkBase
      <4>2. Left(def, base) = Cardinality(DOMAIN def.nodes) /\ Cardinality(DOMAIN def.nodes) \in Nat
        BY <3>2, FewNodes DEF Left
      <4> QED
        BY <4>1, <4>2 DEF InTime
    <3>4. Orderly(def, base)
      <4>1. DOMAIN base.ordered = {}
        BY DEF WalkBase
      <4> QED
        BY <3>2, <4>1 DEF Orderly, Waiting
    <3>5. Within(def, base, set)
      BY <1>3, <3>2 DEF Within, Waiting, Holds
    <3> QED
      BY <3>1, <3>3, <3>4, <3>5
  <2>2. ASSUME NEW n \in 1..turns, n - 1 \in good PROVE n \in good
    <3>1. n - 1 \in Nat /\ (n - 1) + 1 = n /\ n \in 0..turns
      BY <1>1
    <3>2. Fine(set, n - 1)
      BY <2>2
    <3>3. walk[n] = Turn(def, walk[n - 1]) /\ walk[n] \in Queued(def)
      BY <3>1 DEF Visits
    <3>4. InTime(def, walk[n], n) /\ Orderly(def, walk[n]) /\ Within(def, walk[n], set)
      BY <1>3, <3>1, <3>2, <3>3, TurnKeeps
    <3> QED
      BY <3>1, <3>3, <3>4
  <2>3. 0..turns \subseteq good
    <3> HIDE DEF good
    <3> QED
      BY <1>1, <2>1, <2>2, EveryTurn
  <2> QED
    BY <1>1, <2>3
<1>4. Holds(def, DOMAIN def.nodes)
  BY <1>2 DEF Holds
<1>5. Fine(DOMAIN def.nodes, turns)
  BY <1>3, <1>4
<1>6. last.queue = << >>
  <2>1. Left(def, last) \in Nat
    BY FewNodes, FS_Subset, FS_CardinalityType DEF Left
  <2>2. last.queue \in Seq(NodeOrNone) /\ InTime(def, last, turns)
    BY <1>5 DEF Queued
  <2> HIDE DEF last
  <2>3. Len(last.queue) \in Nat /\ (Len(last.queue) = 0 => last.queue = << >>)
    BY <2>2
  <2>4. last.queue = << >> \/ Len(last.queue) + 2 * Left(def, last) + turns <= turns
    BY <2>2 DEF InTime, WalkTurns
  <2> QED
    BY <1>1, <2>1, <2>3, <2>4
<1>7. Waiting(def, last) = {} /\ ReachableInOrder(def) = last.ordered
  <2>1. ToSet(last.queue) = {}
    <3>1. DOMAIN << >> = {}
      OBVIOUS
    <3> HIDE DEF last
    <3> QED
      BY <1>6, <3>1 DEF ToSet
  <2> QED
    BY <2>1 DEF Waiting, Visits
<1> HIDE DEF last
<1>8. Orderly(def, last) /\ \A set : Holds(def, set) => Within(def, last, set)
  BY <1>3, <1>5 DEF last
<1>9. Holds(def, ToSet(last.ordered))
  BY <1>7, <1>8 DEF Holds, Orderly
<1> QED
  BY <1>7, <1>8, <1>9 DEF Orderly, Within
=============================================================================

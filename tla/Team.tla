--------------------------------- MODULE Team ---------------------------------
(***************************************************************************)
(* The accounts of one organization: registration, login, invitations,     *)
(* role changes and removals (apps/web/src/app/dashboard/team/actions.ts,  *)
(* (auth)/actions.ts, lib/session.ts, packages/core/src/auth.ts).          *)
(*                                                                         *)
(* A session cookie carries the role its owner had when it was issued and  *)
(* is believed for a week, whatever happens to the account.  An action     *)
(* that checks and then writes does so in separate database calls: what it *)
(* read travels with it in req[r].                                         *)
(***************************************************************************)
EXTENDS Naturals, FiniteSets

CONSTANTS
  NULL,
  Users,      \* account ids; an id is used once
  Emails,
  EmailOf,    \* EmailOf[u]: the address account u is opened with
  Elsewhere,  \* addresses of accounts in other organizations
  Invites,
  Offers,     \* <<address or NULL, role>>: the invitations that may be sent
  Phones,     \* accounts whose number may be set
  Requests,   \* slots for multi-step requests under way at once
  Editors     \* those of them that may change roles and remove members

ASSUME TeamAssumption ==
  /\ EmailOf \in [Users -> Emails] /\ NULL \notin Emails
  /\ NULL \notin Users /\ NULL \notin Invites /\ NULL \notin {"AGENT", "ADMIN", "OWNER"}
  /\ Editors \subseteq Requests
  /\ Offers \subseteq (Emails \cup {NULL}) \X {"AGENT", "ADMIN", "OWNER"}

VARIABLES
  role,      \* role[u]: User.role, NONE before the account exists, GONE after
  phoned,    \* accounts with a notifyPhone
  session,   \* session[u]: the role in u's cookie, or NULL
  invite,    \* Invite rows
  accounts,  \* history: <<invite, account>>, the accounts each invite made
  req

vars == <<role, phoned, session, invite, accounts, req>>

-------------------------------------------------------------------------------
NONE == "none"
GONE == "gone"
OWNER == "OWNER"
Roles == {"AGENT", "ADMIN", OWNER}
Admins == {"ADMIN", OWNER}       \* hasRole(_, "ADMIN")

Invite == [state: {"open", "expired", "accepted", "revoked"}, role: Roles,
           email: Emails \cup {NULL}]
NoInvite == [state |-> NONE, role |-> "AGENT", email |-> NULL]

\* A role change or a removal (role = GONE) of target, or the acceptance of an
\* invite as account target.
Request == [pc: {"idle", "count", "write", "join"}, target: Users \cup {NULL},
            role: Roles \cup {GONE}, invite: Invites \cup {NULL}]
Idle == [pc |-> "idle", target |-> NULL, role |-> GONE, invite |-> NULL]

\* Rows and requests keep their types, and a request under way has what its
\* next step works on.
TypeOK ==
  /\ role \in [Users -> Roles \cup {NONE, GONE}]
  /\ phoned \subseteq Users
  /\ session \in [Users -> Roles \cup {NULL}]
  /\ invite \in [Invites -> Invite \cup {NoInvite}]
  /\ accounts \subseteq Invites \X Users
  /\ req \in [Requests -> Request]
  /\ \A r \in Requests :
       /\ req[r].pc = "join" => req[r].invite \in Invites /\ req[r].target \in Users
       /\ req[r].pc \in {"count", "write"} => r \in Editors /\ req[r].target \in Users

Init ==
  /\ role = [u \in Users |-> NONE]
  /\ phoned = {}
  /\ session = [u \in Users |-> NULL]
  /\ invite = [i \in Invites |-> NoInvite]
  /\ accounts = {}
  /\ req = [r \in Requests |-> Idle]

Members == {u \in Users : role[u] \in Roles}
Owners == {u \in Users : role[u] = OWNER}
Taken(email) == email \in Elsewhere \cup {EmailOf[u] : u \in Members}
Founded == \E u \in Users : role[u] # NONE
Done(r) == req' = [req EXCEPT ![r] = Idle]
SignIn(u, rl) == session' = [session EXCEPT ![u] = rl]

-------------------------------------------------------------------------------
(* Accounts and cookies *)

\* The organization and its first owner are created together.
Register(u) ==
  /\ ~Founded /\ ~Taken(EmailOf[u])
  /\ role' = [role EXCEPT ![u] = OWNER]
  /\ SignIn(u, OWNER)
  /\ UNCHANGED <<phoned, invite, accounts, req>>

Login(u) ==
  /\ u \in Members
  /\ SignIn(u, role[u])
  /\ UNCHANGED <<role, phoned, invite, accounts, req>>

\* A week has passed, or the user logs out.
CookieGone(u) ==
  /\ session[u] # NULL
  /\ SignIn(u, NULL)
  /\ UNCHANGED <<role, phoned, invite, accounts, req>>

\* A member sets their own number, an admin anybody's; blank clears it.
SetNotifyPhone(me, u) ==
  /\ session[me] # NULL /\ (me = u \/ session[me] \in Admins)
  /\ u \in Members \cap Phones
  /\ \/ phoned' = phoned \cup {u}
     \/ phoned' = phoned \ {u}
  /\ UNCHANGED <<role, session, invite, accounts, req>>

-------------------------------------------------------------------------------
(* Invitations *)

CreateInvite(me, i, email, rl) ==
  /\ session[me] \in Admins /\ (rl = OWNER => session[me] = OWNER)
  /\ email = NULL \/ ~Taken(email)
  /\ invite[i] = NoInvite
  /\ invite' = [invite EXCEPT ![i] = [state |-> "open", role |-> rl, email |-> email]]
  /\ UNCHANGED <<role, phoned, session, accounts, req>>

RevokeInvite(me, i) ==
  /\ session[me] \in Admins
  /\ invite[i].state \in {"open", "expired", "accepted"}
  /\ invite' = [invite EXCEPT ![i].state = "revoked"]
  /\ UNCHANGED <<role, phoned, session, accounts, req>>

InviteExpires(i) ==
  /\ invite[i].state = "open"
  /\ invite' = [invite EXCEPT ![i].state = "expired"]
  /\ UNCHANGED <<role, phoned, session, accounts, req>>

\* The checks of acceptInviteAction; u is the account it would create.
OpenInvite(r, i, u) ==
  /\ req[r].pc = "idle" /\ role[u] = NONE
  /\ invite[i].state = "open" /\ invite[i].email \in {NULL, EmailOf[u]}
  /\ ~Taken(EmailOf[u])
  /\ req' = [req EXCEPT ![r] = [Idle EXCEPT !.pc = "join", !.invite = i, !.target = u]]
  /\ UNCHANGED <<role, phoned, session, invite, accounts>>

Unaccepted(i) == invite[i].state \in {"open", "expired"}

\* (mutant) the invite that was open when it was read is good enough
AcceptAsRead(r) ==
  /\ req[r].pc = "join"
  /\ Done(r)
  /\ role' = [role EXCEPT ![req[r].target] = invite[req[r].invite].role]
  /\ accounts' = accounts \cup {<<req[r].invite, req[r].target>>}
  /\ SignIn(req[r].target, invite[req[r].invite].role)
  /\ invite' = [invite EXCEPT ![req[r].invite].state = "accepted"]
  /\ UNCHANGED phoned

\* The invite is consumed and the account created in one transaction, which
\* fails as a whole when the invite is gone or the address is.
Accept(r) ==
  LET i == req[r].invite  u == req[r].target IN
  /\ req[r].pc = "join"
  /\ Done(r)
  /\ IF Unaccepted(i) /\ role[u] = NONE /\ ~Taken(EmailOf[u])
     THEN /\ invite' = [invite EXCEPT ![i].state = "accepted"]
          /\ role' = [role EXCEPT ![u] = invite[i].role]
          /\ accounts' = accounts \cup {<<i, u>>}
          /\ SignIn(u, invite[i].role)
     ELSE UNCHANGED <<role, session, invite, accounts>>
  /\ UNCHANGED phoned

-------------------------------------------------------------------------------
(* Roles and removals *)

\* The member is read; only an owner touches ownership.  Losing an owner asks
\* for a count of them, everything else is written as it is.
Ask(r, me, u, rl) ==
  /\ req[r].pc = "idle" /\ r \in Editors
  /\ session[me] \in Admins /\ u \in Members
  /\ OWNER \in {rl, role[u]} => session[me] = OWNER
  /\ req' = [req EXCEPT ![r] = [Idle EXCEPT
       !.pc = IF role[u] = OWNER /\ rl # OWNER THEN "count" ELSE "write",
       !.target = u, !.role = rl]]
  /\ UNCHANGED <<role, phoned, session, invite, accounts>>

AskRole(r, me, u, rl) == rl \in Roles /\ Ask(r, me, u, rl)
AskRemoval(r, me, u) == me # u /\ Ask(r, me, u, GONE)

\* (mutant) the count includes the owner about to be lost
CountAll(r) ==
  /\ req[r].pc = "count"
  /\ req' = [req EXCEPT ![r] = IF Owners = {} THEN Idle ELSE [@ EXCEPT !.pc = "write"]]
  /\ UNCHANGED <<role, phoned, session, invite, accounts>>

CountOwners(r) ==
  /\ req[r].pc = "count"
  /\ req' = [req EXCEPT ![r] = IF Cardinality(Owners) <= 1 THEN Idle ELSE [@ EXCEPT !.pc = "write"]]
  /\ UNCHANGED <<role, phoned, session, invite, accounts>>

\* The update, or the delete, of a row that is gone fails.
Write(r) ==
  LET u == req[r].target IN
  /\ req[r].pc = "write"
  /\ Done(r)
  /\ role' = IF u \in Members THEN [role EXCEPT ![u] = req[r].role] ELSE role
  /\ phoned' = IF req[r].role = GONE THEN phoned \ {u} ELSE phoned
  /\ UNCHANGED <<session, invite, accounts>>

-------------------------------------------------------------------------------
Inviting ==
  \/ \E me \in Users, i \in Invites :
       \/ RevokeInvite(me, i)
       \/ \E o \in Offers : CreateInvite(me, i, o[1], o[2])
  \/ \E i \in Invites : InviteExpires(i)
  \/ \E r \in Requests, i \in Invites, u \in Users : OpenInvite(r, i, u)
  \/ \E r \in Requests : Accept(r)

Grading ==
  \E r \in Requests :
    \/ CountOwners(r) \/ Write(r)
    \/ \E me, u \in Users : AskRemoval(r, me, u) \/ \E rl \in Roles : AskRole(r, me, u, rl)

Next ==
  \/ \E u \in Users : Register(u) \/ Login(u) \/ CookieGone(u)
  \/ \E me, u \in Users : SetNotifyPhone(me, u)
  \/ Inviting
  \/ Grading

Spec == Init /\ [][Next]_vars

-------------------------------------------------------------------------------
(* Properties *)

\* "Never leave the organization without an owner" (team/actions.ts:130): once
\* founded it has one, whoever is demoted, removed or signed in with an old cookie.
AlwaysAnOwner == Founded => Owners # {}

\* A double submit, or two people with the same link, do not make two accounts
\* of one invite, and no address has two accounts at a time.
OneAccountEach ==
  /\ \A a, b \in accounts : a[1] = b[1] => a = b
  /\ \A u, v \in Members : EmailOf[u] = EmailOf[v] => u = v

\* With one editor at a time the team behaves as Membership says: checks and
\* writes that other requests interleave with amount to single guarded changes.
M == INSTANCE Membership WITH Users <- Users, Roles <- Roles, OWNER <- OWNER, NONE <- NONE,
                             GONE <- GONE, role <- role
ImplementsMembership == M!Spec
=============================================================================

------------------------------ MODULE TeamProofs ------------------------------
(***************************************************************************)
(* Proofs about Team, for any number of accounts, invites and requests.    *)
(***************************************************************************)
EXTENDS Team, TLAPS, FiniteSetTheorems

\* A record is its fields: what a row with one field replaced is.
LEMMA InviteState ==
  ASSUME TypeOK, NEW i \in Invites, NEW s \in {"open", "expired", "accepted", "revoked"},
         invite[i] # NoInvite
  PROVE  [invite EXCEPT ![i].state = s] \in [Invites -> Invite \cup {NoInvite}]
BY DEF TypeOK, Invite, NoInvite

LEMMA TypeStep ==
  ASSUME TypeOK, [Next]_vars
  PROVE  TypeOK'
<1> USE DEF TypeOK, Roles, OWNER, GONE, NONE
<1>1. ASSUME NEW u \in Users, Register(u) \/ Login(u) \/ CookieGone(u)
      PROVE  TypeOK'
  BY <1>1 DEF Register, Login, CookieGone, SignIn, Members
<1>2. ASSUME NEW me \in Users, NEW u \in Users, SetNotifyPhone(me, u)
      PROVE  TypeOK'
  BY <1>2 DEF SetNotifyPhone, Members
<1>3. ASSUME NEW me \in Users, NEW i \in Invites, RevokeInvite(me, i)
      PROVE  TypeOK'
  <2>1. invite[i] # NoInvite
    BY <1>3 DEF RevokeInvite, NoInvite
  <2>2. invite' \in [Invites -> Invite \cup {NoInvite}]
    BY <1>3, <2>1, InviteState DEF RevokeInvite
  <2> QED BY <1>3, <2>2 DEF RevokeInvite
<1>4. ASSUME NEW me \in Users, NEW i \in Invites, NEW o \in Offers, CreateInvite(me, i, o[1], o[2])
      PROVE  TypeOK'
  <2>1. [state |-> "open", role |-> o[2], email |-> o[1]] \in Invite
    BY TeamAssumption DEF TeamAssumption, Invite
  <2> QED BY <1>4, <2>1 DEF CreateInvite
<1>5. ASSUME NEW i \in Invites, InviteExpires(i)
      PROVE  TypeOK'
  <2>1. invite[i] # NoInvite
    BY <1>5 DEF InviteExpires, NoInvite
  <2>2. invite' \in [Invites -> Invite \cup {NoInvite}]
    BY <1>5, <2>1, InviteState DEF InviteExpires
  <2> QED BY <1>5, <2>2 DEF InviteExpires
<1>6. ASSUME NEW r \in Requests, NEW i \in Invites, NEW u \in Users, OpenInvite(r, i, u)
      PROVE  TypeOK'
  BY <1>6 DEF OpenInvite, Request, Idle
<1>7. ASSUME NEW r \in Requests, Accept(r)
      PROVE  TypeOK'
  <2>0. Idle \in Request /\ Idle.pc = "idle"
    BY DEF Idle, Request
  <2>1. CASE UNCHANGED <<role, session, invite, accounts>>
    BY <1>7, <2>0, <2>1 DEF Accept, Done
  <2>2. CASE ~UNCHANGED <<role, session, invite, accounts>>
    <3> DEFINE i == req[r].invite
               u == req[r].target
    <3>1. Unaccepted(i) /\ role[u] = NONE
      BY <1>7, <2>2 DEF Accept
    <3>2. i \in Invites /\ u \in Users
      BY <1>7 DEF Accept
    <3>3. invite[i] # NoInvite /\ invite[i] \in Invite
      BY <3>1, <3>2 DEF Unaccepted, NoInvite
    <3>4. invite' \in [Invites -> Invite \cup {NoInvite}]
      <4>1. invite' = [invite EXCEPT ![i].state = "accepted"]
        BY <1>7, <2>2 DEF Accept
      <4> HIDE DEF i
      <4> QED BY <3>2, <3>3, <4>1, InviteState
    <3>5. invite[i].role \in Roles
      BY <3>3 DEF Invite
    <3>6. role' \in [Users -> Roles \cup {NONE, GONE}] /\ session' \in [Users -> Roles \cup {NULL}]
      BY <1>7, <2>2, <3>5 DEF Accept, SignIn
    <3> QED BY <1>7, <2>0, <2>2, <3>2, <3>4, <3>6 DEF Accept, Done
  <2> QED BY <2>1, <2>2
<1>8. ASSUME NEW r \in Requests, NEW me \in Users, NEW u \in Users, NEW rl \in Roles \cup {GONE},
             Ask(r, me, u, rl)
      PROVE  TypeOK'
  BY <1>8 DEF Ask, Request, Idle
<1>9. ASSUME NEW r \in Requests, CountOwners(r)
      PROVE  TypeOK'
  <2>1. \/ req' = [req EXCEPT ![r] = Idle]
        \/ req' = [req EXCEPT ![r] = [@ EXCEPT !.pc = "write"]]
    BY <1>9 DEF CountOwners
  <2> QED BY <1>9, <2>1 DEF CountOwners, Request, Idle
<1>11. ASSUME NEW r \in Requests, Write(r)
      PROVE  TypeOK'
  <2>1. role' \in [Users -> Roles \cup {NONE, GONE}] /\ phoned' \subseteq Users
    BY <1>11 DEF Write, Request, Members
  <2> QED BY <1>11, <2>1 DEF Write, Done, Request, Idle
<1>10. CASE UNCHANGED vars
  BY <1>10 DEF vars
<1> QED BY <1>1, <1>2, <1>3, <1>4, <1>5, <1>6, <1>7, <1>8, <1>9, <1>10, <1>11
        DEF Next, Inviting, Grading, AskRole, AskRemoval

LEMMA TypeInit == Init => TypeOK
BY DEF Init, TypeOK, Request, Idle, Roles, OWNER, GONE, NONE

\* Accounts and requests keep their types, however requests interleave.
THEOREM TypeCorrect == Spec => []TypeOK
<1>1. TypeOK /\ [Next]_vars => TypeOK'
  BY TypeStep
<1> QED BY TypeInit, <1>1, PTL DEF Spec

-------------------------------------------------------------------------------
(* One account of one invite *)

\* An invite that has made an account is used up, and stays so.
UsedUp == \A a \in accounts : invite[a[1]].state \in {"accepted", "revoked"}
Single == TypeOK /\ UsedUp /\ OneAccountEach

\* Only an acceptance makes accounts; no other step brings an invite back.
LEMMA SingleStep ==
  ASSUME Single, [Next]_vars
  PROVE  UsedUp' /\ OneAccountEach'
<1> USE DEF Single
<1>1. accounts \subseteq Invites \X Users
  BY DEF TypeOK
<1>2. ASSUME UNCHANGED <<role, accounts>>,
             \A i \in Invites : invite[i].state \in {"accepted", "revoked"}
                                  => invite'[i].state \in {"accepted", "revoked"}
      PROVE  UsedUp' /\ OneAccountEach'
  BY <1>1, <1>2 DEF UsedUp, OneAccountEach, Members
<1>3. ASSUME UNCHANGED <<invite, accounts>>,
             \A u \in Users : role'[u] \in Roles => role[u] \in Roles
      PROVE  UsedUp' /\ OneAccountEach'
  BY <1>3 DEF UsedUp, OneAccountEach, Members
<1>4. ASSUME NEW u \in Users, Register(u)
      PROVE  UsedUp' /\ OneAccountEach'
  <2>1. Members' = {u}
    BY <1>4 DEF Register, Founded, Members, TypeOK, Roles, NONE, OWNER, GONE
  <2> QED BY <1>4, <2>1 DEF Register, UsedUp, OneAccountEach
<1>5. ASSUME NEW r \in Requests, Accept(r)
      PROVE  UsedUp' /\ OneAccountEach'
  <2> DEFINE i == req[r].invite
             u == req[r].target
  <2>1. CASE UNCHANGED <<role, session, invite, accounts>>
    BY <2>1, <1>2
  <2>2. CASE ~UNCHANGED <<role, session, invite, accounts>>
    <3>1. /\ Unaccepted(i) /\ role[u] = NONE /\ ~Taken(EmailOf[u])
          /\ invite' = [invite EXCEPT ![i].state = "accepted"]
          /\ role' = [role EXCEPT ![u] = invite[i].role]
          /\ accounts' = accounts \cup {<<i, u>>}
      BY <1>5, <2>2 DEF Accept
    <3>2. i \in Invites /\ u \in Users
      BY <1>5 DEF Accept, TypeOK
    <3>3. \A a \in accounts : a[1] # i
      BY <3>1 DEF UsedUp, Unaccepted
    <3>4. invite'[i].state = "accepted" /\ \A j \in Invites \ {i} : invite'[j] = invite[j]
      BY <3>1, <3>2 DEF TypeOK, Invite, NoInvite
    <3>5. UsedUp'
      BY <1>1, <3>1, <3>3, <3>4 DEF UsedUp
    <3>6. Members' \subseteq Members \cup {u}
      BY <3>1, <3>2 DEF Members, TypeOK
    <3>7. \A v \in Members : EmailOf[v] # EmailOf[u]
      BY <3>1 DEF Taken
    <3>8. \A v, w \in Members' : EmailOf[v] = EmailOf[w] => v = w
      BY <3>6, <3>7 DEF OneAccountEach
    <3>9. \A a, b \in accounts' : a[1] = b[1] => a = b
      BY <3>1, <3>3 DEF OneAccountEach
    <3> QED BY <3>5, <3>8, <3>9 DEF OneAccountEach
  <2> QED BY <2>1, <2>2
<1>6. ASSUME NEW i \in Invites,
             InviteExpires(i) \/ \E me \in Users : RevokeInvite(me, i)
      PROVE  UsedUp' /\ OneAccountEach'
  BY <1>6, <1>2 DEF RevokeInvite, InviteExpires, TypeOK, Invite, NoInvite
<1>7. ASSUME NEW me \in Users, NEW i \in Invites, NEW o \in Offers, CreateInvite(me, i, o[1], o[2])
      PROVE  UsedUp' /\ OneAccountEach'
  BY <1>7, <1>2 DEF CreateInvite, TypeOK, NoInvite, NONE
<1>8. ASSUME NEW r \in Requests, Write(r)
      PROVE  UsedUp' /\ OneAccountEach'
  BY <1>8, <1>3 DEF Write, Members, TypeOK
<1>9. ASSUME \/ \E u \in Users : Login(u) \/ CookieGone(u)
             \/ \E me, u \in Users : SetNotifyPhone(me, u)
             \/ \E r \in Requests, j \in Invites, u \in Users : OpenInvite(r, j, u)
             \/ \E r \in Requests : CountOwners(r)
             \/ \E r \in Requests : \E me, u \in Users, rl \in Roles \cup {GONE} : Ask(r, me, u, rl)
             \/ UNCHANGED vars
      PROVE  UsedUp' /\ OneAccountEach'
  BY <1>9, <1>3 DEF Login, CookieGone, SetNotifyPhone, OpenInvite, CountOwners, Ask, vars
<1> QED BY <1>4, <1>5, <1>6, <1>7, <1>8, <1>9 DEF Next, Inviting, Grading, AskRole, AskRemoval

\* One invite makes at most one account and one address has at most one, for any
\* number of people who open the link at once.
THEOREM InvitesMakeOneAccount == Spec => []OneAccountEach
<1>1. Init => Single
  BY TypeInit DEF Init, Single, UsedUp, OneAccountEach, Members, Roles, OWNER, NONE
<1>2. Single /\ [Next]_vars => Single'
  BY TypeStep, SingleStep DEF Single
<1>3. Single => OneAccountEach
  BY DEF Single
<1> QED BY <1>1, <1>2, <1>3, PTL DEF Spec

-------------------------------------------------------------------------------
(* One editor at a time *)

OneEditor == \A r, s \in Editors : r = s

\* What the one editor has read still holds: a role it may take is not the last
\* owner's, and nothing is signed in or sent out before the founding.
StillTrue ==
  \A r \in Requests :
    /\ req[r].pc = "count" => role[req[r].target] = OWNER /\ req[r].role # OWNER
    /\ req[r].pc = "write" => /\ req[r].target \in Members
                              /\ req[r].role # OWNER => Owners \ {req[r].target} # {}
FoundedFirst ==
  /\ \A u \in Users : session[u] # NULL => Founded
  /\ \A i \in Invites : invite[i] # NoInvite => Founded
  /\ \A r \in Requests : req[r].pc = "join" => Founded

Led == TypeOK /\ AlwaysAnOwner /\ StillTrue /\ FoundedFirst

\* Steps that leave every role alone.
LEMMA RolesKept ==
  ASSUME Led, UNCHANGED role
  PROVE  Founded' = Founded /\ Owners' = Owners /\ Members' = Members /\ AlwaysAnOwner'
BY DEF Led, AlwaysAnOwner, Founded, Owners, Members

LEMMA RequestKept ==
  ASSUME Led, UNCHANGED role, NEW r \in Requests, NEW q, req' = [req EXCEPT ![r] = q],
         q.pc = "count" => role[q.target] = OWNER /\ q.role # OWNER,
         q.pc = "write" => /\ q.target \in Members
                           /\ q.role # OWNER => Owners \ {q.target} # {}
  PROVE  StillTrue'
<1>1. req'[r] = q /\ \A s \in Requests \ {r} : req'[s] = req[s]
  BY DEF Led, TypeOK
<1>2. Owners' = Owners /\ Members' = Members
  BY RolesKept
<1> QED BY <1>1, <1>2 DEF Led, StillTrue

\* A member who is not the last owner may be taken the role from.
LEMMA SafeToLose ==
  ASSUME Led, NEW u \in Members, Cardinality(Owners) <= 1 => role[u] # OWNER
  PROVE  Owners \ {u} # {}
<1>1. Owners # {}
  BY DEF Led, AlwaysAnOwner, Founded, Members, Roles, OWNER, NONE
<1>2. CASE role[u] # OWNER
  BY <1>1, <1>2 DEF Owners
<1>3. CASE role[u] = OWNER
  <2> SUFFICES ASSUME Owners \ {u} = {}
               PROVE  FALSE
    OBVIOUS
  <2>1. Owners = {u}
    BY <1>1
  <2>2. Cardinality({u}) = 1
    BY FS_Singleton
  <2>3. Cardinality(Owners) <= 1
    BY <2>1, <2>2
  <2> QED BY <1>3, <2>3
<1> QED BY <1>2, <1>3

LEMMA AcceptLeads ==
  ASSUME Led, NEW r \in Requests, Accept(r)
  PROVE  AlwaysAnOwner' /\ StillTrue' /\ FoundedFirst' /\ [M!Next]_role
<1> DEFINE i == req[r].invite
           u == req[r].target
<1>0. i \in Invites /\ u \in Users /\ Founded /\ req' = [req EXCEPT ![r] = Idle]
      /\ Idle.pc = "idle"
  BY DEF Accept, Led, TypeOK, FoundedFirst, Done, Idle
<1>1. CASE UNCHANGED <<role, session, invite, accounts>>
  <2>1. StillTrue'
    BY <1>0, <1>1, RequestKept
  <2>2. FoundedFirst'
    BY <1>0, <1>1, RolesKept DEF Led, TypeOK, FoundedFirst
  <2> QED BY <1>1, <2>1, <2>2, RolesKept
<1>2. CASE ~UNCHANGED <<role, session, invite, accounts>>
  <2>1. /\ Unaccepted(i) /\ role[u] = NONE
        /\ invite' = [invite EXCEPT ![i].state = "accepted"]
        /\ role' = [role EXCEPT ![u] = invite[i].role]
        /\ SignIn(u, invite[i].role)
    BY <1>2 DEF Accept
  <2>2. invite[i].role \in Roles
    BY <1>0 DEF Led, TypeOK, Invite, NoInvite, Roles
  <2>3. \A v \in Users \ {u} : role'[v] = role[v]
    BY <2>1 DEF Led, TypeOK
  <2>4. Owners # {} /\ Owners \subseteq Owners' /\ Members \subseteq Members' /\ u \notin Members
    BY <1>0, <2>1, <2>3 DEF Led, AlwaysAnOwner, Owners, Members, Roles, OWNER, NONE
  <2>5. M!Join(u, invite[i].role)
    BY <2>1, <2>4 DEF M!Join, M!Owners, Owners
  <2>6. StillTrue'
    <3> SUFFICES ASSUME NEW s \in Requests, req'[s].pc \in {"count", "write"}
                 PROVE  /\ req[s] = req'[s] /\ req[s].target \in Members
                        /\ role'[req[s].target] = role[req[s].target]
      BY <2>4 DEF Led, StillTrue
    <3>1. req[s] = req'[s]
      BY <1>0 DEF Led, TypeOK
    <3>2. req[s].target \in Members
      BY <3>1 DEF Led, StillTrue, TypeOK, Members, Roles, OWNER
    <3> QED BY <2>3, <2>4, <3>1, <3>2 DEF Members
  <2>7. Founded' /\ AlwaysAnOwner' /\ FoundedFirst'
    <3>1. Founded' /\ Owners' # {}
      BY <1>0, <2>1, <2>2, <2>4 DEF Founded, Led, TypeOK, Roles, OWNER, NONE
    <3> QED BY <3>1 DEF AlwaysAnOwner, FoundedFirst
  <2> QED BY <1>0, <2>2, <2>5, <2>6, <2>7 DEF M!Next
<1> QED BY <1>1, <1>2

LEMMA WriteLeads ==
  ASSUME Led, OneEditor, NEW r \in Requests, Write(r)
  PROVE  AlwaysAnOwner' /\ StillTrue' /\ FoundedFirst' /\ [M!Next]_role
<1> DEFINE u == req[r].target
<1>1. /\ u \in Members /\ u \in Users /\ r \in Editors /\ req[r].role \in Roles \cup {GONE}
      /\ req[r].role # OWNER => Owners \ {u} # {}
      /\ role' = [role EXCEPT ![u] = req[r].role]
      /\ req' = [req EXCEPT ![r] = Idle] /\ UNCHANGED <<session, invite>>
  BY DEF Write, Led, StillTrue, TypeOK, Done, Request
<1>2. Owners' # {} /\ Founded'
  <2>1. Owners \ {u} \subseteq Owners'
    BY <1>1 DEF Owners, Led, TypeOK
  <2>2. req[r].role = OWNER => u \in Owners'
    BY <1>1 DEF Owners, Led, TypeOK
  <2>3. Owners' # {}
    BY <1>1, <2>1, <2>2
  <2> QED BY <2>3 DEF Owners, Founded, OWNER, NONE
<1>3. StillTrue'
  <2>1. \A s \in Requests : req'[s].pc \in {"count", "write"} => s = r
    BY <1>1 DEF Led, TypeOK, OneEditor
  <2>2. req'[r].pc = "idle"
    BY <1>1 DEF Led, TypeOK, Idle
  <2> QED BY <2>1, <2>2 DEF StillTrue
<1>4. M!Next
  <2>1. u \in M!Members /\ M!Owners = Owners
    BY <1>1 DEF M!Members, Members, M!Owners, Owners
  <2>2. CASE req[r].role \in Roles
    BY <1>1, <2>1, <2>2 DEF M!Next, M!Regrade
  <2>3. CASE req[r].role = GONE
    BY <1>1, <2>1, <2>3 DEF M!Next, M!Leave, GONE, OWNER
  <2> QED BY <1>1, <2>2, <2>3
<1> QED BY <1>2, <1>3, <1>4 DEF AlwaysAnOwner, FoundedFirst

LEMMA LedStep ==
  ASSUME Led, OneEditor, [Next]_vars
  PROVE  AlwaysAnOwner' /\ StillTrue' /\ FoundedFirst' /\ [M!Next]_role
<1>1. ASSUME NEW u \in Users, Register(u)
      PROVE  AlwaysAnOwner' /\ StillTrue' /\ FoundedFirst' /\ M!Next
  <2>1. \A v \in Users : role[v] = NONE
    BY <1>1 DEF Register, Founded
  <2>2. u \in Owners' /\ Founded'
    BY <1>1 DEF Register, Led, TypeOK, Owners, Founded, OWNER, NONE
  <2>3. \A s \in Requests : req'[s].pc \notin {"count", "write"}
    BY <1>1, <2>1 DEF Register, Led, TypeOK, StillTrue, Members, Roles, OWNER, NONE
  <2>4. M!Found(u)
    BY <1>1, <2>1 DEF Register, M!Found, M!Members, Roles, OWNER, NONE
  <2> QED BY <2>2, <2>3, <2>4 DEF AlwaysAnOwner, StillTrue, FoundedFirst, M!Next
<1>2. ASSUME NEW u \in Users, Login(u) \/ CookieGone(u)
      PROVE  AlwaysAnOwner' /\ StillTrue' /\ FoundedFirst' /\ UNCHANGED role
  <2>1. UNCHANGED <<role, invite, req>> /\ (Login(u) => Founded)
    BY <1>2 DEF Login, CookieGone, Members, Founded, Roles, OWNER, NONE
  <2>2. \A v \in Users : session'[v] # NULL => Founded
    BY <1>2, <2>1 DEF Login, CookieGone, SignIn, Led, TypeOK, FoundedFirst
  <2> QED BY <2>1, <2>2, RolesKept DEF Led, StillTrue, FoundedFirst
<1>3. ASSUME UNCHANGED <<role, req, session>>,
             \A i \in Invites : invite'[i] # NoInvite => Founded
      PROVE  AlwaysAnOwner' /\ StillTrue' /\ FoundedFirst' /\ UNCHANGED role
  BY <1>3, RolesKept DEF Led, StillTrue, FoundedFirst
<1>4. ASSUME NEW i \in Invites,
             InviteExpires(i) \/ \E me \in Users : RevokeInvite(me, i)
      PROVE  AlwaysAnOwner' /\ StillTrue' /\ FoundedFirst' /\ UNCHANGED role
  <2>1. invite[i] # NoInvite
    BY <1>4 DEF RevokeInvite, InviteExpires, NoInvite, NONE
  <2>2. \A j \in Invites : invite'[j] # NoInvite => Founded
    BY <1>4, <2>1 DEF RevokeInvite, InviteExpires, Led, FoundedFirst, TypeOK
  <2> QED BY <1>3, <1>4, <2>2 DEF RevokeInvite, InviteExpires
<1>5. ASSUME NEW me \in Users, NEW i \in Invites, NEW o \in Offers, CreateInvite(me, i, o[1], o[2])
      PROVE  AlwaysAnOwner' /\ StillTrue' /\ FoundedFirst' /\ UNCHANGED role
  <2>1. Founded
    BY <1>5, TeamAssumption DEF CreateInvite, Led, FoundedFirst, TypeOK, Admins, Roles, OWNER, TeamAssumption
  <2> QED BY <1>3, <1>5, <2>1 DEF CreateInvite
<1>6. ASSUME NEW r \in Requests, NEW i \in Invites, NEW u \in Users, OpenInvite(r, i, u)
      PROVE  AlwaysAnOwner' /\ StillTrue' /\ FoundedFirst' /\ UNCHANGED role
  <2>1. UNCHANGED role /\ Founded
    BY <1>6 DEF OpenInvite, Led, FoundedFirst, NoInvite, NONE
  <2>2. StillTrue'
    BY <1>6, RequestKept DEF OpenInvite, Idle
  <2> QED BY <1>6, <2>1, <2>2, RolesKept DEF OpenInvite, Led, FoundedFirst
<1>7. ASSUME NEW r \in Requests, NEW me \in Users, NEW u \in Users, NEW rl \in Roles \cup {GONE},
             Ask(r, me, u, rl)
      PROVE  AlwaysAnOwner' /\ StillTrue' /\ FoundedFirst' /\ UNCHANGED role
  <2> DEFINE q == [Idle EXCEPT !.pc = IF role[u] = OWNER /\ rl # OWNER THEN "count" ELSE "write",
                               !.target = u, !.role = rl]
  <2>1. UNCHANGED <<role, session, invite>> /\ u \in Members /\ req' = [req EXCEPT ![r] = q]
    BY <1>7 DEF Ask
  <2>2. /\ q.target = u /\ q.role = rl
        /\ q.pc = IF role[u] = OWNER /\ rl # OWNER THEN "count" ELSE "write"
    BY DEF Idle
  <2>3. q.pc = "write" /\ rl # OWNER => Owners \ {u} # {}
    BY <2>1, <2>2, SafeToLose
  <2>4. StillTrue'
    <3> HIDE DEF q
    <3> QED BY <2>1, <2>2, <2>3, RequestKept
  <2>5. FoundedFirst'
    BY <2>1, <2>2, RolesKept DEF Led, FoundedFirst, TypeOK
  <2> QED BY <2>1, <2>4, <2>5, RolesKept
<1>8. ASSUME NEW r \in Requests, CountOwners(r)
      PROVE  AlwaysAnOwner' /\ StillTrue' /\ FoundedFirst' /\ UNCHANGED role
  <2>1. UNCHANGED <<role, session, invite>> /\ req[r] \in Request /\ req[r].pc = "count"
    BY <1>8 DEF CountOwners, Led, TypeOK
  <2>2. role[req[r].target] = OWNER /\ req[r].target \in Members
    BY <2>1 DEF Led, StillTrue, TypeOK, Members, Roles, OWNER
  <2>3. CASE Cardinality(Owners) <= 1
    <3>0. req' = [req EXCEPT ![r] = Idle]
      BY <1>8, <2>3 DEF CountOwners
    <3>1. StillTrue'
      BY <2>1, <3>0, RequestKept DEF Idle
    <3> QED BY <2>1, <3>0, <3>1, RolesKept DEF Led, FoundedFirst, TypeOK, Idle
  <2>4. CASE ~(Cardinality(Owners) <= 1)
    <3> DEFINE q == [req[r] EXCEPT !.pc = "write"]
    <3>0. req' = [req EXCEPT ![r] = q]
      BY <1>8, <2>4 DEF CountOwners
    <3>1. q.pc = "write" /\ q.target = req[r].target /\ q.role = req[r].role
      BY <2>1 DEF Request
    <3>2. Owners \ {req[r].target} # {}
      <4> SUFFICES ASSUME Owners \ {req[r].target} = {}
                   PROVE  FALSE
        OBVIOUS
      <4>1. Owners = {req[r].target}
        BY <2>2 DEF Owners, Members
      <4>2. Cardinality({req[r].target}) = 1
        BY FS_Singleton
      <4>3. Cardinality(Owners) <= 1
        BY <4>1, <4>2
      <4> QED BY <2>4, <4>3
    <3>3. StillTrue'
      <4> HIDE DEF q
      <4> QED BY <2>1, <2>2, <3>1, <3>2, <3>0, RequestKept
    <3>4. FoundedFirst'
      BY <2>1, <3>0, <3>1, RolesKept DEF Led, FoundedFirst, TypeOK
    <3> QED BY <2>1, <3>3, <3>4, RolesKept
  <2> QED BY <2>3, <2>4
<1>9. ASSUME \/ \E me, u \in Users : SetNotifyPhone(me, u)
             \/ UNCHANGED vars
      PROVE  AlwaysAnOwner' /\ StillTrue' /\ FoundedFirst' /\ UNCHANGED role
  BY <1>9, <1>3 DEF SetNotifyPhone, vars, Led, FoundedFirst
<1> QED BY <1>1, <1>2, <1>4, <1>5, <1>6, <1>7, <1>8, <1>9, AcceptLeads, WriteLeads
        DEF Next, Inviting, Grading, AskRole, AskRemoval

\* With one editor at a time a founded organization always has an owner; with
\* two it need not (the run owners).
THEOREM OneEditorKeepsAnOwner == ASSUME OneEditor PROVE Spec => []AlwaysAnOwner
<1>1. Init => Led
  BY TypeInit DEF Init, Led, AlwaysAnOwner, StillTrue, FoundedFirst, Founded, Idle
<1>2. Led /\ [Next]_vars => Led'
  BY TypeStep, LedStep DEF Led
<1>3. Led => AlwaysAnOwner
  BY DEF Led
<1> QED BY <1>1, <1>2, <1>3, PTL DEF Spec

\* With one editor at a time every behaviour of the team is one of Membership.
THEOREM OneEditorImplementsMembership == ASSUME OneEditor PROVE Spec => ImplementsMembership
<1>1. Init => Led /\ M!Init
  BY TypeInit DEF Init, Led, AlwaysAnOwner, StillTrue, FoundedFirst, Founded, Idle, M!Init
<1>2. Led /\ [Next]_vars => Led' /\ [M!Next]_role
  BY TypeStep, LedStep DEF Led
<1> QED BY <1>1, <1>2, PTL DEF Spec, ImplementsMembership, M!Spec
=============================================================================

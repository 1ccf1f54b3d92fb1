------------------------------ MODULE Membership ------------------------------
(***************************************************************************)
(* What the team page promises: an organization, once founded, is a set of *)
(* members with roles that changes one member at a time and is never left  *)
(* without an owner.  Team is shown to implement it.                       *)
(***************************************************************************)
CONSTANTS Users, Roles, OWNER, NONE, GONE

VARIABLE role    \* role[u], or NONE before u joins and GONE after u has left

Owners == {u \in Users : role[u] = OWNER}
Members == {u \in Users : role[u] \in Roles}

Init == role = [u \in Users |-> NONE]

Found(u) ==
  /\ Members = {} /\ role[u] = NONE
  /\ role' = [role EXCEPT ![u] = OWNER]

Join(u, rl) ==
  /\ Owners # {} /\ role[u] = NONE
  /\ role' = [role EXCEPT ![u] = rl]

\* Somebody else must stay an owner.
Regrade(u, rl) ==
  /\ u \in Members
  /\ rl = OWNER \/ Owners \ {u} # {}
  /\ role' = [role EXCEPT ![u] = rl]

Leave(u) ==
  /\ u \in Members /\ Owners \ {u} # {}
  /\ role' = [role EXCEPT ![u] = GONE]

Next ==
  \E u \in Users :
    \/ Found(u) \/ Leave(u)
    \/ \E rl \in Roles : Join(u, rl) \/ Regrade(u, rl)

Spec == Init /\ [][Next]_role
=============================================================================

-------------------------------- MODULE MCTeam --------------------------------
(***************************************************************************)
(* Small instance of Team: the founder, a colleague and a second account   *)
(* for the colleague's address; two invites; two requests under way.       *)
(***************************************************************************)
EXTENDS Team, TLC

CONSTANTS u1, u2, u3, mail1, mail2, i1, i2

MCEmailOf == [u \in Users |-> IF u = u1 THEN mail1 ELSE mail2]
MCOffers == {<<NULL, OWNER>>, <<mail2, "ADMIN">>}
MCSymmetry == Permutations({i1, i2})
=============================================================================

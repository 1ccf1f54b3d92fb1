----------------------------- MODULE MCBroadcasts -----------------------------
(***************************************************************************)
(* Small instance of Broadcasts: one campaign of three recipients, one of  *)
(* them unroutable, over two overlapping sweeps with batches of one or two.*)
(***************************************************************************)
EXTENDS Broadcasts, TLC

CONSTANTS b1, o1, r1, r2, r3

OneCampaign == r1 :> b1 @@ r2 :> b1 @@ r3 :> b1
OneOrg == b1 :> o1
===============================================================================

--------------------------- MODULE MCSubscriptions ---------------------------
(***************************************************************************)
(* Small instance of Subscriptions: one payer with two charges of one      *)
(* standing order, of which one names its two payments and the other does  *)
(* not (an unmatched count is one month), and two accounts that can claim  *)
(* it.  Two months pass at once: a one-month period is over by then, and a *)
(* two-month one ends on that very day.  Requests are interchangeable.     *)
(*                                                                         *)
(* How callbacks are read (Catalogue) shares no state with what is done    *)
(* with them: it is checked beside it, while no request is under way.      *)
(***************************************************************************)
EXTENDS Subscriptions, Catalogue, TLC

CONSTANTS o1, o2, r1, r2, PRO, payer, order

MCCharges == 1..2
MCPlanOf == 1 :> PRO @@ 2 :> PRO
MCMonthsOf == 1 :> 2 @@ 2 :> 1
MCPayerOf == [c \in MCCharges |-> payer]
MCProcessOf == 1 :> order @@ 2 :> order
MCClaims == {<<o1, payer>>}
MCHanded == {<<o2, 1>>}
MCManual == {<<o1, PRO>>, <<o1, FREE>>}

\* A price left blank, one refused, the defaults, one between them, one above.
MCTyped == {0, -10, 49564, 89000, 75004, 120000}

MCInit == Init /\ CatalogueInit
MCNext == \/ Next /\ heard = Unheard /\ sale = NoSale /\ override = [p \in PaidPlan |-> NoRow]
             /\ UNCHANGED catalogueVars
          \/ Init /\ CatalogueNext /\ UNCHANGED vars
MCSpec == MCInit /\ [][MCNext]_<<vars, catalogueVars>>

MCSymmetry == Permutations({r1, r2})
=============================================================================

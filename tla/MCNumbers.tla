------------------------------- MODULE MCNumbers -------------------------------
(***************************************************************************)
(* Small instance of Numbers: two numbers, two tabs, a plan of one         *)
(* connection and one message a month, two senders, a restart, the turn of *)
(* a month and one failure.  And of Contacts: a lead and a bot, and three  *)
(* messages of theirs, of which one may be handed over again.              *)
(***************************************************************************)
EXTENDS Numbers, Contacts, TLC
LOCAL INSTANCE Functions

CONSTANTS p1, p2, text, image, lead, bot, m1, m2, m3, m4, m5

MCPhoneOf == text :> p1 @@ image :> p1

MCByWhom == [m \in Inbound |-> IF m \in {m4, m5} THEN bot ELSE lead]

ThreeArrive == FoldFunction(+, 0, arrivals') <= 3

\* The three parts share no variable: each is explored with the others at rest.
MCInit == Init /\ ContactsInit
MCNext == \/ UsageInit /\ ContactsInit /\ NumbersNext /\ UNCHANGED <<usageVars, contactVars>>
          \/ NumbersInit /\ ContactsInit /\ UsageNext /\ UNCHANGED <<numberVars, contactVars>>
          \/ Init /\ ContactsNext /\ ThreeArrive /\ UNCHANGED vars

\* The lead's messages are interchangeable.
MCSymmetry == Permutations({m1, m2, m3})

MCSpec == MCInit /\ [][MCNext]_<<vars, contactVars>>
=============================================================================

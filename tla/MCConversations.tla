---------------------------- MODULE MCConversations ----------------------------
(***************************************************************************)
(* Small instances of Conversations: the flows, texts and triggers its     *)
(* runs share.                                                             *)
(***************************************************************************)
EXTENDS Conversations, TLC

MCNodes == 1..4
\* "go" is the keyword, "1" picks the first slot, "z" is refused by questions.
MCTexts == {"go", "1", "z"}
MCNumberOf == [t \in MCTexts |-> IF t = "1" THEN 1 ELSE 0]
MCParse == [e \in ExpectType |-> [t \in MCTexts |-> IF t = "z" THEN NULL ELSE t]]

AnyTrigger == [type |-> "any", keywords |-> {}]
OnGo == [type |-> "keyword", keywords |-> {"go"}]

Ask(field, next) == [type |-> "question", field |-> field, expect |-> "email",
                     choices |-> << >>, branches |-> << >>, next |-> next]
Say(next) == [type |-> "message", next |-> next]
Wait(next) == [type |-> "delay", next |-> next]
Do(action, next) == [type |-> "action", action |-> action, field |-> NULL,
                     value |-> NULL, next |-> next]
Definition(trigger, nodes) == [start |-> 1, nodes |-> nodes, trigger |-> trigger]

\* Ask, thank and end; and, on the keyword, two questions.
MCPlainFlows ==
  1 :> Definition(OnGo, 1 :> Ask("g", 2) @@ 2 :> Ask("f", NULL))
    @@ 2 :> Definition(AnyTrigger, 1 :> Ask("f", 2) @@ 2 :> Say(NULL))

\* Ask, wait, ask again: a drip sequence; the keyword starts a short one.
MCDripFlows ==
  1 :> Definition(OnGo, 1 :> Ask("g", NULL))
    @@ 2 :> Definition(AnyTrigger, 1 :> Ask("f", 2) @@ 2 :> Wait(3) @@ 3 :> Ask("g", NULL))

\* Book after a question, then ask once more or hand over; the keyword's flow
\* runs into a silent loop.
MCBookingFlows ==
  1 :> Definition(OnGo, 1 :> Ask("g", 2) @@ 2 :> Say(2))
    @@ 2 :> Definition(AnyTrigger,
              1 :> Ask("f", 2) @@ 2 :> Do("book_appointment", 3)
                @@ 3 :> Ask("g", 4) @@ 4 :> Do("handoff_to_human", NULL))

\* The slots of the inbound consumer are interchangeable.
MCWorkersAlike == Permutations(Workers)
=============================================================================

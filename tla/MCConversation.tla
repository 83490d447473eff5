--------------------------- MODULE MCConversation ---------------------------
(* A conversation over the real catalogue, with a small set of utterances. *)
EXTENDS Conversation, TLC

Says(keyword, values, removals, products, cheaper) ==
    [keyword |-> keyword, values |-> values, removals |-> removals, corrections |-> {},
     products |-> products, cheaper |-> cheaper]

Nothing == <<>>

MCMessages ==
    { Says(None, [size |-> "UK 9", useCase |-> "road", colour |-> "grey"], {}, <<>>, FALSE),
      Says(None, Nothing, {"useCase"}, <<>>, FALSE),
      Says(None, Nothing, {}, <<>>, TRUE),
      Says("restart", Nothing, {}, <<>>, FALSE),
      Says("explain", Nothing, {}, <<>>, FALSE),
      Says(None, Nothing, {}, <<>>, FALSE) }

Proposes(action, values, removals, products) ==
    [action |-> action, values |-> values, removals |-> removals, products |-> products]

MCProposals ==
    { Proposes("select", [deliverBy |-> 3], {"colour"}, <<1>>),
      Proposes("search", [maxAmountMinor |-> 5], {}, <<>>) }

\* Without one, the parser is on its own, as after the last proposal, which is invalid.
MCEnrichments == {[fit |-> "wide"]}

MCPatches ==
    { [size |-> "UK 10"], [size |-> Clear], [colour |-> Clear] }
=============================================================================

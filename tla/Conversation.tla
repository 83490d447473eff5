---------------------------- MODULE Conversation ----------------------------
(***************************************************************************)
(* The dialogue that leads to an approved quote: messages, which the       *)
(* deterministic parser and an LLM interpret together, chip edits, the     *)
(* shortlist and its binding, selection, quote and approval.  Each         *)
(* operation holds the session lock, so it is one step.                    *)
(*                                                                         *)
(* A client may answer late: it can present any binding that a reply has   *)
(* given it, or none.  The day passes between any two steps.               *)
(*                                                                         *)
(* Texts and audit events are left out, a message is what the parser finds *)
(* in it, and the payment of the order is OrderLifecycle's.                *)
(***************************************************************************)
EXTENDS Ranking, OrderMachine

CONSTANTS
    Messages,           \* what the parser finds: see Interpretation
    Proposals,          \* interpretations an LLM may return
    Enrichments,        \* soft preferences an LLM may extract
    Patches,            \* chip edits: functions from fields to values or Clear
    Clear,              \* an empty value in a patch
    MaxRecommendations, \* bound: rankings recorded
    MaxVersion,         \* bound: intentVersion
    MaxQuotes,          \* bound: quotes built
    LastDay             \* bound: the day on which time stops

ASSUME BoundAssumption ==
    /\ MaxRecommendations \in Nat /\ MaxVersion \in Nat /\ MaxQuotes \in Nat /\ LastDay \in Nat

ASSUME NoneAssumption == None \notin Nat

VARIABLES
    session,    \* Session, with its dialogue memory and its envelope
    issued,     \* every recommendation recorded, by action token
    given,      \* the action tokens that replies have carried
    quotes,     \* quotes built: the digest of the last one
    day

vars == <<session, issued, given, quotes, day>>

Tokens == 1..MaxRecommendations
RankingResult == [ranked : BOOLEAN, matches : Seq(Products)]
Envelope == [digest : 1..MaxQuotes, product : Products, token : Tokens,
             intentVersion : 0..MaxVersion, recommendationVersion : Tokens,
             intent : Intent, day : 0..LastDay, presented : Tokens \cup {None}]

\* createSession and createDialogueMemory.
NewSession ==
    [state |-> "DRAFT", intent |-> NoIntent, intentVersion |-> 0, recommendationVersion |-> 0,
     recommendationIntentVersion |-> None, token |-> None, lastRanking |-> None,
     shownProductIds |-> {}, quoteValid |-> FALSE, envelope |-> None, approved |-> None]

ConversationTypeOK ==
    /\ DOMAIN session = DOMAIN NewSession
    /\ session.state \in OrderStates /\ session.intent \in Intent
    /\ session.intentVersion \in 0..MaxVersion /\ session.recommendationVersion \in 0..MaxRecommendations
    /\ session.recommendationIntentVersion \in 0..MaxVersion \cup {None}
    /\ session.token \in {Len(issued), None}
    /\ session.lastRanking \in RankingResult \cup {None}
    /\ session.shownProductIds \subseteq Products
    /\ session.quoteValid \in BOOLEAN
    /\ session.envelope \in Envelope \cup {None}
    /\ session.approved \in 1..quotes \cup {None}
    /\ given \subseteq 1..Len(issued) /\ day \in 0..LastDay

Init ==
    /\ session = NewSession
    /\ issued = <<>> /\ given = {} /\ quotes = 0 /\ day = 0

---------------------------------------------------------------------------
(* Interpretation *)

\* A message is what the parser finds in it: [keyword: a word for an action,
\* values and removals: fields stated and negated, corrections: fields said to
\* change, products: those named, cheaper: the wish for less money].
Reduced(budget) ==
    LET r == Rounded(budget * 8, 10) IN IF r < 10000 THEN 10000 ELSE r

\* A wish for less money without a new budget lowers the budget by a fifth.
deterministicInterpretation(m, intent) ==
    LET lowers == m.cheaper /\ "maxAmountMinor" \notin m.corrections
        budget == IF intent.maxAmountMinor = None THEN 500000 ELSE intent.maxAmountMinor
        action == CASE m.keyword \in {"restart", "explain"} -> m.keyword
                    [] m.keyword \in {"compare", "select"} /\ m.products # <<>> -> m.keyword
                    [] m.removals # {} \/ m.corrections # {} \/ m.cheaper -> "refine"
                    [] OTHER -> "search"
    IN [action |-> action,
        values |-> [f \in DOMAIN m.values \cup (IF lowers THEN {"maxAmountMinor"} ELSE {}) |->
                       IF lowers /\ f = "maxAmountMinor" THEN Reduced(budget) ELSE m.values[f]],
        removals |-> m.removals,
        products |-> IF action \in {"compare", "select"} THEN m.products ELSE <<>>]

\* The values, after normalisation, that an LLM may propose for a field.
Proposable ==
    [size |-> SIZES, colour |-> COLOURS, useCase |-> USE_CASES, maxAmountMinor |-> 10000..HighestBudget,
     mustBeReturnable |-> BOOLEAN, deliverBy |-> Nat, distanceKm |-> 1..50,
     fit |-> {"wide", "narrow", "standard"}, cushioning |-> {"max", "balanced", "minimal"}]

\* validateInterpretation: one value out of range, or without evidence in the
\* message, spoils the proposal.  Proposals have their evidence here.
Valid(proposal) == \A f \in DOMAIN proposal.values : proposal.values[f] \in Proposable[f]

\* interpretUserMessage takes a valid answer of the LLM.  A disabled or failing
\* LLM, an exhausted budget and an invalid answer leave the parser's.
FromLlm(proposal) == proposal # None /\ Valid(proposal)

\* mergeInterpretation: the parser's action and values win, removals add up.
mergeInterpretation(d, llm) ==
    [action |-> IF d.action # "search" THEN d.action ELSE llm.action,
     values |-> [f \in DOMAIN d.values \cup DOMAIN llm.values |->
                    IF f \in DOMAIN d.values THEN d.values[f] ELSE llm.values[f]],
     removals |-> d.removals \cup llm.removals,
     products |-> IF llm.products # <<>> THEN llm.products ELSE d.products]

\* applyInterpretation: removals come last.
applyInterpretation(intent, merged) ==
    [f \in Fields |-> CASE f \in merged.removals -> None
                        [] f \notin merged.removals /\ f \in DOMAIN merged.values -> merged.values[f]
                        [] OTHER -> intent[f]]

\* extractSoftPreferences fills what is unset.
Enriched(intent, soft) ==
    [f \in Fields |-> IF f \in DOMAIN soft /\ intent[f] = None THEN soft[f] ELSE intent[f]]

---------------------------------------------------------------------------
(* Recommendation, quote and their withdrawal *)

\* Mutant: a later field is missing in the comparison.
hasIntentChangedOld(before, after) ==
    \E f \in Fields \ {"deliverBy"} : before[f] # after[f]

hasIntentChanged(before, after) == \E f \in Fields : before[f] # after[f]

isCurrentRecommendation(s) ==
    /\ s.lastRanking # None /\ s.recommendationVersion > 0
    /\ s.recommendationIntentVersion = s.intentVersion
    /\ s.token # None

\* invalidateRecommendations, invalidateQuote, the approval and the envelope.
Withdrawn(s) ==
    [s EXCEPT !.lastRanking = None, !.shownProductIds = {}, !.recommendationIntentVersion = None,
              !.token = None, !.quoteValid = FALSE, !.approved = None, !.envelope = None]

WithIntent(s, intent) ==
    IF hasIntentChanged(s.intent, intent)
    THEN [Withdrawn(s) EXCEPT !.intent = intent, !.intentVersion = @ + 1]
    ELSE [s EXCEPT !.intent = intent]

\* rankProducts and recordRecommendation; the token is a new id.
recordRecommendation(s) ==
    [s EXCEPT !.lastRanking = rankProducts(s.intent, day), !.recommendationVersion = @ + 1,
              !.recommendationIntentVersion = s.intentVersion, !.token = Len(issued) + 1]

\* syncMemory.
Shown(s) ==
    [s EXCEPT !.shownProductIds =
        {s.lastRanking.matches[k] : k \in DOMAIN s.lastRanking.matches}]

currentRecommendation(s) ==
    IF isCurrentRecommendation(s) THEN s ELSE Shown(recordRecommendation(s))

\* Mutant: the binding's versions are compared, its token is not.
SameVersions(s, b) ==
    b # None => /\ issued[b].intentVersion = s.intentVersion
                /\ issued[b].recommendationVersion = s.recommendationVersion

\* sameRecommendationBinding of a presented binding, if there is one.
BindingMatches(s, b) ==
    b # None => /\ issued[b].intentVersion = s.intentVersion
                /\ issued[b].recommendationVersion = s.recommendationVersion
                /\ b = s.token

\* Mutant: whatever the shortlist shows can be selected.
SelectableIfShown(s, p, b) ==
    WithinBudget(p, s.intent) /\ BindingMatches(s, b) /\ p \in s.shownProductIds

\* validateCurrentSelection, after currentRecommendation.  The eligibility in
\* the match is of the day of the ranking; the rest is checked again.
Selectable(s, p, b) ==
    LET matches == s.lastRanking.matches IN
    /\ WithinBudget(p, s.intent) /\ BindingMatches(s, b)
    /\ s.intent.size # None /\ InStock(p, s.intent)
    /\ \E k \in DOMAIN matches : matches[k] = p
    /\ p \in s.shownProductIds
    /\ ColourMatched(p, s.intent) /\ Returnable(p, s.intent)
    /\ DeliveryMet(p, s.intent, day)

\* The envelope is the one of the current recommendation and intent.
Bound(s) ==
    /\ s.envelope # None /\ s.quoteValid /\ isCurrentRecommendation(s)
    /\ s.envelope.token = s.token
    /\ s.envelope.intentVersion = s.intentVersion
    /\ s.envelope.recommendationVersion = s.recommendationVersion
    /\ s.envelope.intent = s.intent

Move(s, next) == [s EXCEPT !.state = StateAfter(@, next)]

---------------------------------------------------------------------------
(* Operations *)

\* The session becomes s; the reply carries its binding or not.
Become(new, replied) ==
  \E s \in {new} :
    /\ s.intentVersion <= MaxVersion
    /\ s.token # None => s.token <= MaxRecommendations
    /\ session' = s
    /\ issued' = IF s.token # Len(issued) + 1 THEN issued
                 ELSE Append(issued, [intent |-> s.intent, matches |-> s.lastRanking.matches, day |-> day,
                                      intentVersion |-> s.intentVersion,
                                      recommendationVersion |-> s.recommendationVersion])
    /\ given' = IF replied THEN given \cup {s.token} ELSE given

\* handleCheaper ranks when nothing is current, whatever the state.
handleCheaper(s, invalidated) ==
    Become(currentRecommendation(IF invalidated /\ s.state = "AWAITING_APPROVAL"
                                 THEN Move(s, "QUOTED") ELSE s), FALSE)

\* A search that is neither a repetition nor refused for the state.  A move
\* that is not allowed is thrown after the ranking has been recorded.
Search(s, invalidated) ==
    LET stays == s.state = "REAPPROVAL_REQUIRED" \/ (s.state = "AWAITING_APPROVAL" /\ ~invalidated) IN
    \E r \in {recordRecommendation(s)} :
        \/ /\ ~r.lastRanking.ranked
           /\ Become(IF Moves(s.state, "CLARIFYING") THEN Shown(Move(r, "CLARIFYING")) ELSE r, FALSE)
        \/ /\ r.lastRanking.ranked
           /\ Become(Shown(IF stays THEN r ELSE Move(r, "QUOTED")), TRUE)

\* The part of respond after the intent has been updated to that of s.  The
\* selection that handleSelect notes is read by nothing: the client quotes.
Route(s, action, products, cheaper) ==
    LET change == hasIntentChanged(session.intent, s.intent)
        invalidated == change /\ session.envelope # None
        looks == action \in {"search", "refine"}
        repeats == ~change /\ isCurrentRecommendation(s) /\ s.lastRanking.ranked
    IN \/ /\ action = "restart"
          /\ Become([NewSession EXCEPT !.state = s.state], FALSE)
       \/ /\ action \in {"compare", "explain"} \/ (action = "select" /\ products = <<>>)
          /\ Become(s, FALSE)
       \/ /\ action = "select" /\ products # <<>>
          /\ Become(currentRecommendation(s), TRUE)
       \/ /\ looks /\ cheaper
          /\ handleCheaper(s, invalidated)
       \/ /\ looks /\ ~cheaper /\ repeats
          /\ Become(Shown(s), TRUE)
       \/ /\ looks /\ ~cheaper /\ ~repeats /\ ~CanRank(s.state, change)
          /\ Become(s, FALSE)
       \/ /\ looks /\ ~cheaper /\ ~repeats /\ CanRank(s.state, change)
          /\ Search(s, invalidated)

\* respond: the LLM makes a proposal or, when it makes no valid one, may
\* extract soft preferences.
Respond(m, proposal, soft) ==
    LET d == deterministicInterpretation(m, session.intent)
        used == FromLlm(proposal) IN
    /\ \E merged \in {mergeInterpretation(d, IF used THEN proposal ELSE d)} :
       \E applied \in {applyInterpretation(session.intent, merged)} :
       \E s \in {WithIntent(session, IF used THEN applied ELSE Enriched(applied, soft))} :
          Route(s, merged.action, merged.products, m.cheaper)
    /\ UNCHANGED <<quotes, day>>

\* An empty string clears a size; an empty colour or use case is refused.
ValidPatch(patch) ==
    \A f \in DOMAIN patch :
        LET v == patch[f] IN
        CASE f = "maxAmountMinor" -> v \in 1000..HighestBudget
          [] f = "size" -> v \in SIZES \cup {Clear}
          [] f = "colour" -> v \in COLOURS
          [] f = "useCase" -> v \in USE_CASES
          [] OTHER -> f # "deliverBy"

\* Mutant: an empty value is stored as it is.
PatchedAsIs(intent, patch) ==
    [f \in Fields |-> IF f \in DOMAIN patch THEN patch[f] ELSE intent[f]]

Patched(intent, patch) ==
    [f \in Fields |-> CASE f \notin DOMAIN patch -> intent[f]
                        [] f \in DOMAIN patch /\ patch[f] = Clear -> None
                        [] OTHER -> patch[f]]

\* intentPatch; one for another version, or an invalid one, changes nothing.
IntentPatch(patch, expected) ==
    /\ expected = session.intentVersion /\ ValidPatch(patch)
    /\ \E s \in {WithIntent(session, Patched(session.intent, patch))} :
       \E r \in {recordRecommendation([s EXCEPT !.state =
                     PatchTarget(@, hasIntentChanged(session.intent, s.intent))])} :
          Become([Shown(r) EXCEPT !.state = IF ~r.lastRanking.ranked THEN "CLARIFYING"
                                            ELSE IF @ = "CLARIFYING" THEN "QUOTED" ELSE @], TRUE)
    /\ UNCHANGED <<quotes, day>>

\* The envelope that buildQuote makes for product p of recommendation c.
Quote(c, p, b) ==
    [digest |-> quotes + 1, product |-> p, token |-> c.token, intentVersion |-> c.intentVersion,
     recommendationVersion |-> c.recommendationVersion, intent |-> c.intent,
     day |-> day, presented |-> b]

\* buildQuote.  The envelope is stored before a move that may be refused.
BuildQuote(p, b) ==
    \E c \in {currentRecommendation(session)} :
        \/ /\ ~Selectable(c, p, b)
           /\ Become(c, TRUE)
           /\ UNCHANGED <<quotes, day>>
        \/ /\ Selectable(c, p, b) /\ quotes < MaxQuotes
           /\ Become(Move([c EXCEPT !.quoteValid = TRUE, !.envelope = Quote(c, p, b)],
                          "AWAITING_APPROVAL"),
                     Moves(c.state, "AWAITING_APPROVAL"))
           /\ quotes' = quotes + 1
           /\ UNCHANGED day

\* approve.  The digest is remembered before a move that may be refused.
Approve(d) ==
    /\ Bound(session) /\ session.approved # d /\ session.envelope.digest = d
    /\ session' = Move([session EXCEPT !.approved = d], "APPROVED")
    /\ UNCHANGED <<issued, given, quotes, day>>

NextDay ==
    /\ day < LastDay
    /\ day' = day + 1
    /\ UNCHANGED <<session, issued, given, quotes>>

---------------------------------------------------------------------------

Presentable == given \cup {None}

Next ==
    \/ \E m \in Messages :
          \/ \E proposal \in Proposals : Respond(m, proposal, <<>>)
          \/ \E soft \in Enrichments : Respond(m, None, soft)
    \/ \E patch \in Patches, expected \in 0..MaxVersion : IntentPatch(patch, expected)
    \/ \E p \in Products, b \in Presentable : BuildQuote(p, b)
    \/ \E d \in 1..quotes : Approve(d)
    \/ NextDay

Spec == Init /\ [][Next]_vars

---------------------------------------------------------------------------
(* Properties *)

\* The recommendation that bindings, quotes and approvals are checked against
\* is one for the intent the session has now, and the products that can be
\* selected are the ones it showed (isCurrentRecommendation, syncMemory).
CurrentIsOfIntent ==
    isCurrentRecommendation(session) =>
        /\ issued[session.token].intent = session.intent
        /\ session.shownProductIds = {session.lastRanking.matches[k] :
                                         k \in DOMAIN session.lastRanking.matches}

\* A quote names a product that the recommendation it was chosen from showed,
\* for the very intent the recommendation was made for, however late the
\* client answered and although a restart uses the version numbers again.
QuotedAsShown ==
    LET e == session.envelope IN
    e # None /\ e.presented # None =>
        LET r == issued[e.presented] IN
        r.intent = e.intent /\ \E k \in DOMAIN r.matches : r.matches[k] = e.product

\* What the customer has approved, or could approve now, satisfies every hard
\* constraint of the intent the session has now, a colour and a deadline that
\* was still far away when the product was ranked included.
ApprovableFitsIntent ==
    LET e == session.envelope IN
    Bound(session) \/ (e # None /\ session.approved = e.digest) =>
        /\ e.intent = session.intent
        /\ Eligible(e.product, session.intent, e.day)
        /\ ColourMatched(e.product, session.intent)

\* A shortlist leaves out no eligible product that scores higher than one it
\* shows, and none at all while there is room (rankProducts).
ShortlistIsBest ==
    isCurrentRecommendation(session) /\ session.lastRanking.ranked =>
        LET r == issued[session.token] IN
        \A p \in Products \ session.shownProductIds :
            Eligible(p, r.intent, r.day) =>
                /\ Cardinality(session.shownProductIds) = 3
                /\ \A q \in session.shownProductIds :
                      Score(p, r.intent, r.day) <= Score(q, r.intent, r.day)
=============================================================================

SPECIFICATION Spec
CONSTANTS
    None = None
    Clear = Clear
    Messages <- MCMessages
    Proposals <- MCProposals
    Enrichments <- MCEnrichments
    Patches <- MCPatches
    MaxRecommendations = 2
    MaxVersion = 2
    MaxQuotes = 2
    LastDay = 1
INVARIANTS ConversationTypeOK CurrentIsOfIntent QuotedAsShown ApprovableFitsIntent ShortlistIsBest

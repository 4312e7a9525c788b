SPECIFICATION Spec
CONSTANTS
    None = None
    Schemes = {"http", "https"}
    Ports = {80, 443}
    Labels = {"com", "a", "b", "ba", "literal"}
    Bytes = {"/", "x", "y"}
    Slash = "/"
    Queries = {"q"}
    Addresses <- MCAddresses
    RuleSets <- MCRuleSets
    Reloads <- MCReloads
    Urls <- MCUrls
    MaxRules = 3
INVARIANTS
    IndexIsComplete
    RulesReachDns
    ResolvesInOrder
    TraceTellsDecision

SPECIFICATION FinOpsLiveSpec
CONSTANTS
    NoValue = NoValue
    Scraped <- MCScraped
    Scrapes <- MCScrapes
    Providers <- MCProviders
    Catalogs <- MCCatalogs
    Defaults <- MCDefaults
    Policies <- MCPolicies
    Reports = {"all", "b"}
    Scope <- MCScope
    Budgets <- MCBudgets
    Egress <- MCEgress
    MaxChanges = 2
INVARIANTS
    
    
    FallbackSparesOthers
PROPERTIES
    SeriesSettle
CHECK_DEADLOCK FALSE

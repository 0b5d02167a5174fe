SPECIFICATION Spec
CONSTANTS
  Keys <- MCKeys
  LegacyKeyMap <- MCLegacyKeyMap
  Values = {"32", "500"}
  Personas = {"shopper"}
  PersonaOrder <- MCPersonaOrder
  Selectors = {"shopping"}
  Selects <- MCSelects
  Domains = {"shop.example"}
  Categories = {"shopping"}
  ActionNames = {"find_item"}
  Tabs = {t1}
  Requests <- MCRequests
  RuleOffers <- MCRuleOffers
  InitialVaults <- MCInitialVaults
  FactLists <- MCFactLists
  DashboardOps = {"approve", "deny", "rules", "posture", "persona", "erase"}
  MaxId = 2
  ApprovalTTL = 1
  RuleTTL = 0
  MaxTime = 1
  MaxEdits = 2
  MaxReleases = 2
  NoVault = NoVault
INVARIANTS
  Provenance
  ReleasedAsShown
  ApprovedOnce
  EveryReleaseIsAudited
CHECK_DEADLOCK FALSE

SPECIFICATION CallSpec
CONSTANTS
  Keys <- MCKeys
  LegacyKeyMap <- MCLegacyKeyMap
  Values = {v1}
  Personas = {"p1", "p2"}
  PersonaOrder <- MCPersonaOrder
  Selectors = {"shopping", "travel"}
  Selects <- MCSelects
  Domains = {"d"}
  Categories = {"shopping"}
  ActionNames = {"find_item", "checkout"}
  CallVaults <- MCVaults
  CallRules <- MCRules
  CallRequests <- MCRequests
  CallTime = 1
  NoRequest = NoRequest
INVARIANTS
  AutoReleaseIsPermitted
  AnswerIsWhatWasAsked
  NarrowerRequestIsNoHarder
CHECK_DEADLOCK FALSE

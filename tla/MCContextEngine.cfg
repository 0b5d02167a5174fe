CONSTANTS
  a = a
  f = f
  g = g
  job = job
  shop = shop
  pattern = pattern
  home = home
  office = office
  Visitors = {v1, v2}
  DemoRequests <- MCDemoRequests
  DemoRules <- MCDemoRules
  MaxSessions = 1
  SessionTTL = 2
  Agents = {a}
  Personas = {home, office}
  Fields = {f, g}
  Sources = {job}
  Purposes = {shop}
  Patterns = {pattern}
  Mentions <- MCMentions
  Requests <- MCRequests
  RuleOffers <- MCRuleOffers
  Postures = {"open", "locked"}
  MaxId = 2
  MaxTime = 4
  MaxFailures = 1
  MaxStarts = 2
  ApprovalTTL = 1
  RuleTTL = 3
  Interval = 2
  Retention = 2
  Day = 3
  Keep = 1
  NoOne = NoOne
  NoWindow = NoWindow
  NoVault = NoVault
  Torn = Torn
SPECIFICATION MCSpec
CHECK_DEADLOCK FALSE
INVARIANTS GrantedInTime SettledStaysSettled ReleasesAreAudited WithdrawnStaysWithdrawn ScenariosShowWhatTheyClaim

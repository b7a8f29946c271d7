\* Safety and liveness of the agent channels, one agent and two channels.
SPECIFICATION FairSpec
CONSTANTS
  a1 = a1
  c1 = c1
  c2 = c2
  NoConn = NoConn
  Agents = {a1}
  Conns = {c1, c2}
  AgentOf <- MCAgentOf
  StaleMinutes = 2
INVARIANTS
  TypeOK
  HubEntryServed
  HealthyIsRouted
  OnlyEscapedSurvive
PROPERTIES
  ClosedIsUnrouted
  AwayShownOffline
  RevokedShownOffline

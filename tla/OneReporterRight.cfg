\* The sweeper and a replaced channel's callback turn a connected agent offline
\* (expected to fail).
SPECIFICATION HistorySpec
CONSTANTS
  a1 = a1
  c1 = c1
  c2 = c2
  NoConn = NoConn
  Agents = {a1}
  Conns = {c1, c2}
  AgentOf <- MCAgentOf
  StaleMinutes = 2
INVARIANTS
  OneReporterRight

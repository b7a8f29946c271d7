\* A revoked agent keeps the channel it was opening (expected to fail).
SPECIFICATION FairSpec
CONSTANTS
  a1 = a1
  c1 = c1
  c2 = c2
  NoConn = NoConn
  Agents = {a1}
  Conns = {c1, c2}
  AgentOf <- MCAgentOf
  StaleMinutes = 2
PROPERTIES
  RevokedIsCut

\* A session that ends stays open at the agent (expected to fail).
SPECIFICATION FairSpec
CONSTANTS
  Sessions = {s1, s2}
  Pages = {p1, p2}
  NoSession = NoSession
  NoPage = NoPage
  Wire = 1
PROPERTIES
  EndReachesAgent

\* Two machines, three attempts on two tokens, two creations of the CA. The
\* system may stop: a server whose key file is torn no longer starts.
SPECIFICATION Spec
CONSTANTS
  Absent = Absent
  Torn = Torn
  NoAttempt = NoAttempt
  MaxRoots = 2
  Machines = {m1, m2}
  Tokens = {t1, t2}
  Attempts = {e1, e2, e3}
SYMMETRY Symmetry
CHECK_DEADLOCK FALSE
INVARIANTS
  TypeOK
  RootIsStable
  OneAgentPerToken
  IdentityCoherent
PROPERTIES
  IdentityKept
  BuysOneIdentity

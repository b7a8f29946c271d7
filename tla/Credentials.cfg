\* Two requests at a time, three tokens, one change by an administrator.
SPECIFICATION Spec
CONSTANTS
  NoToken = NoToken
  Requests = {r1, r2}
  Tokens = {t1, t2, t3}
  MaxAttempts = 2
  MaxEpochs = 1
SYMMETRY Symmetry
INVARIANTS
  TypeOK
  ParentIsDead
  GuessesBounded
  OutdatedTokensAreLate

\* One refresh token is exchanged for two pairs (expected to fail).
SPECIFICATION Spec
CONSTANTS
  NoToken = NoToken
  Requests = {r1, r2}
  Tokens = {t1, t2, t3}
  MaxAttempts = 2
  MaxEpochs = 1
SYMMETRY Symmetry
INVARIANTS
  ExchangedOnce

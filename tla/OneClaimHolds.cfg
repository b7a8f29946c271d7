\* Two founders, and an anonymised account named again (expected to fail).
SPECIFICATION Spec
CONSTANTS
  NoAccount = NoAccount
  Accounts = {a1, a2, a3}
  Requests = {r1, r2}
SYMMETRY Symmetry
INVARIANTS
  OneClaimHolds

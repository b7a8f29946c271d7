\* Three accounts, two requests at a time.
SPECIFICATION Spec
CONSTANTS
  NoAccount = NoAccount
  Accounts = {a1, a2, a3}
  Requests = {r1, r2}
SYMMETRY Symmetry
INVARIANTS
  TypeOK
  SetupStaysClosed
  MFASecretVerified

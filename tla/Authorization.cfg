\* Two users, two access tokens and two requests at a time; one role of the
\* migration, one created and deleted.
SPECIFICATION Spec
CONSTANTS
  Users = {u1, u2}
  Roles = {admin, helper}
  System = {admin}
  Admin = admin
  Others = {}
  Tokens = {t1, t2}
  Requests = {r1, r2}
SYMMETRY Symmetry
INVARIANTS
  TypeOK
  StaleClaimsPredate
PROPERTIES
  OnlyWhatWasAsked
  RightsNeedRights

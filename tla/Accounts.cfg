\* The owner and three users, two visits and two requests to change a
\* member at a time, a package for two users.
CONSTANTS
  Owner = o
  Others = {u1, u2, u3}
  Visits = {v1, v2}
  Changes = {c1, c2}
  UserLimit = 2
  MaxRows = 4
  MaxCancels = 1
SPECIFICATION Spec
INVARIANTS
  TypeOK
  ActiveBounded
  OwnerHasAccess
  ActiveIsFirst
  RowsBounded
SYMMETRY Symmetry
CHECK_DEADLOCK FALSE

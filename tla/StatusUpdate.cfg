\* Registration and reports: two agent requests with all kinds of statistics
\* and service reports and a user race for rows at one address, in a domain
\* that allows one server.
CONSTANTS
  Ips = {ip1}
  Posted <- MCPosted
  Reports = {"none", "up"}
  Reqs = {r1, r2}
  Admins = {a1}
  Limit = 1
  MaxRows = 5
SPECIFICATION Spec
SYMMETRY Symmetry
INVARIANTS
  TypeOK
  RegistrationBounded
  RegisteredRowsFilled
  DuplicatesBounded
  FailureIsInherited
  ColoursAgree

\* One tab of one user, pages of two alerts, two servers and a group.
CONSTANTS
  Servers = {s1, s2}
  Groups = {g1}
  MoreGroups = TRUE
  User = u1
  Users = {u1}
  Grantable = {u1}
  Tabs = {t1}
  UserOf <- MCUserOf
  PageSize = 2
  MaxAlerts = 3
  MaxPage = 2
  MaxCopies = 2
SPECIFICATION Spec
SYMMETRY Symmetry
INVARIANTS
  TypeOK
  NewStayUnread
  LaterPagesEmpty
PROPERTIES
  MarkClearsBadge
  LockedOutForGood
CHECK_DEADLOCK FALSE

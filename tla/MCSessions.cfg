SPECIFICATION Spec
CONSTANTS
  Users = {u1, u2}
  Tokens = {t1, t2, t3, t4}
  Requests = {r1, r2}
  NoToken = NoToken
  NoUser = NoUser
  MaxErrors = 1
  u1 = u1
  u2 = u2
  t1 = t1
  t2 = t2
  t3 = t3
  t4 = t4
  r1 = r1
  r2 = r2
SYMMETRY Symmetry
CHECK_DEADLOCK FALSE
INVARIANTS RotationExclusive LogoutEnds SessionSurvives
PROPERTIES DeadStaysDead ImplementsFamilies

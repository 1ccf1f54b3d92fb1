SPECIFICATION Spec
CONSTANTS
  NULL = NULL
  u1 = u1
  u2 = u2
  u3 = u3
  mail1 = mail1
  mail2 = mail2
  i1 = i1
  i2 = i2
  Offers <- MCOffers
  Phones = {u2}
  Users = {u1, u2}
  Emails = {mail1, mail2}
  EmailOf <- MCEmailOf
  Elsewhere = {}
  Invites = {i1, i2}
  Requests = {r1, r2}
  Editors = {r1, r2}
INVARIANTS
  AlwaysAnOwner
SYMMETRY MCSymmetry
CHECK_DEADLOCK FALSE

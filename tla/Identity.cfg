SPECIFICATION Spec
CONSTANTS
  Users = {u1, u2}
  NoUser = NoUser
  Passwords = {p1, p2}
  NoPassword = NoPassword
  Transactions = {x1, x2}
  Sessions = {s1, s2}
  Tokens = {k1}
  NoTransaction = NoTransaction
  Requests = {c1, c2}
  MaxLapses = 1
INVARIANTS TypeOK SessionBacked Granted
PROPERTY OwnerRevokes
SYMMETRY Symmetry

SPECIFICATION DaySpec
CONSTANTS
  ana = ana
  bob = bob
  n1 = n1
  n2 = n2
  l1 = l1
  l2 = l2
  f1 = f1
  None = None
  People <- MCPeople
  Numbers = {n1, n2}
  NumberOf <- Own1
  Logins = {l1, l2, f1}
  LoginsOf <- OwnLogins
  Exts = {jpg}
  MaxRows = 2
  Cards = {k1}
INVARIANTS
  RegistrationInv
  ProfileIsOwn
  CertificateIsOwn
  CardIsOwn

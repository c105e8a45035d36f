CONSTANTS
  alice = alice
  bob = bob
  s1 = s1
  Names = {alice, bob}
  Subjects = {s1}
  NameOf <- ClaimsBob
  AutoProvision = TRUE
  Requests = {r1, r2}
  Sessions = {k1}
  Tokens = {t1}
  NoSub = NoSub
  NoToken = NoToken
  MaxUsers = 3
  MaxChanges = 2
SPECIFICATION Spec
SYMMETRY Symmetry
CHECK_DEADLOCK FALSE
INVARIANTS
  TypeOK
  RightsAreCurrent
  AdminsComeFromAdmins

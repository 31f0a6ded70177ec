CONSTANTS
  Workers = {w1, w2}
  Names = {n1, n2}
  Passwords = {p1, p2}
  MaxInserts = 3
  MaxRestarts = 1
  None = None
SPECIFICATION Spec
INVARIANTS TypeOK RegistryConsistent
PROPERTIES PasswordStable LockReleased

\* Two replicas, a key rotation, one task attempted twice; one value is part of
\* the other.
SPECIFICATION SecretsSpec
CONSTANTS
  Replicas = {r1, r2}
  Names = {n1, n2}
  Tasks = {t1}
  KeyIds = {k1, k2}
  Chars = {"a", "b"}
  Secrets <- MCSecrets
  Declares <- MCDeclares
  MaxOps = 6
  MaxAttempts = 2
  NONE = NONE
  r1 = r1
  r2 = r2
  n1 = n1
  n2 = n2
  t1 = t1
SYMMETRY MCSymmetry
INVARIANTS
  RotationCompletes
  NothingLeaks
CHECK_DEADLOCK FALSE

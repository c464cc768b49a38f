\* The comment on JWKS.
SPECIFICATION Spec
CONSTANTS
  p1 = p1
  p2 = p2
  v1 = v1
  t1 = t1
  t2 = t2
  c1 = c1
  c2 = c2
  Nil = Nil
  Keys = {1, 2}
  Users = {"ann"}
  Tokens = {t1}
  Signers = {p1, p2}
  Verifiers = {v1}
  Checks = {c1}
INVARIANTS
  JWKSIsWhole
CHECK_DEADLOCK FALSE

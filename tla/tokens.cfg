\* Two replicas, two sessions, two checks at a time in one process.
SPECIFICATION FairSpec
CONSTANTS
  p1 = p1
  p2 = p2
  v1 = v1
  t1 = t1
  t2 = t2
  c1 = c1
  c2 = c2
  Nil = Nil
  Keys = {1, 2}
  Users = {"ann"}
  Tokens = {t1, t2}
  Signers = {p1, p2}
  Verifiers = {v1}
  Checks = {c1, c2}
INVARIANTS
  TokensAreListed
  GenuineIsKnown
PROPERTIES
  SettledStays
  SettledHeals
  ChecksEnd
CHECK_DEADLOCK FALSE

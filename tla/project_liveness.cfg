\* One deletion under fairness, two faults.
SPECIFICATION FairSpec
CONSTANTS
  o1 = o1
  o2 = o2
  c1 = c1
  c2 = c2
  p1 = p1
  Nil = Nil
  Kinds = {"vm", "container"}
  Ops = {o1}
  Calls = {c1}
  Replicas = {p1}
  MaxForeign = 1
  MaxFaults = 2
PROPERTIES
  EmptyIsSettled
  NothingIsLeft
CHECK_DEADLOCK FALSE

\* One name, two overlapping deletions, two replicas of the compute service.
SPECIFICATION Spec
CONSTANTS
  o1 = o1
  o2 = o2
  p1 = p1
  p2 = p2
  Nil = Nil
  Kinds = {"vm"}
  Names = {"a"}
  Ops = {o1, o2}
  Replicas = {p1, p2}
  MaxObjects = 2
  MaxFaults = 2
SYMMETRY Symmetry
INVARIANTS
  TypeOK
  DoneMeansGone
  PendingIsBacked
PROPERTIES
  QuiescentIsFinal
  LifecycleSpec
CHECK_DEADLOCK FALSE

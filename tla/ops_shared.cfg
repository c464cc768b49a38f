\* Two services on one operations table, the same name in both, under fairness.
SPECIFICATION FairSpec
CONSTANTS
  o1 = o1
  o2 = o2
  p1 = p1
  p2 = p2
  Nil = Nil
  Kinds = {"bucket", "database"}
  Names = {"a"}
  Ops = {o1, o2}
  Replicas = {p1}
  MaxObjects = 2
  MaxFaults = 1
INVARIANTS
  DoneMeansGone
PROPERTIES
  AbsentIsSettled
  DeleteIsCarriedOut
CHECK_DEADLOCK FALSE

\* Two deletions at a time, one fault.
SPECIFICATION Spec
CONSTANTS
  o1 = o1
  o2 = o2
  c1 = c1
  c2 = c2
  p1 = p1
  Nil = Nil
  Kinds = {"vm", "container"}
  Ops = {o1, o2}
  Calls = {c1, c2}
  Replicas = {p1}
  MaxForeign = 1
  MaxFaults = 1
SYMMETRY Symmetry
INVARIANTS
  DoneMeansDropped
  RowsNeedProject
  ListedProjectsAreUsable
PROPERTIES
  ListingSpec
  LifecycleSpec
CHECK_DEADLOCK FALSE

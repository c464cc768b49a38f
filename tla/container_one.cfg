\* One name, its default host and another domain, two requests at a time, a
\* fault, under fairness.
SPECIFICATION FairSpec
CONSTANTS
  c1 = c1
  c2 = c2
  p1 = p1
  o1 = o1
  o2 = o2
  s1 = s1
  n1 = n1
  n2 = n2
  d1 = d1
  h1 = h1
  h2 = h2
  Nil = Nil
  Ops = {o1, o2}
  Calls = {c1, c2}
  Replicas = {p1}
  Specs = {s1}
  Names = {n1}
  Domains = {d1, h1}
  Host <- HostNames
  Asked = {d1, h1}
  MaxFaults = 1
INVARIANTS
  DoneMeansGone
  RowsNeedProject
  RowsMatchServices
  RowsMatchMappings
  PendingIsAttended
PROPERTIES
  LifecycleSpec
  DeletionIsAnswered
CHECK_DEADLOCK FALSE

\* One account, two projects and a polled list, under fairness; one fault.
SPECIFICATION FairSpec
CONSTANTS
    u = u
    v = v
    a = a
    b = b
    c = c
    n1 = n1
    n2 = n2
    Nil = Nil
    Users = {u}
    Projects = {a, b}
    Owner <- MCOwner
    Names = {n1}
    Kinds = {"container"}
    MaxPolls = 2
    MaxRequests = 1
    MaxFaults = 1
PROPERTIES
    SpinnerEnds
    ListsHeal
CHECK_DEADLOCK FALSE

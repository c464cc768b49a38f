\* Two accounts in one browser, buckets of two names and the repository, one fault.
SPECIFICATION Spec
CONSTANTS
    u = u
    v = v
    a = a
    b = b
    c = c
    n1 = n1
    n2 = n2
    Nil = Nil
    Users = {u, v}
    Projects = {a}
    Owner <- MCOwner
    Names = {n1, n2}
    Kinds = {"bucket", "repository"}
    MaxPolls = 2
    MaxRequests = 2
    MaxFaults = 1
SYMMETRY Symmetry
INVARIANTS
    
    ShownIsOwn
    SpinnerIsWork
CHECK_DEADLOCK FALSE

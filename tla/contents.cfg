\* One name in two projects, under fairness; one fault.
SPECIFICATION FairSpec
CONSTANTS
  Projects = {a, b}
  Schemas = {s}
  MaxBackups = 2
  MaxRequests = 2
  MaxFaults = 1
  Nil = Nil
PROPERTIES
  SchemaDropsAsMeant
  BackupsGoAsMeant
  BackupsHeal
CHECK_DEADLOCK FALSE

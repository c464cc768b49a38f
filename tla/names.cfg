\* Names of up to seven runes; what is longer than five is cut.
SPECIFICATION Spec
CONSTANTS
  Letters = {"x", "h"}
  Others = {"_"}
  Hyphen = "-"
  Limit = 8
  Suffix <- MCSuffix
  Fallback <- MCFallback
  ProjectPrefix <- MCProjectPrefix
  MaxTyped = 7
INVARIANTS
  ServiceNameIsSafe
  ShortProjectIdIsSafe
CHECK_DEADLOCK FALSE

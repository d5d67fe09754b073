\* A blob that could not be deleted is left to the next run.
CONSTANTS
  Requests = {r1}
  Files = {f}
  Configs <- MCConfigs
  Asked <- MCAsked
  MaxWork = 2
SPECIFICATION Spec
INVARIANTS
  FailuresStayEligible
CHECK_DEADLOCK FALSE

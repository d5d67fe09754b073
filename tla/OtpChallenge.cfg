\* Two processes; one session, two destinations; sends that use up the caps,
\* verifications that use up the attempts, one mishap of Redis.
CONSTANTS
  Procs = {p1, p2}
  Sessions = {s1}
  Dests = {d1, d2}
  MaxAttempts = 2
  MaxPerSession = 2
  MaxPerDestination = 1
  MaxSends = 2
  MaxVerifies = 4
  MaxMishaps = 1
SYMMETRY Symmetry
SPECIFICATION Spec
INVARIANTS
  TypeOK
  CapsHold
  OneLiveCode
  ComparedIsCurrent
  TriesCapped
  CheckReflectsChallenges
\* The bounds on requests are used up.
CHECK_DEADLOCK FALSE

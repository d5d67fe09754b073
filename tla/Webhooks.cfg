\* Two transactions that close at once, and an override after them; two
\* workers; outages that use up the retries, one mishap, one collision.
CONSTANTS
  Closers = {c1, c2}
  Workers = {w1, w2}
  Statuses = {"VERIFIED", "REVIEW"}
  MaxRetries = 1
  MaxClosings = 3
  MaxOutages = 2
  MaxMishaps = 1
  MaxCollisions = 1
SPECIFICATION FairSpec
INVARIANTS
  TypeOK
  OneDeliveryPerEvent
  ToldWhatWasShown
  HeardOnceOrMishap
  UnheardHasCause
PROPERTIES
  QueuedIsHeard
  KeepsNotices
\* The session is closed and everything was delivered or dropped.
CHECK_DEADLOCK FALSE

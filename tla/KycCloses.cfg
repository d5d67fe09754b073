\* Under time and the sweep alone every session closes: one worker that may lose
\* or repeat its runs, uploads whose dispatch may be lost.
CONSTANTS
  AcceptThreshold = 80
  ReviewThreshold = 50
  Flow = "CITIZEN"
  Hooked = TRUE
  DocumentThreshold = 60
  LivenessThreshold = 70
  FaceThreshold = 80
  OtpMaxAttempts = 1
  MaxRetries = 1
  Stuck = 1
  TTL = 2
  Clients = {c1}
  Workers = {w1}
  Scores = {60, 100}
  UserOps = {"consent", "document", "otp_send", "otp_verify"}
  MaxUploads = 1
  MaxOverrides = 0
  MaxFaults = 1
SPECIFICATION FairSpec
PROPERTIES
  Closes
\* A closed session with nothing in flight is where the system stops.
CHECK_DEADLOCK FALSE

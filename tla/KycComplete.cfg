\* Claim: a session whose checks are all decided is closed.
CONSTANTS
  AcceptThreshold = 80
  ReviewThreshold = 50
  Flow = "CITIZEN"
  Hooked = TRUE
  DocumentThreshold = 60
  LivenessThreshold = 70
  FaceThreshold = 80
  OtpMaxAttempts = 2
  MaxRetries = 0
  Stuck = 1
  TTL = 2
  Clients = {c1}
  Workers = {w1, w2}
  Scores = {50, 60, 100}
  UserOps = {"consent", "document", "otp_send", "otp_verify"}
  MaxUploads = 1
  MaxOverrides = 0
  MaxFaults = 0
SPECIFICATION Spec
SYMMETRY Symmetry
INVARIANTS
  CompleteMeansClosed
\* A closed session with nothing in flight is where the system stops.
CHECK_DEADLOCK FALSE

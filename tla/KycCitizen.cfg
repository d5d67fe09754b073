\* The citizen flow (document and OTP) with retries, lost and redelivered runs,
\* sweeps and expiry.  A document score of 50 is a REVIEW, 60 is PASSED but
\* alone too little to be VERIFIED.
CONSTANTS
  AcceptThreshold = 80
  ReviewThreshold = 50
  Flow = "CITIZEN"
  Hooked = TRUE
  DocumentThreshold = 60
  LivenessThreshold = 70
  FaceThreshold = 80
  OtpMaxAttempts = 2
  MaxRetries = 1
  Stuck = 1
  TTL = 2
  Clients = {c1}
  Workers = {w1, w2}
  Scores = {50, 60, 100}
  UserOps = {"consent", "document", "otp_send", "otp_verify"}
  MaxUploads = 1
  MaxOverrides = 0
  MaxFaults = 1
SPECIFICATION Spec
SYMMETRY Symmetry
INVARIANTS
  TypeOK
  VerdictTraced
  SomethingPending
PROPERTIES
  OnlyClosedBlocks
  VerifiedEarned
\* A closed session with nothing in flight is where the system stops.
CHECK_DEADLOCK FALSE

\* The travel-insurance flow: document and selfie tasks race on two workers, their
\* failure hooks, OTP, expiry, and an operator's override at any moment.
CONSTANTS
  AcceptThreshold = 80
  ReviewThreshold = 50
  Flow = "TRAVEL_INSURANCE"
  Hooked = TRUE
  DocumentThreshold = 60
  LivenessThreshold = 70
  FaceThreshold = 80
  OtpMaxAttempts = 1
  MaxRetries = 0
  Stuck = 1
  TTL = 1
  Clients = {c1}
  Workers = {w1, w2}
  Scores = {60, 100}
  UserOps = {"consent", "document", "selfie", "otp_send", "otp_verify"}
  MaxUploads = 1
  MaxOverrides = 1
  MaxFaults = 0
SPECIFICATION Spec
SYMMETRY Symmetry
INVARIANTS
  OneVerdict
  CapturedWithConsent
PROPERTIES
  KeepsPromise
  VerdictStands
  TroubleNeverRejects
\* A closed session with nothing in flight is where the system stops.
CHECK_DEADLOCK FALSE

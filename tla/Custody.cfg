\* Two requests at once, three in all, about one file.
CONSTANTS
  Requests = {r1, r2}
  Files = {f}
  Configs <- MCConfigs
  Asked <- MCAsked
  MaxWork = 3
SYMMETRY Symmetry
SPECIFICATION Spec
INVARIANTS
  TypeOK
  RegistryDescribesBlobs
  PurgeProved
  LeftoversHaveCause
  CertificatesBounded
  ProofOutlivesData
PROPERTIES
  WipedStaysWiped
\* The bound on requests is used up.
CHECK_DEADLOCK FALSE

CONSTANTS
  W = 8
  ByteBits = 2
  CtrLimit = 3
  MaxRun = 2
  BufferSize = 16
  IO_ROUND = 2
  Beyond <- MCBeyond
  L = 3
  Excess = 3
  Order = 1021
  NBits = 9
  MockedNames = {"f"}
  Parameters = {"p"}
  Calls = {"primitives", "hash", "hmac", "hmac_drbg", "keys", "ctr", "ctr_drbg", "rand", "seed", "gcm", "enclave_gcm", "derive",
           "wrap", "limbs", "ladder", "agree", "mock", "expect", "tests"}
  Digests0 <- MCDigests
  HashLengths = {0, 1, 55, 56, 63, 64, 65, 119, 120}
  HashSplits = {0, 1, 20, 55, 64, 100}
  KeyLengths = {0, 5, 63, 64, 65}
  Seeds = {0, 5}
  AadLengths = {0, 5, 16, 70}
  DataLengths = {0, 1, 15, 16, 17, 70, 130}
  GcmSplits = {0, 3, 16, 20}
  LimbValues = {0, 1, 7, 15}
  Scalars <- MCScalars
  BasePoints = {1, 2, 3, 4, 5, 6, 7, 8, 9, 10, 11, 12, 13, 14, 15, 16, 17, 18, 19, 20}
  MaxBody = 4
  MaxTests = 3
SPECIFICATION Spec
CHECK_DEADLOCK FALSE
INVARIANTS PrimitivesExact DigestsMatch CiphersMatch GcmMatches CurveAgrees TestsReported

SPECIFICATION Spec
CONSTANTS
  Schemes = {"none", "pkcs5", "cts"}
  KeySizes = {16, 20}
  Ivs <- MCIvs
  Plaintexts <- MCPlaintexts
  AesKey <- MCAesKey
  MaxCalls = 3
INVARIANTS
  TypeOK
  RoundTrip
  ChainingAcrossCalls
CHECK_DEADLOCK FALSE

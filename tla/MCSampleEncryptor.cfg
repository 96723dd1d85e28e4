\* Sample encryption: DecryptConfigs describe the encrypted samples.
CONSTANTS
  Ivs <- MCIvs
  KeyId = KeyId
  Nals <- MCNals
  MaxNals = 3
  MaxSamples = 2
SPECIFICATION Spec
INVARIANT DecryptConfigDescribesSample
INVARIANT SamplesUseDisjointKeystream
CHECK_DEADLOCK FALSE

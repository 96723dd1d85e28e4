\* A clear-only NAL of more than 65535 bytes: its SubsampleEntry.
CONSTANTS
  Ivs <- MCIvs
  KeyId = KeyId
  Nals <- MCNalsLargeClear
  MaxNals = 2
  MaxSamples = 1
SPECIFICATION Spec
INVARIANT DecryptConfigDescribesSample
CHECK_DEADLOCK FALSE

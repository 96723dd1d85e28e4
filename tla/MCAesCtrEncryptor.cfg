\* AES-CTR encryptor: keystream continuity across subsample calls, IV
\* prefix stability across counter wrap, no keystream reuse across samples.
CONSTANTS
  KeySizes = {16, 20}
  Ivs <- MCIvs
  CallSizes = {0, 5, 16, 17}
  MaxBytes = 34
  MaxBlocks = 6
SPECIFICATION Spec
INVARIANT TypeOK
INVARIANT NoKeystreamReuse
INVARIANT CipherBytesFormOneStream
INVARIANT IvPrefixStable
PROPERTY KeystreamSpec

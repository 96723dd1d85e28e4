------------------------- MODULE MCAesCtrEncryptor --------------------------
(* Model-checking instance of AesCtrEncryptor.                             *)
EXTENDS AesCtrEncryptor

\* A 16-byte IV whose low half is all 255: the first Increment64 wraps it.
MCIvWrap == <<7, 7, 7, 7, 7, 7, 7, 7,
              255, 255, 255, 255, 255, 255, 255, 255>>
\* A 16-byte IV of zeros: consecutive samples advance its last byte.
MCIvZero == [j \in 1..16 |-> 0]
\* An 8-byte IV whose last byte is 255: UpdateIv carries into byte 7.
MCIv8 == <<0, 0, 0, 0, 0, 0, 1, 255>>
\* An IV of invalid length, refused by SetIv.
MCIvBad == <<1, 2, 3, 4>>

MCIvs == {MCIvWrap, MCIvZero, MCIv8, MCIvBad}
=============================================================================

------------------------------ MODULE AesCommon ------------------------------
(***************************************************************************)
(* What AesCtrEncryptor, AesCbcEncryptor and the abstract CtrKeystream    *)
(* share (aes_encryptor.cc, part_000): the block size, the key-size check *)
(* of InitializeWithIv, the padding of an IV to one block in              *)
(* SetIvInternal, the counter increment, and the IV update per sample.    *)
(***************************************************************************)
EXTENDS Naturals, Sequences

AES_BLOCK_SIZE == 16
Byte == 0..255
Block == [1..AES_BLOCK_SIZE -> Byte]

\* IsKeySizeValidForAes.
IsKeySizeValidForAes(size) == size \in {16, 24, 32}

\* counter_ = iv(); counter_.resize(AES_BLOCK_SIZE, 0), and the same for
\* internal_iv_ in AesCbcEncryptor::SetIvInternal.
Pad16(v) == v \o [j \in 1..(AES_BLOCK_SIZE - Len(v)) |-> 0]

\* Mutant: the carry runs on into the IV half of the counter block.
Increment64CarriesIntoIv(c) ==
  [j \in 1..AES_BLOCK_SIZE |->
     IF \A k \in (j + 1)..AES_BLOCK_SIZE : c[k] = 255
     THEN (c[j] + 1) % 256
     ELSE c[j]]

\* Increment64(&counter_[8]): the loop from byte 7 down to 0 of the low
\* half increments a byte iff every byte after it was 255 (and wrapped).
Increment64(c) ==
  [j \in 1..AES_BLOCK_SIZE |->
     IF j > 8 /\ \A k \in (j + 1)..AES_BLOCK_SIZE : c[k] = 255
     THEN (c[j] + 1) % 256
     ELSE c[j]]

\* The IV read as a big-endian integer plus m (m < 256), modulo its width:
\* the last byte takes m, the carry ripples through the trailing 255s.
AddToIv(v, m) ==
  LET last == Len(v)
      carry == (v[last] + m) \div 256
  IN [j \in 1..last |->
        IF j = last THEN (v[last] + m) % 256
        ELSE IF carry = 1 /\ \A k \in (j + 1)..(last - 1) : v[k] = 255
             THEN (v[j] + 1) % 256
             ELSE v[j]]

\* Mutant: a final partial block is not counted.
BlocksConsumedFloor(n) == n \div AES_BLOCK_SIZE

\* Number of 16-byte blocks a sample of n bytes consumed.
BlocksConsumed(n) == (n + AES_BLOCK_SIZE - 1) \div AES_BLOCK_SIZE

\* The keystream position that follows p in one uninterrupted AES-CTR
\* stream.
NextPosition(p) ==
  IF p[2] = AES_BLOCK_SIZE - 1
  THEN <<Increment64(p[1]), 0>>
  ELSE <<p[1], p[2] + 1>>

=============================================================================

--------------------------- MODULE AesCtrEncryptor ---------------------------
(***************************************************************************)
(* AesCtrEncryptor of packager/media/base/aes_encryptor.cc (part_000),     *)
(* with the parts of its base class AesCryptor it relies on (SetIv,        *)
(* UpdateIv), which are not in the source tree and are modelled from the   *)
(* spec (4.2, 4.3).                                                        *)
(*                                                                         *)
(* Data is abstracted to keystream positions: the byte XORed with the k-th *)
(* plaintext byte is byte `offset` of AES(key, block), so a cipher byte is *)
(* identified by the pair <<block, offset>>.  Two byte streams decrypt the *)
(* same way iff they use the same positions; the plaintext itself is left  *)
(* out.  Counter blocks are 16-byte sequences of byte values.              *)
(*                                                                         *)
(* The loop of CryptInternal (aes_encryptor.cc:77-89) is one action per    *)
(* byte, CryptByte; while a call is in progress (remaining > 0) no other   *)
(* operation is enabled, so the call is atomic as in the code.             *)
(***************************************************************************)
EXTENDS AesCommon

CONSTANTS
  KeySizes,   \* key lengths (bytes) a caller may pass to InitializeWithIv
  Ivs,        \* IVs (byte sequences) a caller may pass to SetIv
  CallSizes,  \* plaintext sizes a caller may pass to one Crypt call
  MaxBytes,   \* bound: bytes encrypted under one IV (one sample)
  MaxBlocks   \* bound: counter blocks encrypted since the caller set an IV

ASSUME ConstantsAssumption ==
  /\ KeySizes \subseteq Nat
  /\ Ivs \subseteq Seq(Byte)
  /\ \A v \in Ivs : Len(v) <= AES_BLOCK_SIZE
  /\ CallSizes \subseteq Nat
  /\ MaxBytes \in Nat /\ MaxBytes < 255 * AES_BLOCK_SIZE
  /\ MaxBlocks \in Nat

VARIABLES
  aes_key,           \* 0 before a key is installed, else the key's size
  iv,                \* AesCryptor::iv_ (<<>> until a SetIv succeeds)
  counter,           \* counter_
  encrypted_counter, \* the counter block whose encryption encrypted_counter_ holds
  block_offset,      \* block_offset_
  num_crypt_bytes,   \* AesCryptor::num_crypt_bytes_: bytes crypted under iv_
  remaining,         \* bytes of the Crypt call in progress not yet processed
  stream,            \* keystream positions used since iv_ was last set
  blocks             \* counter blocks encrypted since the caller last set an IV

vars == <<aes_key, iv, counter, encrypted_counter, block_offset,
          num_crypt_bytes, remaining, stream, blocks>>

(***************************************************************************)
(* Helpers translated from the code.                                       *)
(***************************************************************************)

Idle == remaining = 0

(***************************************************************************)
(* Initial state: AesCtrEncryptor() — block_offset_(0), an empty counter_ *)
(* and no IV.                                                              *)
(***************************************************************************)
Init ==
  /\ aes_key = 0
  /\ iv = <<>>
  /\ counter = <<>>
  /\ encrypted_counter = <<>>
  /\ block_offset = 0
  /\ num_crypt_bytes = 0
  /\ remaining = 0
  /\ stream = <<>>
  /\ blocks = <<>>

\* AesCryptor::SetIv + AesCtrEncryptor::SetIvInternal, as a formula on the
\* IV it is given: rejects IVs that are not 8 or 16 bytes long.
SetIvEffect(v) ==
  IF Len(v) \in {8, 16}
  THEN /\ iv' = v
       /\ num_crypt_bytes' = 0
       /\ block_offset' = 0
       /\ counter' = Pad16(v)
       /\ stream' = <<>>
       /\ blocks' = <<>>
       /\ UNCHANGED encrypted_counter
  ELSE UNCHANGED <<iv, num_crypt_bytes, block_offset, counter, stream,
                   blocks, encrypted_counter>>

\* SetIv(iv), called by the user of the encryptor.
SetIv ==
  /\ Idle
  /\ \E v \in Ivs : SetIvEffect(v)
  /\ UNCHANGED <<aes_key, remaining>>

\* AesEncryptor::InitializeWithIv: an invalid key size returns false before
\* anything changes; otherwise the key is installed, then SetIv runs.
InitializeWithIv ==
  /\ Idle
  /\ \E size \in KeySizes, v \in Ivs :
       IF IsKeySizeValidForAes(size)
       THEN /\ aes_key' = size
            /\ SetIvEffect(v)
       ELSE UNCHANGED <<aes_key, iv, num_crypt_bytes, block_offset, counter,
                        stream, blocks, encrypted_counter>>
  /\ UNCHANGED remaining

\* Mutant: every call restarts at a block boundary (block_offset_ = 0).
CryptInternalRestartsBlock ==
  /\ Idle
  /\ iv # <<>>
  /\ \E n \in CallSizes : \E out_size \in {n - 1, n} \cap Nat :
       /\ num_crypt_bytes + n <= MaxBytes
       /\ Len(blocks) + BlocksConsumed(n) <= MaxBlocks
       /\ IF out_size < n
          THEN UNCHANGED <<remaining, num_crypt_bytes, block_offset>>
          ELSE /\ remaining' = n
               /\ num_crypt_bytes' = num_crypt_bytes + n
               /\ block_offset' = 0
  /\ UNCHANGED <<aes_key, iv, counter, encrypted_counter, stream, blocks>>

\* Mutant: a call that fails the size check still counts its bytes, as a
\* base class that adds to num_crypt_bytes_ before CryptInternal would.
CryptInternalCountsFailedCall ==
  /\ Idle
  /\ iv # <<>>
  /\ \E n \in CallSizes : \E out_size \in {n - 1, n} \cap Nat :
       /\ num_crypt_bytes + n <= MaxBytes
       /\ Len(blocks) + BlocksConsumed(n) <= MaxBlocks
       /\ num_crypt_bytes' = num_crypt_bytes + n
       /\ IF out_size < n
          THEN UNCHANGED remaining
          ELSE remaining' = n
  /\ UNCHANGED <<aes_key, iv, counter, encrypted_counter, block_offset,
                 stream, blocks>>

\* Crypt(plaintext, n, ciphertext, &ciphertext_size) entering CryptInternal:
\* an output buffer smaller than n returns false with nothing changed.
\* Crypting before an IV is installed indexes an empty counter_ (undefined
\* behaviour); callers only crypt after a successful initialisation.
CryptInternal ==
  /\ Idle
  /\ iv # <<>>
  /\ \E n \in CallSizes : \E out_size \in {n - 1, n} \cap Nat :
       /\ num_crypt_bytes + n <= MaxBytes
       /\ Len(blocks) + BlocksConsumed(n) <= MaxBlocks
       /\ IF out_size < n
          THEN UNCHANGED <<remaining, num_crypt_bytes>>
          ELSE /\ remaining' = n
               /\ num_crypt_bytes' = num_crypt_bytes + n
  /\ UNCHANGED <<aes_key, iv, counter, encrypted_counter, block_offset,
                 stream, blocks>>

\* Mutant: the counter is not incremented after a block (line 85 dropped).
CryptByteNoIncrement ==
  /\ remaining > 0
  /\ LET fresh == block_offset = 0
         blk == IF fresh THEN counter ELSE encrypted_counter
     IN /\ encrypted_counter' = blk
        /\ counter' = counter
        /\ blocks' = IF fresh THEN Append(blocks, counter) ELSE blocks
        /\ stream' = Append(stream, <<blk, block_offset>>)
  /\ block_offset' = (block_offset + 1) % AES_BLOCK_SIZE
  /\ remaining' = remaining - 1
  /\ UNCHANGED <<aes_key, iv, num_crypt_bytes>>

\* Mutant: block_offset_ is advanced without the modulo.
CryptByteNoWrap ==
  /\ remaining > 0
  /\ LET fresh == block_offset = 0
         blk == IF fresh THEN counter ELSE encrypted_counter
     IN /\ encrypted_counter' = blk
        /\ counter' = IF fresh THEN Increment64(counter) ELSE counter
        /\ blocks' = IF fresh THEN Append(blocks, counter) ELSE blocks
        /\ stream' = Append(stream, <<blk, block_offset>>)
  /\ block_offset' = block_offset + 1
  /\ remaining' = remaining - 1
  /\ UNCHANGED <<aes_key, iv, num_crypt_bytes>>

\* One iteration of the loop in CryptInternal: at a block boundary the
\* counter is encrypted and then incremented; the byte uses the encrypted
\* counter at block_offset_.
CryptByte ==
  /\ remaining > 0
  /\ LET fresh == block_offset = 0
         blk == IF fresh THEN counter ELSE encrypted_counter
     IN /\ encrypted_counter' = blk
        /\ counter' = IF fresh THEN Increment64(counter) ELSE counter
        /\ blocks' = IF fresh THEN Append(blocks, counter) ELSE blocks
        /\ stream' = Append(stream, <<blk, block_offset>>)
  /\ block_offset' = (block_offset + 1) % AES_BLOCK_SIZE
  /\ remaining' = remaining - 1
  /\ UNCHANGED <<aes_key, iv, num_crypt_bytes>>

\* AesCryptor::UpdateIv (spec 4.3): the next sample's IV is the previous
\* one advanced by the number of blocks the previous sample consumed.
UpdateIv ==
  /\ Idle
  /\ iv # <<>>
  /\ iv' = AddToIv(iv, BlocksConsumed(num_crypt_bytes))
  /\ num_crypt_bytes' = 0
  /\ block_offset' = 0
  /\ counter' = Pad16(iv')
  /\ stream' = <<>>
  /\ UNCHANGED <<aes_key, encrypted_counter, remaining, blocks>>

Next ==
  \/ InitializeWithIv
  \/ SetIv
  \/ CryptInternal
  \/ CryptByte
  \/ UpdateIv

Spec == Init /\ [][Next]_vars

(***************************************************************************)
(* Properties.                                                             *)
(***************************************************************************)

\* Type invariant: counters are 16-byte blocks and block_offset_ stays
\* inside a block (the modulo at aes_encryptor.cc:88).
TypeOK ==
  /\ aes_key \in {0, 16, 24, 32}
  /\ iv \in {<<>>} \cup [1..8 -> Byte] \cup Block
  /\ counter \in {<<>>} \cup Block
  /\ encrypted_counter \in {<<>>} \cup Block
  /\ block_offset \in 0..(AES_BLOCK_SIZE - 1)
  /\ num_crypt_bytes \in Nat
  /\ remaining \in Nat
  /\ stream \in Seq(Block \X (0..(AES_BLOCK_SIZE - 1)))
  /\ blocks \in Seq(Block)

\* The bytes encrypted under one IV, over any number of Crypt calls (one
\* per subsample), use exactly the keystream one call over their
\* concatenation would: it starts at <<iv, 0>> and every byte takes the
\* next position.  This is what lets a decryptor treat the cipher bytes of
\* all subsamples as one stream (decrypt_config.h:19-27); it depends on
\* block_offset_ and encrypted_counter_ carrying over between calls.
CipherBytesFormOneStream ==
  /\ stream # <<>> => stream[1] = <<Pad16(iv), 0>>
  /\ \A k \in 1..(Len(stream) - 1) : stream[k + 1] = NextPosition(stream[k])

\* Within one sample the counter only moves in its low 8 bytes: every
\* keystream block carries the IV's first 8 bytes (Increment64 wraps
\* without carrying into byte 7; ISO/IEC 23001-7).
IvPrefixStable ==
  \A k \in 1..Len(stream) :
    \A j \in 1..8 : stream[k][1][j] = Pad16(iv)[j]

\* No counter block is encrypted twice between two IVs set by the caller:
\* the IV UpdateIv derives for the next sample starts past every block
\* the previous samples used, so no keystream is reused.
NoKeystreamReuse ==
  \A i, j \in 1..Len(blocks) : i < j => blocks[i] # blocks[j]


\* The abstract keystream contract of CtrKeystream under iv_ and the
\* positions used: every step of the encryptor (key and IV installs,
\* failed and successful Crypt calls, each byte of the loop, UpdateIv) is
\* a step of the contract or leaves it unchanged.  In particular UpdateIv
\* advances the IV by exactly the blocks of the bytes really encrypted
\* under it, which num_crypt_bytes_ must count (not the failed calls).
Keystream == INSTANCE CtrKeystream WITH key_iv <- iv, keystream <- stream

KeystreamSpec == Keystream!Spec

=============================================================================

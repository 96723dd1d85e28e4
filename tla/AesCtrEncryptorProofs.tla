------------------------ MODULE AesCtrEncryptorProofs ------------------------
(***************************************************************************)
(* Proofs about AesCtrEncryptor, for every value of the constants.        *)
(*                                                                         *)
(* CipherBytesFormOneStream is not inductive by itself: a CryptByte step   *)
(* extends the stream with the block held in encrypted_counter_ or in      *)
(* counter_, so the invariant must say how those relate to the last        *)
(* position of the stream.  IInv adds exactly that link.                   *)
(***************************************************************************)
EXTENDS AesCtrEncryptor, CtrCounterArith

Offset == 0..(AES_BLOCK_SIZE - 1)

\* How the encryptor's state continues the stream recorded so far.
StreamLink ==
  /\ remaining > 0 => iv # <<>>
  /\ stream = <<>> => block_offset = 0
  /\ iv # <<>> /\ stream = <<>> => counter = Pad16(iv)
  /\ stream # <<>> =>
       /\ iv # <<>>
       /\ encrypted_counter = stream[Len(stream)][1]
       /\ counter = Increment64(encrypted_counter)
       /\ block_offset = (stream[Len(stream)][2] + 1) % AES_BLOCK_SIZE

IInv == TypeOK /\ StreamLink /\ CipherBytesFormOneStream

(***************************************************************************)
(* The IVs of the constants.                                               *)
(***************************************************************************)

LEMMA IvType ==
  ASSUME NEW v \in Ivs, Len(v) \in {8, 16}
  PROVE  v \in [1..8 -> Byte] \cup Block
<1>1. v \in [1..Len(v) -> Byte]
  BY ConstantsAssumption, LenProperties, Zenon
<1>2. CASE Len(v) = 8
  BY <1>1, <1>2
<1>3. CASE Len(v) = 16
  BY <1>1, <1>3 DEF Block, AES_BLOCK_SIZE
<1>. QED BY <1>2, <1>3

(***************************************************************************)
(* The inductive invariant.                                                *)
(***************************************************************************)

LEMMA InitIInv == Init => IInv
<1>. SUFFICES ASSUME Init PROVE IInv
  OBVIOUS
<1>1. TypeOK
  <2>1. <<>> \in Seq(Block \X Offset) /\ <<>> \in Seq(Block)
    BY EmptySeq
  <2>. QED BY <2>1 DEF Init, TypeOK, Offset, AES_BLOCK_SIZE
<1>2. StreamLink
  BY DEF Init, StreamLink
<1>3. CipherBytesFormOneStream
  BY DEF Init, CipherBytesFormOneStream
<1>. QED BY <1>1, <1>2, <1>3 DEF IInv

\* SetIvEffect(v) leaves the stream empty and the counter at the new IV.
LEMMA SetIvEffectIInv ==
  ASSUME IInv, NEW v \in Ivs, SetIvEffect(v),
         aes_key' \in {0, 16, 24, 32}, remaining' = remaining, remaining = 0
  PROVE  IInv'
<1>1. CASE Len(v) \in {8, 16}
  <2>1. v \in [1..8 -> Byte] \cup Block /\ Pad16(v) \in Block
    BY <1>1, IvType, Pad16Type
  <2>. QED BY <1>1, <2>1
         DEF SetIvEffect, IInv, TypeOK, StreamLink, CipherBytesFormOneStream
<1>2. CASE Len(v) \notin {8, 16}
  BY <1>2 DEF SetIvEffect, IInv, TypeOK, StreamLink, CipherBytesFormOneStream
<1>. QED BY <1>1, <1>2

LEMMA SetIvIInv == IInv /\ SetIv => IInv'
<1>. SUFFICES ASSUME IInv, SetIv PROVE IInv'
  OBVIOUS
<1>1. PICK v \in Ivs : SetIvEffect(v)
  BY DEF SetIv
<1>. QED BY <1>1, SetIvEffectIInv DEF SetIv, Idle, IInv, TypeOK

LEMMA InitializeWithIvIInv == IInv /\ InitializeWithIv => IInv'
<1>. SUFFICES ASSUME IInv, InitializeWithIv PROVE IInv'
  OBVIOUS
<1>1. PICK size \in KeySizes, v \in Ivs :
        IF IsKeySizeValidForAes(size)
        THEN aes_key' = size /\ SetIvEffect(v)
        ELSE UNCHANGED <<aes_key, iv, num_crypt_bytes, block_offset, counter,
                         stream, blocks, encrypted_counter>>
  BY DEF InitializeWithIv
<1>2. CASE IsKeySizeValidForAes(size)
  BY <1>1, <1>2, SetIvEffectIInv
     DEF InitializeWithIv, IsKeySizeValidForAes, Idle
<1>3. CASE ~IsKeySizeValidForAes(size)
  BY <1>1, <1>3
     DEF InitializeWithIv, IInv, TypeOK, StreamLink, CipherBytesFormOneStream
<1>. QED BY <1>2, <1>3

LEMMA CryptInternalIInv == IInv /\ CryptInternal => IInv'
<1>. SUFFICES ASSUME IInv, CryptInternal PROVE IInv'
  OBVIOUS
<1>1. PICK n \in CallSizes : \E out_size \in {n - 1, n} \cap Nat :
        IF out_size < n
        THEN UNCHANGED <<remaining, num_crypt_bytes>>
        ELSE remaining' = n /\ num_crypt_bytes' = num_crypt_bytes + n
  BY DEF CryptInternal
<1>2. n \in Nat
  BY ConstantsAssumption
<1>3. remaining' \in Nat /\ num_crypt_bytes' \in Nat
  BY <1>1, <1>2 DEF IInv, TypeOK
<1>4. UNCHANGED <<aes_key, iv, counter, encrypted_counter, block_offset,
                  stream, blocks>>
  BY DEF CryptInternal
<1>5. iv' # <<>>
  BY <1>4 DEF CryptInternal
<1>. QED BY <1>3, <1>4, <1>5
       DEF IInv, TypeOK, StreamLink, CipherBytesFormOneStream

\* The position a CryptByte step uses is the one after the last position of
\* the stream, or <<iv, 0>> when the stream is empty: after offset 15 the
\* counter (already incremented) starts a new block; otherwise the same
\* block is used at the next offset.
LEMMA CryptBytePosition ==
  ASSUME IInv, CryptByte
  PROVE  LET blk == IF block_offset = 0 THEN counter ELSE encrypted_counter
             pos == <<blk, block_offset>>
         IN  /\ stream # <<>> => pos = NextPosition(stream[Len(stream)])
             /\ stream = <<>> => pos = <<Pad16(iv), 0>>
<1>. DEFINE fresh == block_offset = 0
            blk == IF fresh THEN counter ELSE encrypted_counter
            pos == <<blk, block_offset>>
            last == stream[Len(stream)]
<1>0. TypeOK /\ StreamLink
  BY DEF IInv
<1>1. iv # <<>>
  BY <1>0 DEF CryptByte, StreamLink
<1>2. stream \in Seq(Block \X Offset)
  BY <1>0 DEF TypeOK, Offset
<1>3. stream # <<>> => pos = NextPosition(last)
  <2>. SUFFICES ASSUME stream # <<>> PROVE pos = NextPosition(last)
    OBVIOUS
  <2>1. last \in Block \X Offset
    BY <1>2, LastOfSeq, Zenon
  <2>2. /\ encrypted_counter = last[1]
        /\ counter = Increment64(encrypted_counter)
        /\ block_offset = (last[2] + 1) % AES_BLOCK_SIZE
    BY <1>0 DEF StreamLink
  <2>3. CASE last[2] = AES_BLOCK_SIZE - 1
    <3>1. fresh
      BY <2>1, <2>2, <2>3 DEF AES_BLOCK_SIZE, Offset
    <3>. QED BY <2>2, <2>3, <3>1 DEF NextPosition
  <2>4. CASE last[2] # AES_BLOCK_SIZE - 1
    <3>1. ~fresh /\ block_offset = last[2] + 1
      BY <2>1, <2>2, <2>4 DEF AES_BLOCK_SIZE, Offset
    <3>. QED BY <2>2, <2>4, <3>1 DEF NextPosition
  <2>. QED BY <2>3, <2>4
<1>4. stream = <<>> => pos = <<Pad16(iv), 0>>
  BY <1>0, <1>1 DEF StreamLink
<1>. QED BY <1>3, <1>4

LEMMA CryptByteIInv == IInv /\ CryptByte => IInv'
<1>. SUFFICES ASSUME IInv, CryptByte PROVE IInv'
  OBVIOUS
<1>. DEFINE fresh == block_offset = 0
            blk == IF fresh THEN counter ELSE encrypted_counter
            pos == <<blk, block_offset>>
            last == stream[Len(stream)]
<1>0. TypeOK /\ StreamLink /\ CipherBytesFormOneStream
  BY DEF IInv
<1>1. /\ remaining > 0
      /\ stream' = Append(stream, pos)
      /\ encrypted_counter' = blk
      /\ counter' = IF fresh THEN Increment64(counter) ELSE counter
      /\ blocks' = IF fresh THEN Append(blocks, counter) ELSE blocks
      /\ block_offset' = (block_offset + 1) % AES_BLOCK_SIZE
      /\ remaining' = remaining - 1
      /\ UNCHANGED <<aes_key, iv, num_crypt_bytes>>
  BY Zenon DEF CryptByte
<1>2. iv # <<>>
  BY <1>0, <1>1 DEF StreamLink
<1>3. stream \in Seq(Block \X Offset) /\ block_offset \in Offset
  BY <1>0 DEF TypeOK, Offset
\* While the stream is non-empty, encrypted_counter_ is its last block.
<1>4. stream # <<>> =>
        /\ last \in Block \X Offset
        /\ encrypted_counter = last[1]
        /\ encrypted_counter \in Block
        /\ counter = Increment64(encrypted_counter)
        /\ block_offset = (last[2] + 1) % AES_BLOCK_SIZE
  <2>. SUFFICES ASSUME stream # <<>> PROVE last \in Block \X Offset
                /\ encrypted_counter = last[1] /\ encrypted_counter \in Block
                /\ counter = Increment64(encrypted_counter)
                /\ block_offset = (last[2] + 1) % AES_BLOCK_SIZE
    OBVIOUS
  <2>1. last \in Block \X Offset
    BY <1>3, LastOfSeq, Zenon
  <2>2. encrypted_counter = last[1] /\ counter = Increment64(encrypted_counter)
        /\ block_offset = (last[2] + 1) % AES_BLOCK_SIZE
    BY <1>0 DEF StreamLink
  <2>. QED BY <2>1, <2>2
<1>5. counter \in Block
  <2>1. CASE stream = <<>>
    <3>1. counter = Pad16(iv)
      BY <1>0, <1>2, <2>1 DEF StreamLink
    <3>2. iv \in [1..8 -> Byte] \cup Block
      BY <1>0, <1>2 DEF TypeOK
    <3>. QED BY <3>1, <3>2, Pad16Type
  <2>2. CASE stream # <<>>
    BY <1>4, <2>2, Increment64Type
  <2>. QED BY <2>1, <2>2
<1>6. blk \in Block
  <2>1. CASE fresh
    BY <1>5, <2>1
  <2>2. CASE ~fresh
    \* a mid-block offset implies a non-empty stream
    <3>1. stream # <<>>
      BY <1>0, <2>2 DEF StreamLink
    <3>. QED BY <1>4, <2>2, <3>1
  <2>. QED BY <2>1, <2>2
<1>7. pos \in Block \X Offset
  BY <1>3, <1>6
<1>8. /\ stream' \in Seq(Block \X Offset)
      /\ stream' # <<>>
      /\ Len(stream') = Len(stream) + 1
      /\ \A i \in 1..Len(stream) : stream'[i] = stream[i]
      /\ stream'[Len(stream) + 1] = pos
  <2>. HIDE DEF pos
  <2>1. /\ Append(stream, pos) \in Seq(Block \X Offset)
        /\ Append(stream, pos) # <<>>
        /\ Len(Append(stream, pos)) = Len(stream) + 1
        /\ \A i \in 1..Len(stream) : Append(stream, pos)[i] = stream[i]
        /\ Append(stream, pos)[Len(stream) + 1] = pos
    BY <1>3, <1>7, AppendProperties
  <2>. QED BY <1>1, <2>1
<1>9. counter' = Increment64(blk)
  <2>1. CASE fresh
    BY <1>1, <2>1
  <2>2. CASE ~fresh
    <3>1. stream # <<>>
      BY <1>0, <2>2 DEF StreamLink
    <3>. QED BY <1>1, <1>4, <2>2, <3>1
  <2>. QED BY <2>1, <2>2
<1>10. TypeOK'
  <2>1. counter' \in Block
    BY <1>6, <1>9, Increment64Type
  <2>2. blocks' \in Seq(Block)
    BY <1>0, <1>1, <1>5, AppendProperties, Zenon DEF TypeOK
  <2>3. block_offset' \in 0..(AES_BLOCK_SIZE - 1)
    BY <1>1, <1>3 DEF Offset, AES_BLOCK_SIZE
  <2>4. remaining' \in Nat
    BY <1>0, <1>1 DEF TypeOK
  <2>. QED BY <1>0, <1>1, <1>6, <1>8, <2>1, <2>2, <2>3, <2>4
         DEF TypeOK, Offset
<1>11. StreamLink'
  <2>1. stream'[Len(stream')] = pos
    BY <1>8
  <2>. QED BY <1>1, <1>2, <1>8, <1>9, <2>1 DEF StreamLink
<1>12. stream # <<>> => pos = NextPosition(last)
  BY CryptBytePosition
<1>13. stream = <<>> => pos = <<Pad16(iv), 0>>
  BY CryptBytePosition
<1>14. CipherBytesFormOneStream'
  <2>1. stream'[1] = <<Pad16(iv'), 0>>
    <3>1. CASE stream = <<>>
      <4>1. Len(stream) = 0
        BY <3>1
      <4>. QED BY <1>1, <1>8, <1>13, <3>1, <4>1
    <3>2. CASE stream # <<>>
      <4>1. Len(stream) \in Nat /\ Len(stream) >= 1
        BY <1>3, <3>2, EmptySeq, LenProperties
      <4>. QED BY <1>0, <1>1, <1>8, <3>2, <4>1 DEF CipherBytesFormOneStream
    <3>. QED BY <3>1, <3>2
  <2>2. \A k \in 1..(Len(stream') - 1) :
          stream'[k + 1] = NextPosition(stream'[k])
    <3>. TAKE k \in 1..(Len(stream') - 1)
    <3>1. Len(stream) \in Nat /\ k \in 1..Len(stream)
      BY <1>3, <1>8, LenProperties
    <3>2. CASE k < Len(stream)
      BY <1>0, <1>8, <3>1, <3>2 DEF CipherBytesFormOneStream
    <3>3. CASE k = Len(stream)
      BY <1>8, <1>12, <3>1, <3>3
    <3>. QED BY <3>1, <3>2, <3>3
  <2>. QED BY <2>1, <2>2 DEF CipherBytesFormOneStream
<1>. QED BY <1>10, <1>11, <1>14 DEF IInv

LEMMA UpdateIvIInv == IInv /\ UpdateIv => IInv'
<1>. SUFFICES ASSUME IInv, UpdateIv PROVE IInv'
  OBVIOUS
<1>1. iv \in [1..8 -> Byte] \cup Block
  BY DEF UpdateIv, IInv, TypeOK
<1>2. BlocksConsumed(num_crypt_bytes) \in Nat
  BY DEF IInv, TypeOK, BlocksConsumed, AES_BLOCK_SIZE
<1>3. iv' \in [1..8 -> Byte] \cup Block
  BY <1>1, <1>2, AddToIvType DEF UpdateIv, Block, AES_BLOCK_SIZE
<1>4. Pad16(iv') \in Block
  BY <1>3, Pad16Type
<1>. QED BY <1>3, <1>4
       DEF UpdateIv, Idle, IInv, TypeOK, StreamLink, CipherBytesFormOneStream

LEMMA NextIInv == IInv /\ [Next]_vars => IInv'
<1>. SUFFICES ASSUME IInv, [Next]_vars PROVE IInv'
  OBVIOUS
<1>1. CASE InitializeWithIv  BY <1>1, InitializeWithIvIInv
<1>2. CASE SetIv             BY <1>2, SetIvIInv
<1>3. CASE CryptInternal     BY <1>3, CryptInternalIInv
<1>4. CASE CryptByte         BY <1>4, CryptByteIInv
<1>5. CASE UpdateIv          BY <1>5, UpdateIvIInv
<1>6. CASE UNCHANGED vars
  BY <1>6 DEF vars, IInv, TypeOK, StreamLink, CipherBytesFormOneStream
<1>. QED BY <1>1, <1>2, <1>3, <1>4, <1>5, <1>6 DEF Next

(***************************************************************************)
(* Theorems.                                                               *)
(***************************************************************************)

\* Every reachable state of the encryptor is well typed.
THEOREM TypeCorrect == Spec => []TypeOK
<1>1. IInv => TypeOK
  BY DEF IInv
<1>. QED BY <1>1, InitIInv, NextIInv, PTL DEF Spec

\* However a sample's bytes are split into Crypt calls (subsamples), the
\* keystream they use is the one a single call would use, from <<iv, 0>>
\* on: AesCtrEncryptor carries block_offset_ and the encrypted counter
\* over between calls correctly, for every IV and every call size.
THEOREM OneStream == Spec => []CipherBytesFormOneStream
<1>1. IInv => CipherBytesFormOneStream
  BY DEF IInv
<1>. QED BY <1>1, InitIInv, NextIInv, PTL DEF Spec


(***************************************************************************)
(* The IV half of the counter block (spec 8.8).                            *)
(***************************************************************************)

\* A CryptByte step appends a position whose block starts with the IV.
LEMMA CryptByteIvPrefix ==
  ASSUME IInv, IvPrefixStable, CryptByte
  PROVE  IvPrefixStable'
<1>. DEFINE blk == IF block_offset = 0 THEN counter ELSE encrypted_counter
            pos == <<blk, block_offset>>
            last == stream[Len(stream)]
<1>1. stream' = Append(stream, pos) /\ iv' = iv
  BY Zenon DEF CryptByte
<1>2. stream \in Seq(Block \X Offset)
  BY DEF IInv, TypeOK, Offset
<1>3. \A j \in 1..8 : pos[1][j] = Pad16(iv)[j]
  <2>1. CASE stream = <<>>
    BY <2>1, CryptBytePosition
  <2>2. CASE stream # <<>>
    <3>1. Len(stream) \in 1..Len(stream) /\ last \in Block \X Offset
      BY <1>2, <2>2, LastOfSeq, EmptySeq, LenProperties
    <3>2. \A j \in 1..8 : last[1][j] = Pad16(iv)[j]
      BY <3>1 DEF IvPrefixStable
    <3>3. pos = NextPosition(last)
      BY <2>2, CryptBytePosition
    <3>4. \A j \in 1..8 : Increment64(last[1])[j] = last[1][j]
      BY <3>1, Increment64Prefix
    <3>. QED BY <3>2, <3>3, <3>4 DEF NextPosition
  <2>. QED BY <2>1, <2>2
<1>4. /\ Len(stream') = Len(stream) + 1
      /\ \A k \in 1..Len(stream) : stream'[k] = stream[k]
      /\ stream'[Len(stream) + 1] = pos
  <2>. HIDE DEF pos
  <2>1. pos \in Block \X Offset
    BY <1>1, CryptByteIInv DEF IInv, TypeOK, Offset
  <2>. QED BY <1>1, <1>2, <2>1, AppendProperties
<1>. QED BY <1>1, <1>3, <1>4, <1>2, LenProperties DEF IvPrefixStable

LEMMA NextIvPrefix == IInv /\ IvPrefixStable /\ [Next]_vars => IvPrefixStable'
<1>. SUFFICES ASSUME IInv, IvPrefixStable, [Next]_vars PROVE IvPrefixStable'
  OBVIOUS
<1>1. CASE InitializeWithIv
  BY <1>1 DEF InitializeWithIv, SetIvEffect, IvPrefixStable
<1>2. CASE SetIv
  BY <1>2 DEF SetIv, SetIvEffect, IvPrefixStable
<1>3. CASE CryptInternal
  BY <1>3 DEF CryptInternal, IvPrefixStable
<1>4. CASE CryptByte
  BY <1>4, CryptByteIvPrefix
<1>5. CASE UpdateIv
  BY <1>5 DEF UpdateIv, IvPrefixStable
<1>6. CASE UNCHANGED vars
  BY <1>6 DEF vars, IvPrefixStable
<1>. QED BY <1>1, <1>2, <1>3, <1>4, <1>5, <1>6 DEF Next

\* Within one sample every keystream block the encryptor uses carries the
\* IV's bytes 0-7: Increment64 (aes_encryptor.cc:15-23) never carries into
\* the IV half, for every IV, call size and counter value (spec 8.8).
THEOREM IvPrefix == Spec => []IvPrefixStable
<1>1. Init => IInv /\ IvPrefixStable
  BY InitIInv DEF Init, IvPrefixStable
<1>2. IInv /\ IvPrefixStable /\ [Next]_vars => IInv' /\ IvPrefixStable'
  BY NextIInv, NextIvPrefix
<1>. QED BY <1>1, <1>2, PTL DEF Spec

=============================================================================

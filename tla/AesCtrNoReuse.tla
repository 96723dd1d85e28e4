---------------------------- MODULE AesCtrNoReuse ----------------------------
(***************************************************************************)
(* Proof that AesCtrEncryptor never encrypts the same counter block twice  *)
(* between two IVs set by the caller (NoKeystreamReuse), for every value   *)
(* of the constants with MaxBlocks <= 2^64.                                *)
(*                                                                         *)
(* The argument reads the counter block as numbers.  W(c, s) is the       *)
(* big-endian value of the 8 bytes c[s..s+7]; Increment64 adds 1 to the    *)
(* low half W(c, 9) modulo 2^64, and AddToIv adds m to the last 8 bytes of *)
(* the IV modulo 2^64.  With an 8-byte IV, UpdateIv advances the IV half   *)
(* of the counter by the blocks of the sample while the low half restarts  *)
(* at 0; with a 16-byte IV it advances the whole block.  Either way the    *)
(* quantity IndexOf(c, Len(iv)) (high + low half for 8-byte IVs, the low *)
(* half for 16-byte ones) grows by exactly one, modulo 2^64, from each     *)
(* block the encryptor encrypts to the next, across UpdateIv included; so  *)
(* up to 2^64 of them are pairwise distinct.  The inductive invariant      *)
(* NInv adds to RInv: BlockCount (the blocks, with those the call in       *)
(* progress will take, stay within MaxBlocks), CounterLink (counter_ is    *)
(* the padded IV plus the blocks of the stream) and Consecutive.           *)
(*                                                                         *)
(* W, IndexOf and the lemmas on them are in CtrCounterArith.              *)
(***************************************************************************)
EXTENDS AesCtrRefinement

(***************************************************************************)
(* The inductive invariant.                                                *)
(***************************************************************************)

\* Fresh blocks the remaining r bytes of a call will encrypt, starting at
\* block offset o: a new counter block at every offset 0.
BlocksAhead(o, r) ==
  (o + r + AES_BLOCK_SIZE - 1) \div AES_BLOCK_SIZE
    - (o + AES_BLOCK_SIZE - 1) \div AES_BLOCK_SIZE

\* block_offset_ is the stream's length modulo a block, and the blocks
\* encrypted so far plus those the call in progress will encrypt stay
\* within the bound the calls were admitted under.
BlockCount ==
  /\ block_offset = Len(stream) % AES_BLOCK_SIZE
  /\ num_crypt_bytes <= MaxBytes
  /\ Len(blocks) + BlocksAhead(block_offset, remaining) <= MaxBlocks

\* counter_ is the padded IV advanced by one per block of the stream, in
\* its low half only.
CounterLink ==
  iv # <<>> =>
    /\ counter \in Block
    /\ High(counter) = High(Pad16(iv))
    /\ Low(counter) = (Low(Pad16(iv)) + BlocksConsumed(Len(stream))) % Two64

\* The blocks encrypted since the caller's IV stand at consecutive places,
\* and counter_ at the place after the last of them.
Consecutive ==
  blocks # <<>> =>
    /\ iv # <<>>
    /\ \A i \in 1..Len(blocks) :
         IndexOf(blocks[i], Len(iv))
           = (IndexOf(blocks[1], Len(iv)) + i - 1) % Two64
    /\ IndexOf(counter, Len(iv))
         = (IndexOf(blocks[1], Len(iv)) + Len(blocks)) % Two64

NInv == RInv /\ BlockCount /\ CounterLink /\ Consecutive

\* A set IV is 8 or 16 bytes long.
LEMMA IvShape ==
  ASSUME IInv, iv # <<>>
  PROVE  \/ iv \in [1..8 -> Byte] /\ Len(iv) = 8
         \/ iv \in Block /\ Len(iv) = 16
<1>1. iv \in [1..8 -> Byte] \cup Block
  BY DEF IInv, TypeOK
<1>2. CASE iv \in [1..8 -> Byte]
  BY <1>2, IvLen8
<1>3. CASE iv \in Block
  <2>1. iv \in [1..16 -> Byte]
    BY <1>3 DEF Block, AES_BLOCK_SIZE
  <2>2. Len(iv) = 16
    BY <1>3, BlockLen
  <2>. QED BY <1>3, <2>2
<1>. QED BY <1>1, <1>2, <1>3

LEMMA InitNInv == Init => NInv
<1>. SUFFICES ASSUME Init PROVE NInv
  OBVIOUS
<1>1. RInv
  BY InitRInv
<1>2. BlockCount
  BY ConstantsAssumption DEF Init, BlockCount, BlocksAhead, AES_BLOCK_SIZE
<1>. QED BY <1>1, <1>2 DEF Init, NInv, CounterLink, Consecutive

\* A new IV from the caller: the counter is the padded IV, no block yet.
LEMMA SetIvEffectNInv ==
  ASSUME NInv, NEW v \in Ivs, SetIvEffect(v), remaining' = remaining,
         remaining = 0
  PROVE  (BlockCount /\ CounterLink /\ Consecutive)'
<1>1. CASE Len(v) \in {8, 16}
  <2>1. v \in [1..8 -> Byte] \cup Block /\ Pad16(v) \in Block
    BY <1>1, IvType, Pad16Type
  <2>2. Low(Pad16(v)) \in 0..(Two64 - 1)
    BY <2>1, HalvesBound
  <2>3. BlockCount'
    BY <1>1, ConstantsAssumption
       DEF SetIvEffect, BlockCount, BlocksAhead, AES_BLOCK_SIZE
  <2>4. CounterLink'
    BY <1>1, <2>1, <2>2 DEF SetIvEffect, CounterLink, BlocksConsumed,
                            AES_BLOCK_SIZE, Two64
  <2>. QED BY <1>1, <2>3, <2>4 DEF SetIvEffect, Consecutive
<1>2. CASE Len(v) \notin {8, 16}
  BY <1>2 DEF SetIvEffect, NInv, BlockCount, CounterLink, Consecutive
<1>. QED BY <1>1, <1>2

LEMMA SetIvNInv == NInv /\ SetIv => NInv'
<1>. SUFFICES ASSUME NInv, SetIv PROVE NInv'
  OBVIOUS
<1>1. PICK v \in Ivs : SetIvEffect(v)
  BY DEF SetIv
<1>2. RInv'
  BY NextRInv DEF NInv, Next
<1>. QED BY <1>1, <1>2, SetIvEffectNInv DEF SetIv, Idle, NInv

LEMMA InitializeWithIvNInv == NInv /\ InitializeWithIv => NInv'
<1>. SUFFICES ASSUME NInv, InitializeWithIv PROVE NInv'
  OBVIOUS
<1>1. PICK size \in KeySizes, v \in Ivs :
        IF IsKeySizeValidForAes(size)
        THEN aes_key' = size /\ SetIvEffect(v)
        ELSE UNCHANGED <<aes_key, iv, num_crypt_bytes, block_offset, counter,
                         stream, blocks, encrypted_counter>>
  BY DEF InitializeWithIv
<1>2. RInv'
  BY NextRInv DEF NInv, Next
<1>3. CASE IsKeySizeValidForAes(size)
  BY <1>1, <1>2, <1>3, SetIvEffectNInv DEF InitializeWithIv, Idle, NInv
<1>4. CASE ~IsKeySizeValidForAes(size)
  BY <1>1, <1>2, <1>4
     DEF InitializeWithIv, NInv, BlockCount, CounterLink, Consecutive
<1>. QED BY <1>3, <1>4

\* A call admitted by the bounds: its blocks fit in what is left of
\* MaxBlocks, however far into a block it starts.
LEMMA CryptInternalNInv == NInv /\ CryptInternal => NInv'
<1>. SUFFICES ASSUME NInv, CryptInternal PROVE NInv'
  OBVIOUS
<1>1. RInv'
  BY NextRInv DEF NInv, Next
<1>2. PICK n \in CallSizes : \E out_size \in {n - 1, n} \cap Nat :
        /\ num_crypt_bytes + n <= MaxBytes
        /\ Len(blocks) + BlocksConsumed(n) <= MaxBlocks
        /\ IF out_size < n
           THEN UNCHANGED <<remaining, num_crypt_bytes>>
           ELSE remaining' = n /\ num_crypt_bytes' = num_crypt_bytes + n
  BY DEF CryptInternal
<1>3. /\ n \in Nat /\ remaining = 0
      /\ block_offset \in 0..(AES_BLOCK_SIZE - 1)
      /\ Len(blocks) \in Nat /\ num_crypt_bytes \in Nat
  BY ConstantsAssumption, LenProperties DEF CryptInternal, Idle, NInv, RInv,
                                            IInv, TypeOK
<1>4. BlocksAhead(block_offset, n) <= BlocksConsumed(n)
  BY <1>3 DEF BlocksAhead, BlocksConsumed, AES_BLOCK_SIZE
<1>5. PICK out_size \in {n - 1, n} \cap Nat :
        /\ num_crypt_bytes + n <= MaxBytes
        /\ Len(blocks) + BlocksConsumed(n) <= MaxBlocks
        /\ IF out_size < n
           THEN UNCHANGED <<remaining, num_crypt_bytes>>
           ELSE remaining' = n /\ num_crypt_bytes' = num_crypt_bytes + n
  BY <1>2
<1>6. UNCHANGED <<stream, blocks, block_offset>>
  BY DEF CryptInternal
<1>7. BlockCount
  BY DEF NInv, BlockCount
<1>8. BlockCount'
  <2>1. CASE out_size < n
    BY <1>5, <1>6, <1>7, <2>1 DEF BlockCount
  <2>2. CASE ~(out_size < n)
    <3>1. Len(blocks) + BlocksAhead(block_offset, n) <= MaxBlocks
      BY <1>3, <1>4, <1>5, ConstantsAssumption
         DEF BlocksAhead, BlocksConsumed, AES_BLOCK_SIZE
    <3>. QED BY <1>5, <1>6, <1>7, <2>2, <3>1 DEF BlockCount
  <2>. QED BY <2>1, <2>2
<1>. QED BY <1>1, <1>8 DEF CryptInternal, NInv, CounterLink, Consecutive

\* One byte of the loop: a fresh counter block is taken at offset 0 only.
LEMMA BlocksAheadStep ==
  ASSUME NEW o \in 0..(AES_BLOCK_SIZE - 1), NEW r \in Nat, r > 0
  PROVE  BlocksAhead((o + 1) % AES_BLOCK_SIZE, r - 1)
           + (IF o = 0 THEN 1 ELSE 0) = BlocksAhead(o, r)
BY DEF BlocksAhead, AES_BLOCK_SIZE

\* A sample spans fewer than 256 blocks (MaxBytes < 255 * 16), so UpdateIv
\* adds less than 256 to the IV.
LEMMA SampleBlocks ==
  ASSUME NEW x \in Nat, x <= MaxBytes
  PROVE  BlocksConsumed(x) \in 0..255
<1>1. MaxBytes \in Nat /\ MaxBytes < 255 * 16
  BY ConstantsAssumption DEF AES_BLOCK_SIZE
<1>. QED BY <1>1 DEF BlocksConsumed, AES_BLOCK_SIZE

\* UpdateIv: the next sample's counter starts where this one's stopped.
LEMMA UpdateIvIndex ==
  ASSUME NInv, UpdateIv
  PROVE  /\ iv \in [1..8 -> Byte] \cup Block
         /\ iv' \in [1..8 -> Byte] \cup Block
         /\ Len(iv') = Len(iv)
         /\ Pad16(iv') \in Block
         /\ IndexOf(counter', Len(iv')) = IndexOf(counter, Len(iv))
<1>. DEFINE b == BlocksConsumed(num_crypt_bytes)
<1>2. IInv /\ iv # <<>> /\ remaining = 0
  BY DEF NInv, RInv, UpdateIv, Idle
<1>3. /\ num_crypt_bytes = Len(stream)
      /\ num_crypt_bytes <= MaxBytes
      /\ Len(stream) \in Nat
  BY <1>2, LenProperties DEF NInv, RInv, Acct, BlockCount, IInv, TypeOK
<1>4. b \in 0..255
  BY <1>3, SampleBlocks
<1>5. iv \in [1..8 -> Byte] \cup Block
  BY <1>2, IvShape
<1>6. /\ iv' \in [1..8 -> Byte] \cup Block
      /\ Len(iv') = Len(iv)
      /\ Pad16(iv') \in Block
  <2>1. iv' = AddToIv(iv, b)
    BY DEF UpdateIv
  <2>2. iv' \in [1..8 -> Byte] \cup Block /\ Len(iv') = Len(iv)
    <3>1. b \in Nat
      BY <1>4
    <3>. QED BY <1>5, <2>1, <3>1, AddToIvLen
  <2>. QED BY <2>2, Pad16Type
<1>7. /\ counter \in Block
      /\ High(counter) = High(Pad16(iv))
      /\ Low(counter) = (Low(Pad16(iv)) + b) % Two64
  BY <1>2, <1>3 DEF NInv, CounterLink
<1>8. IndexOf(counter', Len(iv')) = IndexOf(counter, Len(iv))
  <2>1. IndexOf(Pad16(AddToIv(iv, b)), Len(iv)) = IndexOf(counter, Len(iv))
    BY <1>4, <1>5, <1>7, NextIvIndex, Zenon
  <2>2. counter' = Pad16(AddToIv(iv, b)) /\ iv' = AddToIv(iv, b)
    BY DEF UpdateIv
  <2>. QED BY <1>6, <2>1, <2>2
<1>. QED BY <1>5, <1>6, <1>8

LEMMA UpdateIvNInv == NInv /\ UpdateIv => NInv'
<1>. SUFFICES ASSUME NInv, UpdateIv PROVE NInv'
  OBVIOUS
<1>1. RInv'
  BY NextRInv DEF NInv, Next
<1>2. IInv /\ iv # <<>> /\ remaining = 0
  BY DEF NInv, RInv, UpdateIv, Idle
<1>3. iv \in [1..8 -> Byte] \cup Block
  BY UpdateIvIndex
<1>4. /\ iv' \in [1..8 -> Byte] \cup Block
      /\ Len(iv') = Len(iv)
      /\ Pad16(iv') \in Block
  BY UpdateIvIndex
<1>5. IndexOf(counter', Len(iv')) = IndexOf(counter, Len(iv))
  BY UpdateIvIndex
<1>6. iv' # <<>>
  BY <1>3, <1>4, IvShape, <1>2
<1>7. BlockCount'
  <2>1. block_offset \in 0..(AES_BLOCK_SIZE - 1) /\ Len(blocks) \in Nat
    BY <1>2, LenProperties DEF IInv, TypeOK
  <2>2. BlocksAhead(block_offset, 0) = 0 /\ BlocksAhead(0, 0) = 0
    BY <2>1 DEF BlocksAhead, AES_BLOCK_SIZE
  <2>3. Len(blocks) <= MaxBlocks /\ MaxBytes \in Nat
    BY <1>2, <2>2, ConstantsAssumption DEF NInv, BlockCount
  <2>. QED BY <1>2, <2>2, <2>3 DEF UpdateIv, BlockCount, AES_BLOCK_SIZE
<1>8. CounterLink'
  <2>1. Low(Pad16(iv')) \in 0..(Two64 - 1)
    BY <1>4, HalvesBound
  <2>. QED BY <1>4, <1>6, <2>1 DEF UpdateIv, CounterLink, BlocksConsumed,
                                   AES_BLOCK_SIZE, Two64
<1>9. Consecutive'
  BY <1>4, <1>5, <1>6 DEF UpdateIv, NInv, Consecutive
<1>. QED BY <1>1, <1>7, <1>8, <1>9 DEF NInv

\* One byte of the loop of CryptInternal: at block offset 0 the counter
\* block is encrypted and appended to blocks_, then incremented; it is the
\* next place after the last block, and the bound still holds.
LEMMA CryptByteNInv == NInv /\ CryptByte => NInv'
<1>. SUFFICES ASSUME NInv, CryptByte PROVE NInv'
  OBVIOUS
<1>1. RInv'
  BY NextRInv DEF NInv, Next
<1>2. /\ remaining > 0
      /\ counter' = IF block_offset = 0 THEN Increment64(counter) ELSE counter
      /\ blocks' = IF block_offset = 0 THEN Append(blocks, counter) ELSE blocks
      /\ block_offset' = (block_offset + 1) % AES_BLOCK_SIZE
      /\ remaining' = remaining - 1
      /\ UNCHANGED <<iv, num_crypt_bytes>>
  BY Zenon DEF CryptByte
<1>3. IInv /\ iv # <<>> /\ BlockCount /\ CounterLink /\ Consecutive
  BY <1>2 DEF NInv, RInv, IInv, StreamLink
<1>4. /\ Len(stream) \in Nat /\ Len(stream') = Len(stream) + 1
      /\ remaining \in Nat
      /\ blocks \in Seq(Block) /\ Len(blocks) \in Nat
      /\ block_offset \in 0..(AES_BLOCK_SIZE - 1)
      /\ block_offset = Len(stream) % AES_BLOCK_SIZE
  <2>1. PICK e : stream' = Append(stream, e)
    BY Zenon DEF CryptByte
  <2>. QED BY <1>3, <2>1, LenProperties DEF IInv, TypeOK, BlockCount
<1>5. /\ counter \in Block
      /\ High(counter) = High(Pad16(iv))
      /\ Low(counter) = (Low(Pad16(iv)) + BlocksConsumed(Len(stream))) % Two64
  BY <1>3 DEF CounterLink
<1>6. /\ Low(Pad16(iv)) \in 0..(Two64 - 1)
      /\ BlocksConsumed(Len(stream)) \in Nat
  <2>1. Pad16(iv) \in Block
    BY <1>3, IvShape, Pad16Type
  <2>2. Low(Pad16(iv)) \in 0..(Two64 - 1)
    BY <2>1, HalvesBound
  <2>3. BlocksConsumed(Len(stream)) \in Nat
    BY <1>4 DEF BlocksConsumed, AES_BLOCK_SIZE
  <2>. QED BY <2>2, <2>3
<1>7. BlockCount'
  <2>1. block_offset' = Len(stream') % AES_BLOCK_SIZE
    BY <1>2, <1>4 DEF AES_BLOCK_SIZE
  <2>2. num_crypt_bytes' <= MaxBytes
    BY <1>2, <1>3 DEF BlockCount
  <2>3. BlocksAhead(block_offset', remaining')
          + (IF block_offset = 0 THEN 1 ELSE 0)
          = BlocksAhead(block_offset, remaining)
    BY <1>2, <1>4, BlocksAheadStep
  <2>4. Len(blocks') = Len(blocks) + (IF block_offset = 0 THEN 1 ELSE 0)
    <3>1. CASE block_offset = 0
      BY <1>2, <1>4, <1>5, <3>1, AppendProperties
    <3>2. CASE block_offset # 0
      BY <1>2, <3>2
    <3>. QED BY <3>1, <3>2
  <2>5. Len(blocks) + BlocksAhead(block_offset, remaining) <= MaxBlocks
    BY <1>3 DEF BlockCount
  <2>6. /\ BlocksAhead(block_offset', remaining') \in Int
        /\ BlocksAhead(block_offset, remaining) \in Int
        /\ MaxBlocks \in Nat
    BY <1>2, <1>4, ConstantsAssumption DEF BlocksAhead, AES_BLOCK_SIZE
  <2>. QED BY <1>4, <2>1, <2>2, <2>3, <2>4, <2>5, <2>6 DEF BlockCount
<1>8. CounterLink'
  <2>. SUFFICES
         /\ counter' \in Block
         /\ High(counter') = High(Pad16(iv))
         /\ Low(counter')
              = (Low(Pad16(iv)) + BlocksConsumed(Len(stream) + 1)) % Two64
    BY <1>2, <1>4 DEF CounterLink
  <2>1. BlocksConsumed(Len(stream) + 1)
          = BlocksConsumed(Len(stream)) + (IF block_offset = 0 THEN 1 ELSE 0)
    <3>1. BlocksConsumed(Len(stream) + 1)
            = BlocksConsumed(Len(stream))
                + (IF Len(stream) % AES_BLOCK_SIZE = 0 THEN 1 ELSE 0)
      BY <1>4, BlocksConsumedStep, Zenon
    <3>. QED BY <1>4, <3>1
  <2>2. CASE block_offset = 0
    <3>1. counter' = Increment64(counter)
      BY <1>2, <2>2
    <3>2. counter' \in Block
      BY <1>5, <3>1, Increment64Type
    <3>3. High(counter') = High(counter)
      BY <1>5, <3>1, Increment64High
    <3>4. Low(counter') = (Low(counter) + 1) % Two64
      BY <1>5, <3>1, Increment64Low DEF Low
    <3>5. (((Low(Pad16(iv)) + BlocksConsumed(Len(stream))) % Two64) + 1)
            % Two64
            = (Low(Pad16(iv)) + BlocksConsumed(Len(stream)) + 1) % Two64
      BY <1>6, ModSucc
    <3>. QED BY <1>5, <1>6, <2>1, <2>2, <3>2, <3>3, <3>4, <3>5
  <2>3. CASE block_offset # 0
    BY <1>2, <1>5, <1>6, <2>1, <2>3
  <2>. QED BY <2>2, <2>3
<1>9. Consecutive'
  <2>1. CASE block_offset # 0
    BY <1>2, <1>3, <2>1 DEF Consecutive
  <2>2. CASE block_offset = 0
    <3>1. /\ blocks' = Append(blocks, counter)
          /\ counter' = Increment64(counter)
          /\ iv' = iv
      BY <1>2, <2>2
    <3>2. /\ Len(blocks') = Len(blocks) + 1
          /\ \A i \in 1..Len(blocks) : blocks'[i] = blocks[i]
          /\ blocks'[Len(blocks) + 1] = counter
      BY <1>4, <1>5, <3>1, AppendProperties
    <3>3. IndexOf(counter', Len(iv)) = (IndexOf(counter, Len(iv)) + 1) % Two64
      BY <1>5, <3>1, IndexSucc
    <3>4. IndexOf(counter, Len(iv)) \in 0..(Two64 - 1)
      BY <1>5, IndexBound
    <3>5. CASE blocks = <<>>
      <4>1. Len(blocks') = 1 /\ blocks'[1] = counter
        BY <1>4, <3>2, <3>5
      <4>2. IndexOf(blocks'[1], Len(iv))
              = (IndexOf(blocks'[1], Len(iv)) + 1 - 1) % Two64
        BY <3>4, <4>1 DEF Two64
      <4>3. IndexOf(counter', Len(iv'))
              = (IndexOf(blocks'[1], Len(iv')) + Len(blocks')) % Two64
        BY <3>1, <3>3, <4>1
      <4>. QED BY <1>3, <3>1, <4>1, <4>2, <4>3 DEF Consecutive
    <3>6. CASE blocks # <<>>
      <4>1. Len(blocks) >= 1 /\ blocks[1] \in Block
        BY <1>4, <3>6
      <4>2. IndexOf(blocks[1], Len(iv)) \in 0..(Two64 - 1)
        BY <4>1, IndexBound
      <4>3. blocks'[1] = blocks[1]
        BY <3>2, <4>1
      <4>4. /\ \A i \in 1..Len(blocks) :
                 IndexOf(blocks[i], Len(iv))
                   = (IndexOf(blocks[1], Len(iv)) + i - 1) % Two64
            /\ IndexOf(counter, Len(iv))
                 = (IndexOf(blocks[1], Len(iv)) + Len(blocks)) % Two64
        BY <1>3, <3>6 DEF Consecutive
      <4>5. \A i \in 1..Len(blocks') :
              IndexOf(blocks'[i], Len(iv))
                = (IndexOf(blocks'[1], Len(iv)) + i - 1) % Two64
        <5>. SUFFICES ASSUME NEW i \in 1..Len(blocks')
                      PROVE  IndexOf(blocks'[i], Len(iv))
                               = (IndexOf(blocks'[1], Len(iv)) + i - 1) % Two64
          OBVIOUS
        <5>1. CASE i \in 1..Len(blocks)
          BY <3>2, <4>3, <4>4, <5>1
        <5>2. CASE i = Len(blocks) + 1
          BY <1>4, <3>2, <4>3, <4>4, <5>2
        <5>. QED BY <1>4, <3>2, <5>1, <5>2
      <4>6. IndexOf(counter', Len(iv))
              = (IndexOf(blocks'[1], Len(iv)) + Len(blocks')) % Two64
        <5>1. (((IndexOf(blocks[1], Len(iv)) + Len(blocks)) % Two64) + 1) % Two64
                = (IndexOf(blocks[1], Len(iv)) + Len(blocks) + 1) % Two64
          <6>1. IndexOf(blocks[1], Len(iv)) + Len(blocks) \in Nat
            BY <1>4, <4>2
          <6>. QED BY <6>1, ModSucc, Zenon
        <5>2. IndexOf(counter, Len(iv))
                = (IndexOf(blocks[1], Len(iv)) + Len(blocks)) % Two64
          BY <4>4
        <5>3. Len(blocks') = Len(blocks) + 1
          BY <3>2
        <5>. QED BY <1>4, <3>3, <4>2, <4>3, <5>1, <5>2, <5>3
      <4>. QED BY <1>3, <3>1, <4>5, <4>6 DEF Consecutive
    <3>. QED BY <3>5, <3>6
  <2>. QED BY <2>1, <2>2
<1>. QED BY <1>1, <1>7, <1>8, <1>9 DEF NInv

LEMMA NextNInv == NInv /\ [Next]_vars => NInv'
<1>. SUFFICES ASSUME NInv, [Next]_vars PROVE NInv'
  OBVIOUS
<1>1. CASE InitializeWithIv
  BY <1>1, InitializeWithIvNInv
<1>2. CASE SetIv
  BY <1>2, SetIvNInv
<1>3. CASE CryptInternal
  BY <1>3, CryptInternalNInv
<1>4. CASE CryptByte
  BY <1>4, CryptByteNInv
<1>5. CASE UpdateIv
  BY <1>5, UpdateIvNInv
<1>6. CASE UNCHANGED vars
  <2>1. RInv'
    BY <1>6, NextRInv DEF NInv
  <2>. QED BY <1>6, <2>1 DEF vars, NInv, BlockCount, CounterLink, Consecutive
<1>. QED BY <1>1, <1>2, <1>3, <1>4, <1>5, <1>6 DEF Next

(***************************************************************************)
(* Theorem.                                                                *)
(***************************************************************************)

\* Every block encrypted since the caller's IV is admitted by MaxBlocks.
LEMMA BlocksWithinBound ==
  ASSUME NInv
  PROVE  Len(blocks) <= MaxBlocks
<1>1. block_offset \in 0..(AES_BLOCK_SIZE - 1) /\ remaining \in Nat
      /\ Len(blocks) \in Nat /\ MaxBlocks \in Nat
  BY ConstantsAssumption, LenProperties DEF NInv, RInv, IInv, TypeOK
<1>2. BlocksAhead(block_offset, remaining) \in Nat
  BY <1>1 DEF BlocksAhead, AES_BLOCK_SIZE
<1>. QED BY <1>1, <1>2 DEF NInv, BlockCount

\* The blocks are distinct because they stand at consecutive places and
\* there are at most MaxBlocks <= 2^64 of them.
LEMMA NInvNoReuse ==
  ASSUME NInv, MaxBlocks <= Two64
  PROVE  NoKeystreamReuse
<1>. SUFFICES ASSUME NEW i \in 1..Len(blocks), NEW j \in 1..Len(blocks),
                    i < j, blocks[i] = blocks[j]
             PROVE  FALSE
  BY DEF NoKeystreamReuse
<1>1. blocks \in Seq(Block) /\ Len(blocks) <= MaxBlocks
  BY BlocksWithinBound DEF NInv, RInv, IInv, TypeOK
<1>2. blocks # <<>> /\ blocks[1] \in Block
  BY <1>1
<1>3. /\ IndexOf(blocks[i], Len(iv))
           = (IndexOf(blocks[1], Len(iv)) + i - 1) % Two64
      /\ IndexOf(blocks[j], Len(iv))
           = (IndexOf(blocks[1], Len(iv)) + j - 1) % Two64
  BY <1>2 DEF NInv, Consecutive
<1>4. IndexOf(blocks[1], Len(iv)) \in 0..(Two64 - 1)
  BY <1>2, IndexBound
<1>5. IndexOf(blocks[1], Len(iv)) + i - 1 \in Nat /\ j - i \in 1..(Two64 - 1)
  <2>1. IndexOf(blocks[1], Len(iv)) \in 0..(Two64 - 1)
    BY <1>4
  <2>2. MaxBlocks \in Nat
    BY ConstantsAssumption
  <2>. QED BY <1>1, <2>1, <2>2 DEF Two64
<1>6. (IndexOf(blocks[1], Len(iv)) + i - 1) % Two64
        # (IndexOf(blocks[1], Len(iv)) + i - 1 + (j - i)) % Two64
  BY <1>5, ModDistinct, Zenon
<1>7. IndexOf(blocks[1], Len(iv)) + i - 1 + (j - i)
        = IndexOf(blocks[1], Len(iv)) + j - 1
  BY <1>4
<1>8. IndexOf(blocks[i], Len(iv)) = IndexOf(blocks[j], Len(iv))
  OBVIOUS
<1>. QED BY <1>3, <1>6, <1>7, <1>8

\* Between two IVs set by the caller (SetIv, InitializeWithIv) the
\* encryptor never encrypts the same counter block twice, across any number
\* of Crypt calls and UpdateIv calls, provided at most 2^64 blocks are
\* encrypted under one caller IV: beyond that, the 64-bit counter half that
\* Increment64 and AddToIv advance comes back to where it started.
THEOREM NoReuse ==
  ASSUME MaxBlocks <= Two64
  PROVE  Spec => []NoKeystreamReuse
<1>1. NInv => NoKeystreamReuse
  BY NInvNoReuse
<1>. QED BY <1>1, InitNInv, NextNInv, PTL DEF Spec

\* Spec 8.8: the 64-bit block counter counts the blocks.  Whenever an IV
\* is set, counter_ (the block the next fresh block of CryptInternal
\* encrypts) is the IV padded to 16 bytes with its low half advanced,
\* modulo 2^64, by exactly one per 16 bytes encrypted under that IV, and
\* its IV half is the IV's, over any split into Crypt calls.
THEOREM CounterCountsBlocks == Spec => []CounterLink
<1>1. NInv => CounterLink
  BY DEF NInv
<1>. QED BY <1>1, InitNInv, NextNInv, PTL DEF Spec

\* UpdateIv resumes the keystream where the finished sample stopped: the
\* first counter block of the next sample stands at the place after the
\* last block of the previous one, for 8-byte IVs (the IV half moves on
\* and the counter half restarts) as for 16-byte IVs.
THEOREM UpdateIvResumes ==
  Spec => [][UpdateIv =>
               IndexOf(counter', Len(iv')) = IndexOf(counter, Len(iv))]_vars
<1>1. NInv /\ [Next]_vars
        => [UpdateIv =>
              IndexOf(counter', Len(iv')) = IndexOf(counter, Len(iv))]_vars
  BY UpdateIvIndex
<1>. QED BY <1>1, InitNInv, NextNInv, PTL DEF Spec

=============================================================================

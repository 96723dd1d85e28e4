------------------------ MODULE SampleEncryptorNoReuse ------------------------
(***************************************************************************)
(* Proof that the samples of a track never share a counter block           *)
(* (SamplesUseDisjointKeystream), for every value of the constants, as     *)
(* long as a sample's cipher bytes fit in the 255 blocks by which AddToIv  *)
(* can advance an IV and the samples of the track together stay below     *)
(* 2^64 blocks.                                                            *)
(*                                                                         *)
(* Every block is read as its place IndexOf (CtrCounterArith) relative to *)
(* the place of the track's first block, modulo 2^64 (Rel).  Within a      *)
(* sample the blocks stand at consecutive places from the place of the     *)
(* sample's IV (OnStream); FinishSample moves the IV on by the blocks the  *)
(* sample consumed (AddToIvIndex), so each sample's IV stands at least as  *)
(* far beyond the previous sample's IV as that sample has blocks (Chain). *)
(* Since no place ever reaches 2^64, two blocks of different samples      *)
(* stand at different places and are different blocks.  The inductive     *)
(* invariant SInv(cb) adds to these a type invariant and the bounds that  *)
(* keep the places below 2^64; cb bounds the cipher bytes of one NAL unit. *)
(***************************************************************************)
EXTENDS SampleEncryptor, CtrCounterArith

Iv == [1..8 -> Byte] \cup Block
Position == Block \X (0..(AES_BLOCK_SIZE - 1))
Entry == {SubsampleEntry(a, b) : a \in Nat, b \in Nat}
ConfigRec ==
  [config : {DecryptConfig(KeyId, v, e) : v \in Iv, e \in Seq(Entry)},
   nals : Seq(Nals), positions : Seq(Position)]

TypeInv ==
  /\ key_iv \in {<<>>} \cup Iv
  /\ keystream \in Seq(Position)
  /\ nals \in Seq(Nals)
  /\ subsamples \in Seq(Entry)
  /\ pending_clear \in Nat
  /\ cipher_left \in Nat
  /\ configs \in Seq(ConfigRec)

\* The IV of the i-th sample: that of its DecryptConfig, or key_iv for the
\* sample in progress.
IvOf(i) == IF i <= Len(configs) THEN configs[i].config.iv ELSE key_iv

\* The place of an IV's padded block, and its distance from the place of
\* the track's first block.
Ix(v) == IndexOf(Pad16(v), Len(v))
Rel(v) == (Ix(v) - Ix(IvOf(1))) % Two64

\* The blocks the i-th sample consumed so far.
Blk(i) == BlocksConsumed(Len(SampleKeystreams[i]))

\* The positions ks form one CTR stream from the IV v, every block at the
\* place its index says.
OnStream(ks, v) ==
  \A k \in 1..Len(ks) :
    /\ ks[k][2] = (k - 1) % AES_BLOCK_SIZE
    /\ IndexOf(ks[k][1], Len(v)) = (Ix(v) + (k - 1) \div AES_BLOCK_SIZE) % Two64

Chain ==
  /\ \A i \in 1..(Len(configs) + 1) :
       Len(IvOf(i)) = Len(key_iv) /\ OnStream(SampleKeystreams[i], IvOf(i))
  /\ \A i, j \in 1..(Len(configs) + 1) :
       i < j => Rel(IvOf(i)) + Blk(i) <= Rel(IvOf(j))
  /\ Rel(key_iv) <= 255 * Len(configs)

SInv(cb) ==
  /\ TypeInv
  /\ key_iv = <<>> =>
       configs = <<>> /\ nals = <<>> /\ keystream = <<>> /\ cipher_left = 0
  /\ Len(nals) <= MaxNals
  /\ Len(keystream) + cipher_left <= Len(nals) * cb
  /\ Len(configs) <= MaxSamples
  /\ nals # <<>> => Len(configs) < MaxSamples
  /\ key_iv # <<>> => Chain

\* cb bounds the cipher bytes of a video slice; a sample of MaxNals NAL
\* units then fits in the 255 blocks AddToIv can add, and MaxSamples
\* samples of up to 255 blocks stay below 2^64 blocks.
CipherBound(cb) ==
  /\ cb \in Nat
  /\ \A n \in Nals : n.slice => n.size - n.header <= cb
  /\ MaxNals * cb <= 255 * AES_BLOCK_SIZE
  /\ MaxSamples * 255 < Two64

(***************************************************************************)
(* Lemmas.                                                                 *)
(***************************************************************************)

\* The keystream contract and the sample encryptor share the helpers of
\* AesCommon.
LEMMA KeystreamHelpers ==
  /\ \A v : Keystream!Pad16(v) = Pad16(v)
  /\ \A q : Keystream!NextPosition(q) = NextPosition(q)
  /\ \A v, m : Keystream!AddToIv(v, m) = AddToIv(v, m)
  /\ \A n : Keystream!BlocksConsumed(n) = BlocksConsumed(n)
BY DEF Keystream!Pad16, Pad16, Keystream!NextPosition, NextPosition,
       Keystream!Increment64, Increment64, Keystream!AddToIv, AddToIv,
       Keystream!BlocksConsumed, BlocksConsumed,
       Keystream!AES_BLOCK_SIZE, AES_BLOCK_SIZE

\* An IV StartTrack accepts is 8 or 16 bytes.
LEMMA InstalledIv ==
  ASSUME NEW v \in Ivs, Len(v) \in {8, 16}
  PROVE  v \in Iv
<1>1. v \in [1..Len(v) -> Byte]
  BY SampleEncryptorAssumption, LenProperties, Zenon
<1>2. CASE Len(v) = 8
  BY <1>1, <1>2 DEF Iv
<1>3. CASE Len(v) = 16
  BY <1>1, <1>3 DEF Iv, Block, AES_BLOCK_SIZE
<1>. QED BY <1>2, <1>3

\* An IV is 8 or 16 bytes long, hence not empty.
LEMMA IvLen ==
  ASSUME NEW v \in Iv
  PROVE  Len(v) \in {8, 16} /\ v # <<>>
<1>1. Len(<<>>) = 0
  BY EmptySeq
<1>2. CASE v \in [1..8 -> Byte]
  <2>1. Len(v) = 8
    BY <1>2, IvLen8
  <2>. QED BY <1>1, <2>1
<1>3. CASE v \in Block
  <2>1. Len(v) = 16
    BY <1>3, BlockLen
  <2>2. Len(v) # Len(<<>>)
    BY <1>1, <2>1
  <2>. QED BY <2>1, <2>2, Zenon
<1>. QED BY <1>2, <1>3 DEF Iv

\* The place of an IV's padded block is a place.
LEMMA IxBound ==
  ASSUME NEW v \in Iv
  PROVE  Pad16(v) \in Block /\ Ix(v) \in 0..(Two64 - 1)
<1>1. Pad16(v) \in Block
  BY Pad16Type DEF Iv
<1>. QED BY <1>1, IndexBound DEF Ix

\* Moving one byte on in a stream of m - 1 bytes: the offset in the block
\* wraps to 0 exactly when the block index moves on.
LEMMA ByteStep ==
  ASSUME NEW m \in Nat, m >= 1
  PROVE  /\ (m - 1) % AES_BLOCK_SIZE = AES_BLOCK_SIZE - 1 =>
              /\ m % AES_BLOCK_SIZE = 0
              /\ m \div AES_BLOCK_SIZE = (m - 1) \div AES_BLOCK_SIZE + 1
         /\ (m - 1) % AES_BLOCK_SIZE # AES_BLOCK_SIZE - 1 =>
              /\ m % AES_BLOCK_SIZE = ((m - 1) % AES_BLOCK_SIZE) + 1
              /\ m \div AES_BLOCK_SIZE = (m - 1) \div AES_BLOCK_SIZE
BY DEF AES_BLOCK_SIZE

\* The position EncryptByte appends (NextKeystreamPosition) is the next
\* place of the stream: at offset 0 Increment64 moves the block on by one.
LEMMA OnStreamAppend ==
  ASSUME NEW v \in Iv, NEW ks \in Seq(Position), OnStream(ks, v)
  PROVE  LET p == IF ks = <<>> THEN <<Pad16(v), 0>>
                  ELSE NextPosition(ks[Len(ks)])
         IN  p \in Position /\ OnStream(Append(ks, p), v)
<1>. DEFINE p == IF ks = <<>> THEN <<Pad16(v), 0>>
                 ELSE NextPosition(ks[Len(ks)])
            m == Len(ks)
            L == Len(v)
<1>1. m \in Nat
  BY LenProperties
<1>2. Pad16(v) \in Block /\ Ix(v) \in 0..(Two64 - 1)
  BY IxBound
<1>3. /\ p \in Position
      /\ p[2] = m % AES_BLOCK_SIZE
      /\ IndexOf(p[1], L) = (Ix(v) + m \div AES_BLOCK_SIZE) % Two64
  <2>1. CASE ks = <<>>
    <3>1. m = 0 /\ p = <<Pad16(v), 0>>
      BY <2>1
    <3>2. IndexOf(Pad16(v), L) = Ix(v)
      BY DEF Ix
    <3>. QED BY <1>2, <3>1, <3>2 DEF Position, AES_BLOCK_SIZE, Two64
  <2>2. CASE ks # <<>>
    <3>. DEFINE last == ks[m]
                q == (m - 1) \div AES_BLOCK_SIZE
    <3>1. m \in 1..m
      BY <1>1, <2>2, EmptySeq, LenProperties
    <3>2. last \in Position
      BY <3>1, ElementOfSeq, Zenon
    <3>3. /\ last[2] = (m - 1) % AES_BLOCK_SIZE
          /\ IndexOf(last[1], L) = (Ix(v) + q) % Two64
      BY <3>1 DEF OnStream
    <3>4. p = NextPosition(last)
      BY <2>2
    <3>. HIDE DEF p
    <3>5. q \in Nat /\ Ix(v) + q \in Nat
      BY <1>2, <3>1 DEF AES_BLOCK_SIZE, Two64
    <3>6. CASE last[2] = AES_BLOCK_SIZE - 1
      <4>1. p = <<Increment64(last[1]), 0>>
        BY <3>4, <3>6 DEF NextPosition
      <4>2. last[1] \in Block
        BY <3>2 DEF Position
      <4>3. Increment64(last[1]) \in Block
        BY <4>2, Increment64Type
      <4>4. IndexOf(Increment64(last[1]), L) = (IndexOf(last[1], L) + 1) % Two64
        BY <4>2, IndexSucc
      <4>5. (((Ix(v) + q) % Two64) + 1) % Two64 = (Ix(v) + q + 1) % Two64
        BY <3>5, ModSucc
      <4>6. m % AES_BLOCK_SIZE = 0 /\ m \div AES_BLOCK_SIZE = q + 1
        BY <3>1, <3>3, <3>6, ByteStep
      <4>7. p \in Position /\ p[2] = m % AES_BLOCK_SIZE
        BY <4>1, <4>3, <4>6 DEF Position, AES_BLOCK_SIZE
      <4>8. IndexOf(p[1], L) = (Ix(v) + m \div AES_BLOCK_SIZE) % Two64
        <5>1. IndexOf(p[1], L) = (((Ix(v) + q) % Two64) + 1) % Two64
          BY <3>3, <4>1, <4>4, Zenon
        <5>2. Ix(v) + q + 1 = Ix(v) + m \div AES_BLOCK_SIZE
          BY <1>2, <4>6 DEF AES_BLOCK_SIZE
        <5>. QED BY <4>5, <5>1, <5>2, Zenon
      <4>. QED BY <4>7, <4>8
    <3>7. CASE last[2] # AES_BLOCK_SIZE - 1
      <4>1. p = <<last[1], last[2] + 1>>
        BY <3>4, <3>7 DEF NextPosition
      <4>2. last[1] \in Block /\ last[2] \in 0..(AES_BLOCK_SIZE - 2)
        BY <3>2, <3>7 DEF Position, AES_BLOCK_SIZE
      <4>3. m % AES_BLOCK_SIZE = last[2] + 1 /\ m \div AES_BLOCK_SIZE = q
        BY <3>1, <3>3, <3>7, ByteStep
      <4>4. p \in Position /\ p[2] = m % AES_BLOCK_SIZE
        <5>1. last[2] + 1 \in 0..(AES_BLOCK_SIZE - 1)
          BY <4>2 DEF AES_BLOCK_SIZE
        <5>2. p \in Position
          BY <4>1, <4>2, <5>1, Zenon DEF Position
        <5>. QED BY <4>1, <4>3, <5>2
      <4>5. IndexOf(p[1], L) = (Ix(v) + m \div AES_BLOCK_SIZE) % Two64
        <5>1. p[1] = last[1]
          BY <4>1
        <5>. QED BY <3>3, <4>3, <5>1, Zenon
      <4>. QED BY <4>4, <4>5
    <3>. QED BY <3>6, <3>7
  <2>. QED BY <2>1, <2>2
<1>4. p \in Position
  BY <1>3
<1>5. /\ Append(ks, p) \in Seq(Position)
      /\ Len(Append(ks, p)) = m + 1
      /\ \A k \in 1..m : Append(ks, p)[k] = ks[k]
      /\ Append(ks, p)[m + 1] = p
  BY <1>4, AppendProperties
<1>6. \A k \in 1..(m + 1) :
        /\ Append(ks, p)[k][2] = (k - 1) % AES_BLOCK_SIZE
        /\ IndexOf(Append(ks, p)[k][1], L)
             = (Ix(v) + (k - 1) \div AES_BLOCK_SIZE) % Two64
  <2>. TAKE k \in 1..(m + 1)
  <2>1. CASE k <= m
    BY <1>5, <2>1 DEF OnStream
  <2>2. CASE k = m + 1
    BY <1>1, <1>3, <1>5, <2>2
  <2>. QED BY <1>1, <2>1, <2>2
<1>. QED BY <1>4, <1>5, <1>6 DEF OnStream

(***************************************************************************)
(* The inductive invariant.                                                *)
(***************************************************************************)

LEMMA EntryIn ==
  ASSUME NEW a \in Nat, NEW b \in Nat
  PROVE  SubsampleEntry(a, b) \in Entry
BY DEF Entry

LEMMA InitSInv ==
  ASSUME NEW cb, CipherBound(cb), Init
  PROVE  SInv(cb)
<1>1. <<>> \in Seq(Position) /\ <<>> \in Seq(Nals) /\ <<>> \in Seq(Entry)
      /\ <<>> \in Seq(ConfigRec)
  BY EmptySeq
<1>2. TypeInv
  BY <1>1 DEF Init, Keystream!Init, TypeInv
<1>3. Len(<<>>) = 0 /\ MaxNals \in Nat /\ MaxSamples \in Nat /\ cb \in Nat
  BY SampleEncryptorAssumption DEF CipherBound
<1>. QED BY <1>2, <1>3 DEF Init, Keystream!Init, SInv

\* A step that leaves the IV and the finished samples alone and keeps the
\* sample in progress on its stream keeps the chain.
LEMMA ChainFrame ==
  ASSUME Chain, configs' = configs, key_iv' = key_iv,
         OnStream(keystream', key_iv)
  PROVE  Chain'
<1>. DEFINE n == Len(configs)
<1>1. \A i : IvOf(i)' = IvOf(i)
  BY DEF IvOf
<1>2. \A i : Rel(IvOf(i))' = Rel(IvOf(i))
  BY <1>1 DEF Rel
<1>3. /\ \A i \in 1..n : SampleKeystreams'[i] = SampleKeystreams[i]
      /\ SampleKeystreams'[n + 1] = keystream'
      /\ SampleKeystreams[n + 1] = keystream
  BY DEF SampleKeystreams
<1>4. \A i \in 1..n : Blk(i)' = Blk(i)
  BY <1>3 DEF Blk
<1>5. \A i \in 1..(n + 1) :
        Len(IvOf(i)') = Len(key_iv') /\ OnStream(SampleKeystreams'[i], IvOf(i)')
  <2>. TAKE i \in 1..(n + 1)
  <2>1. CASE i <= n
    BY <1>1, <1>3, <2>1 DEF Chain
  <2>2. CASE i = n + 1
    <3>1. IvOf(i) = key_iv
      BY <2>2 DEF IvOf
    <3>. QED BY <1>1, <1>3, <2>2, <3>1
  <2>. QED BY <2>1, <2>2
<1>6. \A i, j \in 1..(n + 1) :
        i < j => Rel(IvOf(i))' + Blk(i)' <= Rel(IvOf(j))'
  BY <1>2, <1>4 DEF Chain
<1>7. Rel(key_iv)' = Rel(key_iv)
  BY <1>1 DEF Rel
<1>. QED BY <1>5, <1>6, <1>7 DEF Chain

LEMMA StartTrackSInv ==
  ASSUME NEW cb, CipherBound(cb), SInv(cb), StartTrack
  PROVE  SInv(cb)'
<1>1. PICK v \in Ivs : Keystream!InstallIv(v)
  BY DEF StartTrack
<1>2. key_iv' = v /\ keystream' = <<>> /\ v \in Iv
  BY <1>1, InstalledIv DEF Keystream!InstallIv
<1>3. /\ key_iv = <<>>
      /\ configs = <<>> /\ nals = <<>> /\ keystream = <<>> /\ cipher_left = 0
      /\ UNCHANGED <<nals, subsamples, pending_clear, cipher_left, configs>>
  BY DEF StartTrack, SInv
<1>4. TypeInv'
  BY <1>2, <1>3, EmptySeq DEF SInv, TypeInv
<1>5. v # <<>>
  BY <1>2, IvLen
<1>6. Chain'
  <2>1. Len(configs') = 0
    BY <1>3
  <2>2. IvOf(1)' = v
    BY <1>2, <2>1 DEF IvOf
  <2>3. SampleKeystreams'[1] = <<>>
    BY <1>2, <2>1 DEF SampleKeystreams
  <2>4. Ix(v) \in 0..(Two64 - 1)
    BY <1>2, IxBound
  <2>5. Rel(key_iv)' = 0
    BY <1>2, <2>2, <2>4 DEF Rel, Two64
  <2>6. OnStream(<<>>, v)
    BY DEF OnStream
  <2>. QED BY <1>2, <2>1, <2>2, <2>3, <2>5, <2>6 DEF Chain
<1>7. cb \in Nat /\ MaxSamples \in Nat
  BY SampleEncryptorAssumption DEF CipherBound
<1>. QED BY <1>2, <1>3, <1>4, <1>5, <1>6, <1>7 DEF SInv

\* AddNal: a slice's subsample entries are appended and its cipher bytes
\* (at most cb) become the bytes left to encrypt; a clear NAL only adds
\* clear bytes.  Neither touches the IV, the keystream or the configs.
LEMMA AddNalSInv ==
  ASSUME NEW cb, CipherBound(cb), SInv(cb), AddNal
  PROVE  SInv(cb)'
<1>1. PICK n \in Nals :
        /\ nals' = Append(nals, n)
        /\ IF n.slice
           THEN LET clear == n.header
                    cipher == n.size - n.header
                IN /\ subsamples' =
                        subsamples \o
                          (IF MergesInto(pending_clear, clear)
                           THEN <<SubsampleEntry(pending_clear + clear, cipher)>>
                           ELSE <<SubsampleEntry(pending_clear, 0),
                                  SubsampleEntry(clear, cipher)>>)
                   /\ pending_clear' = 0
                   /\ cipher_left' = cipher
           ELSE /\ IF MergesInto(pending_clear, n.size)
                   THEN /\ pending_clear' = pending_clear + n.size
                        /\ UNCHANGED subsamples
                   ELSE /\ pending_clear' = n.size
                        /\ subsamples' =
                             Append(subsamples, SubsampleEntry(pending_clear, 0))
                /\ UNCHANGED cipher_left
  BY DEF AddNal
<1>2. /\ key_iv # <<>> /\ cipher_left = 0
      /\ Len(nals) < MaxNals /\ Len(configs) < MaxSamples
      /\ UNCHANGED <<key_iv, keystream, configs>>
  BY DEF AddNal
<1>3. n.header \in Nat /\ n.size \in Nat /\ n.header <= n.size
  BY SampleEncryptorAssumption
<1>4. /\ TypeInv
      /\ Len(keystream) + cipher_left <= Len(nals) * cb
      /\ Chain
  BY <1>2 DEF SInv
<1>5. /\ nals' \in Seq(Nals) /\ Len(nals') = Len(nals) + 1
      /\ Len(nals) \in Nat /\ Len(keystream) \in Nat /\ cb \in Nat
  BY <1>1, <1>4, AppendProperties, LenProperties DEF TypeInv, CipherBound
<1>6. /\ subsamples' \in Seq(Entry)
      /\ pending_clear' \in Nat
      /\ cipher_left' \in Nat
      /\ cipher_left' <= cb
  <2>. USE DEF TypeInv
  <2>1. CASE n.slice
    <3>. DEFINE clear == n.header
                cipher == n.size - n.header
    <3>1. clear \in Nat /\ cipher \in Nat /\ pending_clear + clear \in Nat
      BY <1>3, <1>4
    <3>2. /\ SubsampleEntry(pending_clear + clear, cipher) \in Entry
          /\ SubsampleEntry(pending_clear, 0) \in Entry
          /\ SubsampleEntry(clear, cipher) \in Entry
      BY <1>4, <3>1, EntryIn
    <3>3. /\ <<SubsampleEntry(pending_clear + clear, cipher)>> \in Seq(Entry)
          /\ <<SubsampleEntry(pending_clear, 0),
               SubsampleEntry(clear, cipher)>> \in Seq(Entry)
      BY <3>2
    <3>4. subsamples' \in Seq(Entry)
      BY <1>1, <1>4, <2>1, <3>3, ConcatProperties
    <3>5. cipher <= cb
      BY <2>1 DEF CipherBound
    <3>. QED BY <1>1, <2>1, <3>1, <3>4, <3>5
  <2>2. CASE ~n.slice
    <3>1. SubsampleEntry(pending_clear, 0) \in Entry
      BY <1>4, EntryIn
    <3>2. subsamples' \in Seq(Entry) /\ pending_clear' \in Nat
      <4>1. IF MergesInto(pending_clear, n.size)
            THEN /\ pending_clear' = pending_clear + n.size
                 /\ UNCHANGED subsamples
            ELSE /\ pending_clear' = n.size
                 /\ subsamples' =
                      Append(subsamples, SubsampleEntry(pending_clear, 0))
        BY <1>1, <2>2, Zenon
      <4>2. CASE MergesInto(pending_clear, n.size)
        BY <1>3, <1>4, <4>1, <4>2
      <4>3. CASE ~MergesInto(pending_clear, n.size)
        <5>1. subsamples' = Append(subsamples, SubsampleEntry(pending_clear, 0))
              /\ pending_clear' = n.size
          BY <4>1, <4>3, Zenon
        <5>. QED BY <1>3, <1>4, <3>1, <5>1, AppendProperties
      <4>. QED BY <4>2, <4>3
    <3>3. cipher_left' = 0
      BY <1>1, <1>2, <2>2
    <3>. QED BY <3>2, <3>3, <1>5
  <2>. QED BY <2>1, <2>2
<1>7. TypeInv'
  BY <1>2, <1>4, <1>5, <1>6 DEF TypeInv
<1>8. Len(keystream') + cipher_left' <= Len(nals') * cb
  <2>1. Len(keystream) <= Len(nals) * cb
    BY <1>2, <1>4
  <2>2. Len(nals') * cb = Len(nals) * cb + cb
    BY <1>5
  <2>. QED BY <1>2, <1>5, <1>6, <2>1, <2>2
<1>9. Chain'
  <2>1. OnStream(keystream', key_iv)
    BY <1>2, <1>4 DEF Chain, SampleKeystreams, IvOf
  <2>. QED BY <1>2, <1>4, <2>1, ChainFrame
<1>10. /\ key_iv' # <<>>
       /\ Len(nals') <= MaxNals
       /\ Len(configs') <= MaxSamples
       /\ Len(configs') < MaxSamples
  BY <1>2, <1>5, SampleEncryptorAssumption
<1>. QED BY <1>7, <1>8, <1>9, <1>10 DEF SInv

\* EncryptCipherByte: one more keystream position, one byte fewer left.
LEMMA EncryptCipherByteSInv ==
  ASSUME NEW cb, CipherBound(cb), SInv(cb), EncryptCipherByte
  PROVE  SInv(cb)'
<1>. DEFINE p == IF keystream = <<>> THEN <<Pad16(key_iv), 0>>
                 ELSE NextPosition(keystream[Len(keystream)])
<1>1. /\ cipher_left > 0 /\ key_iv # <<>>
      /\ keystream' = Append(keystream, p)
      /\ cipher_left' = cipher_left - 1
      /\ UNCHANGED <<key_iv, nals, subsamples, pending_clear, configs>>
  <2>1. /\ cipher_left > 0 /\ key_iv # <<>>
        /\ keystream' = Append(keystream, Keystream!NextKeystreamPosition)
        /\ cipher_left' = cipher_left - 1
        /\ UNCHANGED <<key_iv, nals, subsamples, pending_clear, configs>>
    BY DEF EncryptCipherByte, Keystream!EncryptByte
  <2>2. Keystream!NextKeystreamPosition = p
    BY KeystreamHelpers DEF Keystream!NextKeystreamPosition
  <2>. QED BY <2>1, <2>2
<1>2. TypeInv /\ Chain /\ Len(keystream) + cipher_left <= Len(nals) * cb
  BY <1>1 DEF SInv
<1>3. key_iv \in Iv /\ keystream \in Seq(Position)
  BY <1>1, <1>2 DEF TypeInv
<1>4. OnStream(keystream, key_iv)
  <2>1. SampleKeystreams[Len(configs) + 1] = keystream
        /\ IvOf(Len(configs) + 1) = key_iv
    BY DEF SampleKeystreams, IvOf
  <2>2. Len(configs) \in Nat
    BY <1>2, LenProperties DEF TypeInv
  <2>. QED BY <1>2, <2>1, <2>2 DEF Chain
<1>5. p \in Position /\ OnStream(Append(keystream, p), key_iv)
  BY <1>3, <1>4, OnStreamAppend
<1>6. keystream' \in Seq(Position) /\ Len(keystream') = Len(keystream) + 1
  BY <1>1, <1>3, <1>5, AppendProperties
<1>7. TypeInv'
  BY <1>1, <1>2, <1>6 DEF TypeInv
<1>8. Chain'
  BY <1>1, <1>2, <1>5, ChainFrame
<1>9. /\ Len(keystream') + cipher_left' <= Len(nals') * cb
      /\ Len(nals') <= MaxNals
      /\ Len(configs') <= MaxSamples
      /\ nals' # <<>> => Len(configs') < MaxSamples
  <2>1. cipher_left \in Nat /\ Len(keystream) \in Nat
    BY <1>2, <1>3, LenProperties DEF TypeInv
  <2>. QED BY <1>1, <1>6, <2>1 DEF SInv
<1>. QED BY <1>1, <1>7, <1>8, <1>9 DEF SInv

\* Every sample's IV is an IV of 8 or 16 bytes.
LEMMA IvOfIv ==
  ASSUME TypeInv, key_iv # <<>>, NEW i \in 1..(Len(configs) + 1)
  PROVE  IvOf(i) \in Iv
<1>1. CASE i <= Len(configs)
  <2>1. configs[i] \in ConfigRec
    BY <1>1, ElementOfSeq DEF TypeInv
  <2>2. configs[i].config
          \in {DecryptConfig(KeyId, v, es) : v \in Iv, es \in Seq(Entry)}
    BY <2>1 DEF ConfigRec
  <2>3. PICK v \in Iv, es \in Seq(Entry) :
          configs[i].config = DecryptConfig(KeyId, v, es)
    BY <2>2
  <2>4. configs[i].config.iv = v
    BY <2>3 DEF DecryptConfig
  <2>. QED BY <1>1, <2>4 DEF IvOf
<1>2. CASE ~(i <= Len(configs))
  BY <1>2 DEF IvOf, TypeInv
<1>. QED BY <1>1, <1>2

\* Every sample's keystream is a sequence of positions.
LEMMA SkSeq ==
  ASSUME TypeInv, NEW i \in 1..(Len(configs) + 1)
  PROVE  SampleKeystreams[i] \in Seq(Position)
<1>1. CASE i <= Len(configs)
  <2>1. configs[i] \in ConfigRec
    BY <1>1, ElementOfSeq DEF TypeInv
  <2>. QED BY <1>1, <2>1 DEF ConfigRec, SampleKeystreams
<1>2. CASE ~(i <= Len(configs))
  BY <1>2 DEF TypeInv, SampleKeystreams
<1>. QED BY <1>1, <1>2

\* Every sample's place relative to the track's first block, and the number
\* of blocks it consumed, are numbers.
LEMMA RelBlkNat ==
  ASSUME TypeInv, key_iv # <<>>, NEW i \in 1..(Len(configs) + 1)
  PROVE  Rel(IvOf(i)) \in 0..(Two64 - 1) /\ Blk(i) \in Nat
<1>1. IvOf(i) \in Iv /\ IvOf(1) \in Iv
  <2>1. 1 \in 1..(Len(configs) + 1)
    BY LenProperties DEF TypeInv
  <2>. QED BY <2>1, IvOfIv
<1>2. Ix(IvOf(i)) - Ix(IvOf(1)) \in Int
  BY <1>1, IxBound
<1>3. \A x \in Int : x % Two64 \in 0..(Two64 - 1)
  BY DEF Two64
<1>4. Rel(IvOf(i)) \in 0..(Two64 - 1)
  BY <1>2, <1>3, Zenon DEF Rel
<1>5. SampleKeystreams[i] \in Seq(Position)
  BY SkSeq
<1>6. \A x \in Nat : BlocksConsumed(x) \in Nat
  BY DEF BlocksConsumed, AES_BLOCK_SIZE
<1>7. Blk(i) \in Nat
  BY <1>5, <1>6, LenProperties, Zenon DEF Blk
<1>. QED BY <1>4, <1>7

\* A sample uses at most 255 blocks, so AddToIv can advance the IV by them.
LEMMA SampleFitsIv ==
  ASSUME NEW cb, CipherBound(cb), SInv(cb)
  PROVE  BlocksConsumed(Len(keystream)) \in 0..255
<1>1. /\ Len(keystream) \in Nat /\ Len(nals) \in Nat /\ cipher_left \in Nat
      /\ cb \in Nat /\ MaxNals \in Nat
  BY SampleEncryptorAssumption, LenProperties DEF SInv, TypeInv, CipherBound
<1>2. Len(keystream) <= Len(nals) * cb /\ Len(nals) <= MaxNals
  BY <1>1 DEF SInv
<1>3. Len(nals) * cb <= MaxNals * cb
  BY <1>1, <1>2
<1>4. Len(keystream) <= 255 * AES_BLOCK_SIZE
  BY <1>1, <1>2, <1>3 DEF CipherBound, AES_BLOCK_SIZE
<1>5. \A x \in Nat : x <= 255 * AES_BLOCK_SIZE => BlocksConsumed(x) \in 0..255
  BY DEF BlocksConsumed, AES_BLOCK_SIZE
<1>. QED BY <1>1, <1>4, <1>5, Zenon

\* FinishSample: the sample in progress becomes the last finished one,
\* with the IV and positions it was encrypted under, and the IV moves on
\* by the blocks it consumed.  The new sample in progress starts at the
\* place after them, which no place before reaches.
LEMMA FinishSampleSInv ==
  ASSUME NEW cb, CipherBound(cb), SInv(cb), FinishSample
  PROVE  SInv(cb)'
<1>0. PICK n \in Nat : n = Len(configs)
  BY LenProperties DEF SInv, TypeInv
<1>. USE <1>0
<1>. DEFINE b == BlocksConsumed(Len(keystream))
            ent == IF pending_clear > 0
                   THEN Append(subsamples, SubsampleEntry(pending_clear, 0))
                   ELSE subsamples
            e == [config |-> DecryptConfig(KeyId, key_iv, ent),
                  nals |-> nals, positions |-> keystream]
            F == Ix(IvOf(1))
<1>1. /\ cipher_left = 0 /\ nals # <<>> /\ key_iv # <<>>
      /\ configs' = Append(configs, e)
      /\ key_iv' = AddToIv(key_iv, b)
      /\ keystream' = <<>> /\ nals' = <<>> /\ cipher_left' = cipher_left
      /\ subsamples' = <<>> /\ pending_clear' = 0
  BY KeystreamHelpers DEF FinishSample, Keystream!NextSample
<1>2. /\ TypeInv /\ Chain
      /\ n \in Nat /\ n < MaxSamples /\ MaxSamples \in Nat
  BY <1>1, LenProperties, SampleEncryptorAssumption DEF SInv, TypeInv
<1>3. key_iv \in Iv /\ b \in 0..255
  BY <1>1, <1>2, SampleFitsIv DEF TypeInv
<1>. HIDE DEF b
<1>4. /\ key_iv' \in Iv
      /\ Len(key_iv') = Len(key_iv)
      /\ key_iv' # <<>>
      /\ Ix(key_iv') = (Ix(key_iv) + b) % Two64
  <2>0. b \in Nat /\ key_iv \in [1..8 -> Byte] \cup Block
    <3>1. b \in Nat
      BY <1>3
    <3>2. key_iv \in [1..8 -> Byte] \cup Block
      BY <1>3, Zenon DEF Iv
    <3>. QED BY <3>1, <3>2
  <2>1. AddToIv(key_iv, b) \in Iv /\ Len(AddToIv(key_iv, b)) = Len(key_iv)
    BY <2>0, AddToIvLen, Zenon DEF Iv
  <2>2. IndexOf(Pad16(AddToIv(key_iv, b)), Len(key_iv))
          = (IndexOf(Pad16(key_iv), Len(key_iv)) + b) % Two64
    BY <1>3, <2>0, AddToIvIndex, Zenon
  <2>. QED BY <1>1, <2>1, <2>2, IvLen DEF Ix
<1>5. e \in ConfigRec
  <2>1. ent \in Seq(Entry)
    <3>1. subsamples \in Seq(Entry) /\ pending_clear \in Nat
      BY <1>2 DEF TypeInv
    <3>2. SubsampleEntry(pending_clear, 0) \in Entry
      BY <3>1, EntryIn
    <3>. QED BY <3>1, <3>2, AppendProperties
  <2>. HIDE DEF ent
  <2>2. DecryptConfig(KeyId, key_iv, ent)
          \in {DecryptConfig(KeyId, v, es) : v \in Iv, es \in Seq(Entry)}
    <3>1. \E v \in Iv, es \in Seq(Entry) :
            DecryptConfig(KeyId, key_iv, ent) = DecryptConfig(KeyId, v, es)
      BY <1>3, <2>1
    <3>. QED BY <3>1
  <2>3. nals \in Seq(Nals) /\ keystream \in Seq(Position)
    BY <1>2 DEF TypeInv
  <2>. QED BY <2>2, <2>3 DEF ConfigRec
<1>6. /\ configs' \in Seq(ConfigRec)
      /\ Len(configs') = n + 1
      /\ \A i \in 1..n : configs'[i] = configs[i]
      /\ configs'[n + 1] = e
  BY <1>1, <1>2, <1>5, AppendProperties DEF TypeInv
<1>7. TypeInv'
  BY <1>1, <1>2, <1>4, <1>6, EmptySeq DEF TypeInv
\* The samples up to the one just finished keep their IVs and positions.
<1>8. /\ \A i \in 1..(n + 1) : IvOf(i)' = IvOf(i)
      /\ \A i \in 1..(n + 1) : SampleKeystreams'[i] = SampleKeystreams[i]
      /\ IvOf(n + 2)' = key_iv'
      /\ SampleKeystreams'[n + 2] = <<>>
      /\ IvOf(n + 1) = key_iv
      /\ SampleKeystreams[n + 1] = keystream
  <2>1. e.config.iv = key_iv /\ e.positions = keystream
    BY DEF DecryptConfig
  <2>. HIDE DEF e
  <2>2. \A i \in 1..n : IvOf(i)' = IvOf(i) /\ SampleKeystreams'[i] = SampleKeystreams[i]
    BY <1>2, <1>6 DEF IvOf, SampleKeystreams
  <2>3. IvOf(n + 1)' = key_iv /\ SampleKeystreams'[n + 1] = keystream
    <3>1. IvOf(n + 1)' = configs'[n + 1].config.iv
      BY <1>2, <1>6 DEF IvOf
    <3>2. SampleKeystreams'[n + 1] = configs'[n + 1].positions
      BY <1>2, <1>6 DEF SampleKeystreams
    <3>. QED BY <1>6, <2>1, <3>1, <3>2, Zenon
  <2>4. IvOf(n + 1) = key_iv /\ SampleKeystreams[n + 1] = keystream
    BY <1>2 DEF IvOf, SampleKeystreams
  <2>5. IvOf(n + 2)' = key_iv' /\ SampleKeystreams'[n + 2] = <<>>
    BY <1>1, <1>2, <1>6 DEF IvOf, SampleKeystreams
  <2>. QED BY <1>2, <2>2, <2>3, <2>4, <2>5
<1>9. \A i \in 1..(n + 1) : Blk(i)' = Blk(i)
  BY <1>8 DEF Blk
<1>10. Blk(n + 1) = b /\ Blk(n + 2)' = 0
  <2>1. Blk(n + 1) = b
    BY <1>8 DEF Blk, b
  <2>2. Blk(n + 2)' = BlocksConsumed(0)
    <3>1. Blk(n + 2)' = BlocksConsumed(Len(SampleKeystreams'[n + 2]))
      BY DEF Blk
    <3>2. Len(SampleKeystreams'[n + 2]) = 0
      BY <1>8, EmptySeq
    <3>. QED BY <3>1, <3>2, Zenon
  <2>3. BlocksConsumed(0) = 0
    BY DEF BlocksConsumed, AES_BLOCK_SIZE
  <2>. QED BY <2>1, <2>2, <2>3
<1>11. F' = F /\ F \in 0..(Two64 - 1)
  <2>1. IvOf(1)' = IvOf(1)
    BY <1>2, <1>8
  <2>2. IvOf(1) \in Iv
    BY <1>1, <1>2, IvOfIv
  <2>. QED BY <2>1, <2>2, IxBound
<1>12. \A i \in 1..(n + 1) : Rel(IvOf(i))' = Rel(IvOf(i))
  BY <1>8, <1>11 DEF Rel
<1>13. /\ Rel(key_iv) <= 255 * n
       /\ Rel(key_iv) \in Nat
       /\ Rel(key_iv)' = Rel(key_iv) + b
  <2>1. Rel(key_iv) <= 255 * n /\ Rel(key_iv) \in 0..(Two64 - 1)
    <3>1. Rel(key_iv) <= 255 * n
      BY <1>2 DEF Chain
    <3>2. n + 1 \in 1..(Len(configs) + 1)
      OBVIOUS
    <3>3. Rel(IvOf(n + 1)) \in 0..(Two64 - 1)
      BY <1>1, <1>2, <3>2, RelBlkNat
    <3>. QED BY <1>8, <3>1, <3>3
  <2>2. Ix(key_iv) \in 0..(Two64 - 1)
    BY <1>3, IxBound
  <2>3. Rel(key_iv)' = (((Ix(key_iv) + b) % Two64) - F) % Two64
    BY <1>4, <1>11 DEF Rel
  <2>4. (((Ix(key_iv) + b) % Two64) - F) % Two64 = (Rel(key_iv) + b) % Two64
    <3>1. (((Ix(key_iv) + b) % Two64) - F) % Two64
            = (((Ix(key_iv) - F) % Two64) + b) % Two64
      <4>1. Ix(key_iv) \in Int /\ F \in Int /\ b \in Int
        BY <1>3, <1>11, <2>2
      <4>. QED BY <4>1, ModShift, Zenon
    <3>. QED BY <3>1, Zenon DEF Rel
  <2>5. Rel(key_iv) + b \in 0..(Two64 - 1)
    <3>1. MaxSamples * 255 < Two64
      BY DEF CipherBound
    <3>2. 255 * n + 255 <= MaxSamples * 255
      BY <1>2
    <3>. QED BY <1>2, <1>3, <2>1, <3>1, <3>2 DEF Two64
  <2>6. (Rel(key_iv) + b) % Two64 = Rel(key_iv) + b
    BY <2>5, ModSmall, Zenon
  <2>7. Rel(key_iv) \in Nat
    BY <2>1
  <2>8. Rel(key_iv)' = Rel(key_iv) + b
    BY <2>3, <2>4, <2>6, Zenon
  <2>. QED BY <2>1, <2>7, <2>8
<1>13a. Rel(key_iv) \in Nat /\ b \in Nat
  BY <1>3, <1>13
<1>14. Chain'
  <2>1. \A i \in 1..(n + 2) :
          Len(IvOf(i)') = Len(key_iv') /\ OnStream(SampleKeystreams'[i], IvOf(i)')
    <3>. TAKE i \in 1..(n + 2)
    <3>1. CASE i <= n + 1
      <4>1. IvOf(i)' = IvOf(i) /\ SampleKeystreams'[i] = SampleKeystreams[i]
        BY <1>8, <3>1
      <4>2. Len(IvOf(i)) = Len(key_iv) /\ OnStream(SampleKeystreams[i], IvOf(i))
        BY <1>2, <3>1 DEF Chain
      <4>. QED BY <1>4, <4>1, <4>2, Zenon
    <3>2. CASE i = n + 2
      BY <1>8, <3>2, EmptySeq DEF OnStream
    <3>. QED BY <1>2, <3>1, <3>2
  <2>2. \A i, j \in 1..(n + 2) :
          i < j => Rel(IvOf(i))' + Blk(i)' <= Rel(IvOf(j))'
    <3>. TAKE i, j \in 1..(n + 2)
    <3>. HAVE i < j
    <3>1. i \in 1..(n + 1)
      BY <1>2
    <3>2. Rel(IvOf(i))' + Blk(i)' = Rel(IvOf(i)) + Blk(i)
      BY <3>1, <1>9, <1>12
    <3>3. CASE j <= n + 1
      <4>1. Rel(IvOf(j))' = Rel(IvOf(j))
        BY <1>12, <3>3
      <4>. QED BY <1>2, <3>2, <3>3, <4>1 DEF Chain
    <3>4. CASE j = n + 2
      <4>1. Rel(IvOf(j))' = Rel(key_iv) + b
        BY <1>8, <1>13, <3>4
      <4>2. Rel(IvOf(i)) + Blk(i) <= Rel(key_iv) + b
        <5>1. CASE i = n + 1
          <6>1. Rel(IvOf(i)) + Blk(i) = Rel(key_iv) + b
            BY <1>8, <1>10, <5>1, Zenon
          <6>. QED BY <1>13a, <6>1
        <5>2. CASE i < n + 1
          <6>1. Rel(IvOf(i)) + Blk(i) <= Rel(IvOf(n + 1))
            BY <1>2, <3>1, <5>2 DEF Chain
          <6>2. Rel(IvOf(i)) \in Nat /\ Blk(i) \in Nat
            BY <1>1, <1>2, <3>1, RelBlkNat
          <6>3. Rel(IvOf(n + 1)) = Rel(key_iv)
            BY <1>8, Zenon
          <6>. QED BY <1>13a, <6>1, <6>2, <6>3
        <5>. QED BY <3>1, <5>1, <5>2
      <4>. QED BY <3>2, <4>1, <4>2
    <3>. QED BY <1>2, <3>3, <3>4
  <2>3. Rel(key_iv)' <= 255 * Len(configs')
    BY <1>3, <1>6, <1>13
  <2>. QED BY <1>6, <2>1, <2>2, <2>3 DEF Chain
<1>15. /\ Len(nals') <= MaxNals
       /\ Len(keystream') + cipher_left' <= Len(nals') * cb
       /\ Len(configs') <= MaxSamples
       /\ nals' = <<>>
  BY <1>1, <1>2, <1>6, EmptySeq, SampleEncryptorAssumption DEF CipherBound
<1>. QED BY <1>4, <1>7, <1>14, <1>15 DEF SInv

\* No step of the encryptor, nor a stuttering step, breaks SInv.
LEMMA NextSInv ==
  ASSUME NEW cb, CipherBound(cb), SInv(cb), [Next]_vars
  PROVE  SInv(cb)'
<1>1. CASE StartTrack
  BY <1>1, StartTrackSInv
<1>2. CASE AddNal
  BY <1>2, AddNalSInv
<1>3. CASE EncryptCipherByte
  BY <1>3, EncryptCipherByteSInv
<1>4. CASE FinishSample
  BY <1>4, FinishSampleSInv
<1>5. CASE UNCHANGED vars
  BY <1>5 DEF vars, SInv, TypeInv, Chain, IvOf, Rel, Blk, SampleKeystreams
<1>. QED BY <1>1, <1>2, <1>3, <1>4, <1>5 DEF Next

\* The block at the k-th position of a stream of L positions lies within
\* the BlocksConsumed(L) blocks the stream consumed.
LEMMA BlockWithin ==
  ASSUME NEW L \in Nat, NEW k \in 1..L
  PROVE  (k - 1) \div AES_BLOCK_SIZE \in Nat
         /\ (k - 1) \div AES_BLOCK_SIZE < BlocksConsumed(L)
BY DEF BlocksConsumed, AES_BLOCK_SIZE

\* A sample and a later one share no block.
LEMMA OrderedDisjoint ==
  ASSUME NEW cb, CipherBound(cb), SInv(cb), key_iv # <<>>,
         NEW i \in 1..(Len(configs) + 1), NEW j \in 1..(Len(configs) + 1),
         i < j
  PROVE  BlocksOf(SampleKeystreams[i]) \cap BlocksOf(SampleKeystreams[j]) = {}
<1>0. PICK n \in Nat : n = Len(configs)
  BY LenProperties DEF SInv, TypeInv
<1>1. TypeInv /\ Chain
  BY DEF SInv
<1>. DEFINE si == SampleKeystreams[i]
            sj == SampleKeystreams[j]
<1>2. SUFFICES ASSUME NEW x \in BlocksOf(si) \cap BlocksOf(sj)
               PROVE  FALSE
  OBVIOUS
<1>3. PICK k \in 1..Len(si) : x = si[k][1]
  BY <1>2 DEF BlocksOf
<1>4. PICK l \in 1..Len(sj) : x = sj[l][1]
  BY <1>2 DEF BlocksOf
<1>5. si \in Seq(Position) /\ sj \in Seq(Position)
  BY <1>1, SkSeq
<1>6. /\ Len(IvOf(i)) = Len(key_iv) /\ OnStream(si, IvOf(i))
      /\ Len(IvOf(j)) = Len(key_iv) /\ OnStream(sj, IvOf(j))
      /\ Rel(IvOf(i)) + Blk(i) <= Rel(IvOf(j))
  BY <1>1 DEF Chain
<1>. DEFINE kk == (k - 1) \div AES_BLOCK_SIZE
            ll == (l - 1) \div AES_BLOCK_SIZE
<1>7. IndexOf(x, Len(key_iv)) = (Ix(IvOf(i)) + kk) % Two64
  BY <1>3, <1>6 DEF OnStream
<1>8. IndexOf(x, Len(key_iv)) = (Ix(IvOf(j)) + ll) % Two64
  BY <1>4, <1>6 DEF OnStream
<1>9. kk \in Nat /\ kk < Blk(i) /\ ll \in Nat /\ ll < Blk(j)
  <2>1. Len(si) \in Nat /\ Len(sj) \in Nat
    BY <1>5, LenProperties
  <2>. QED BY <2>1, BlockWithin DEF Blk
<1>. HIDE DEF kk, ll
<1>10. /\ Rel(IvOf(i)) \in 0..(Two64 - 1) /\ Blk(i) \in Nat
       /\ Rel(IvOf(j)) \in 0..(Two64 - 1) /\ Blk(j) \in Nat
  BY <1>1, RelBlkNat
<1>11. /\ Ix(IvOf(i)) \in Int /\ Ix(IvOf(j)) \in Int /\ Ix(IvOf(1)) \in Int
  <2>1. 1 \in 1..(Len(configs) + 1)
    OBVIOUS
  <2>. QED BY <1>1, <2>1, IvOfIv, IxBound
\* The later sample ends below 2^64 blocks from the track's first block.
<1>12. Rel(IvOf(j)) + Blk(j) < Two64
  <2>1. MaxSamples \in Nat /\ MaxSamples * 255 < Two64
    BY SampleEncryptorAssumption DEF CipherBound
  <2>2. Rel(key_iv) <= 255 * n /\ IvOf(n + 1) = key_iv
    BY <1>0, <1>1 DEF Chain, IvOf
  <2>5. Rel(key_iv) \in Nat
    <3>1. Rel(IvOf(n + 1)) \in 0..(Two64 - 1)
      BY <1>0, <1>1, RelBlkNat
    <3>2. Rel(IvOf(n + 1)) = Rel(key_iv)
      BY <2>2, Zenon
    <3>. QED BY <3>1, <3>2
  <2>3. CASE j <= n
    <3>1. Rel(IvOf(j)) + Blk(j) <= Rel(IvOf(n + 1))
      BY <1>0, <1>1, <2>3 DEF Chain
    <3>2. n <= MaxSamples
      BY <1>0 DEF SInv
    <3>3. Rel(IvOf(n + 1)) = Rel(key_iv)
      BY <2>2, Zenon
    <3>. QED BY <1>10, <2>1, <2>2, <2>5, <3>1, <3>2, <3>3 DEF Two64
  <2>4. CASE j = n + 1
    <3>1. sj = keystream /\ keystream # <<>>
      <4>1. sj = keystream
        BY <1>0, <2>4 DEF SampleKeystreams
      <4>2. Len(keystream) > 0
        BY <1>4, <4>1
      <4>. QED BY <4>1, <4>2
    <3>2. nals # <<>>
      <4>1. Len(keystream) + cipher_left <= Len(nals) * cb
            /\ cipher_left \in Nat /\ cb \in Nat
        BY DEF SInv, TypeInv, CipherBound
      <4>2. Len(keystream) \in Nat /\ Len(keystream) # 0
        BY <3>1, <1>1, LenProperties, EmptySeq DEF TypeInv
      <4>. QED BY <4>1, <4>2, EmptySeq
    <3>3. n < MaxSamples
      BY <1>0, <3>2 DEF SInv
    <3>4. Blk(j) \in 0..255
      BY <3>1, SampleFitsIv DEF Blk
    <3>5. Rel(IvOf(j)) = Rel(key_iv)
      BY <2>2, <2>4, <1>0, Zenon
    <3>6. \A r \in Nat, bb \in 0..255, m \in Nat, ms \in Nat :
            r <= 255 * m /\ m < ms /\ ms * 255 < Two64 => r + bb < Two64
      BY DEF Two64
    <3>7. Rel(key_iv) + Blk(j) < Two64
      BY <2>1, <2>2, <2>5, <3>3, <3>4, <3>6, Zenon
    <3>. QED BY <3>5, <3>7, Zenon
  <2>. QED BY <1>0, <2>3, <2>4
<1>. QED
  <2>1. (Ix(IvOf(i)) + kk) % Two64 # (Ix(IvOf(j)) + ll) % Two64
    <3>. DEFINE xi == Ix(IvOf(i))
                xj == Ix(IvOf(j))
                f == Ix(IvOf(1))
                ri == Rel(IvOf(i))
                rj == Rel(IvOf(j))
                bi == Blk(i)
    <3>1. ri = (xi - f) % Two64 /\ rj = (xj - f) % Two64
      BY DEF Rel
    <3>2. ri \in Nat /\ rj \in Nat /\ bi \in Nat
      BY <1>10
    <3>3. rj + ll < Two64
      BY <1>9, <1>10, <1>12 DEF Two64
    <3>4. xi \in Int /\ xj \in Int /\ f \in Int
      BY <1>11
    <3>5. kk \in Nat /\ ll \in Nat /\ kk < bi /\ ri + bi <= rj
      BY <1>6, <1>9
    <3>. HIDE DEF xi, xj, f, ri, rj, bi
    <3>6. (xi + kk) % Two64 # (xj + ll) % Two64
      BY <3>1, <3>2, <3>3, <3>4, <3>5, NoWrapDistinct, Zenon
    <3>. QED BY <3>6 DEF xi, xj
  <2>. QED BY <1>7, <1>8, <2>1

\* SInv implies that no two samples share a block.
LEMMA SInvDisjoint ==
  ASSUME NEW cb, CipherBound(cb), SInv(cb)
  PROVE  SamplesUseDisjointKeystream
<1>1. DOMAIN SampleKeystreams = 1..(Len(configs) + 1)
  BY DEF SampleKeystreams
<1>. SUFFICES ASSUME NEW i \in 1..(Len(configs) + 1),
                    NEW j \in 1..(Len(configs) + 1), i # j
             PROVE  BlocksOf(SampleKeystreams[i])
                      \cap BlocksOf(SampleKeystreams[j]) = {}
  BY <1>1 DEF SamplesUseDisjointKeystream
<1>2. key_iv # <<>>
  <2>1. Len(configs) \in Nat
    BY LenProperties DEF SInv, TypeInv
  <2>. QED BY <2>1, EmptySeq DEF SInv
<1>3. CASE i < j
  BY <1>2, <1>3, OrderedDisjoint
<1>4. CASE j < i
  <2>1. BlocksOf(SampleKeystreams[j]) \cap BlocksOf(SampleKeystreams[i]) = {}
    BY <1>2, <1>4, OrderedDisjoint
  <2>. QED BY <2>1
<1>. QED BY <1>3, <1>4

\* Spec 4.3 and 8.8 across samples, for every track whose samples fit in
\* the IV arithmetic: the per-sample IV update of the encryptor (UpdateIv
\* after each sample) never lets two samples of a track, the one being
\* encrypted included, use the same counter block.
THEOREM SamplesNoReuse ==
  ASSUME NEW cb, CipherBound(cb)
  PROVE  Spec => []SamplesUseDisjointKeystream
<1>1. Init => SInv(cb)
  BY InitSInv
<1>2. SInv(cb) /\ [Next]_vars => SInv(cb)'
  BY NextSInv
<1>3. SInv(cb) => SamplesUseDisjointKeystream
  BY SInvDisjoint
<1>. QED BY <1>1, <1>2, <1>3, PTL DEF Spec

=============================================================================

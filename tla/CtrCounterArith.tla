---------------------------- MODULE CtrCounterArith ----------------------------
(***************************************************************************)
(* Facts about the helpers of AesCommon (aes_encryptor.cc), for every     *)
(* input: the byte sequences they build, and their arithmetic read as     *)
(* numbers.  W(c, s) is the big-endian value of the 8 bytes c[s..s+7];    *)
(* Increment64 adds 1 to the low half W(c, 9) of a counter block modulo   *)
(* 2^64, and AddToIv adds m < 256 to the last 8 bytes of an IV modulo     *)
(* 2^64.  IndexOf reads a counter block as its place in the blocks        *)
(* encrypted from an IV, and NextIvIndex and AddToIvIndex say that the IV *)
(* update per sample moves that place on by the blocks of the sample.     *)
(* AesCtrNoReuse (one encryptor) and SampleEncryptorNoReuse (the samples  *)
(* of a track) both rest on them.                                         *)
(*                                                                         *)
(* 2^64 is written out as a numeral: the provers do not evaluate ^.        *)
(***************************************************************************)
EXTENDS AesCommon, SequenceTheorems, TLAPS

(***************************************************************************)
(* Byte sequences.                                                         *)
(***************************************************************************)

\* The byte arithmetic of Increment64 and AddToIv stays within a byte.
LEMMA ByteSucc ==
  ASSUME NEW x \in Byte
  PROVE  (x + 1) % 256 \in Byte
BY DEF Byte

LEMMA Increment64Type ==
  ASSUME NEW c \in Block
  PROVE  Increment64(c) \in Block
<1>1. \A j \in 1..AES_BLOCK_SIZE : Increment64(c)[j] \in Byte
  <2>. TAKE j \in 1..AES_BLOCK_SIZE
  <2>1. c[j] \in Byte
    BY DEF Block
  <2>2. (c[j] + 1) % 256 \in Byte
    BY <2>1, ByteSucc
  <2>. QED BY <2>1, <2>2 DEF Increment64
<1>. QED BY <1>1, Zenon DEF Increment64, Block

\* A function on 1..n is a sequence of length n.
LEMMA FnIsSeq ==
  ASSUME NEW S, NEW n \in Nat, NEW f \in [1..n -> S]
  PROVE  f \in Seq(S) /\ Len(f) = n
<1>1. f \in Seq(S)
  BY SeqDef
<1>. QED BY <1>1, LenProperties

\* An 8-byte IV and a counter block are byte sequences of their length.
LEMMA IvLen8 ==
  ASSUME NEW f \in [1..8 -> Byte]
  PROVE  f \in Seq(Byte) /\ Len(f) = 8
<1>1. \A n \in Nat : \A g \in [1..n -> Byte] : g \in Seq(Byte) /\ Len(g) = n
  BY FnIsSeq
<1>2. 8 \in Nat
  OBVIOUS
<1>. QED BY <1>1, <1>2, Zenon

LEMMA BlockLen ==
  ASSUME NEW f \in Block
  PROVE  f \in Seq(Byte) /\ Len(f) = 16
<1>1. f \in [1..16 -> Byte]
  BY DEF Block, AES_BLOCK_SIZE
<1>2. \A n \in Nat : \A g \in [1..n -> Byte] : g \in Seq(Byte) /\ Len(g) = n
  BY FnIsSeq
<1>3. 16 \in Nat
  OBVIOUS
<1>. QED BY <1>1, <1>2, <1>3, Zenon

\* Two sequences over S whose lengths add up to n concatenate to a
\* function on 1..n.
LEMMA ConcatFn ==
  ASSUME NEW S, NEW a \in Seq(S), NEW b \in Seq(S), NEW n \in Nat,
         Len(a) + Len(b) = n
  PROVE  a \o b \in [1..n -> S]
<1>1. a \o b \in Seq(S) /\ Len(a \o b) = n
  BY ConcatProperties
<1>. QED BY <1>1, LenProperties, Zenon

\* A sequence over S of length at most 16, padded with an element of S,
\* is a 16-element function into S.
LEMMA PadType ==
  ASSUME NEW S, NEW v \in Seq(S), NEW z \in S, Len(v) <= AES_BLOCK_SIZE
  PROVE  v \o [j \in 1..(AES_BLOCK_SIZE - Len(v)) |-> z]
           \in [1..AES_BLOCK_SIZE -> S]
<1>1. AES_BLOCK_SIZE - Len(v) \in Nat
  BY DEF AES_BLOCK_SIZE
<1>2. [j \in 1..(AES_BLOCK_SIZE - Len(v)) |-> z]
        \in [1..(AES_BLOCK_SIZE - Len(v)) -> S]
  OBVIOUS
<1>3. [j \in 1..(AES_BLOCK_SIZE - Len(v)) |-> z] \in Seq(S)
      /\ Len([j \in 1..(AES_BLOCK_SIZE - Len(v)) |-> z])
           = AES_BLOCK_SIZE - Len(v)
  BY <1>1, <1>2, FnIsSeq
<1>4. AES_BLOCK_SIZE \in Nat
      /\ Len(v) + Len([j \in 1..(AES_BLOCK_SIZE - Len(v)) |-> z])
           = AES_BLOCK_SIZE
  BY <1>3 DEF AES_BLOCK_SIZE
<1>. QED BY <1>3, <1>4, ConcatFn, Zenon

LEMMA Pad16Type ==
  ASSUME NEW v \in [1..8 -> Byte] \cup Block
  PROVE  Pad16(v) \in Block
<1>1. v \in Seq(Byte) /\ Len(v) <= AES_BLOCK_SIZE
  <2>1. CASE v \in [1..8 -> Byte]
    <3>1. v \in Seq(Byte) /\ Len(v) = 8
      BY <2>1, IvLen8
    <3>. QED BY <3>1 DEF AES_BLOCK_SIZE
  <2>2. CASE v \in Block
    <3>1. v \in Seq(Byte) /\ Len(v) = 16
      BY <2>2, BlockLen
    <3>. QED BY <3>1 DEF AES_BLOCK_SIZE
  <2>. QED BY <2>1, <2>2
<1>2. 0 \in Byte
  BY DEF Byte
<1>. QED BY <1>1, <1>2, PadType, Zenon DEF Pad16, Block

\* The last element of a non-empty sequence over S is in S.
LEMMA LastOfSeq ==
  ASSUME NEW S, NEW s \in Seq(S), s # <<>>
  PROVE  s[Len(s)] \in S
<1>1. Len(s) \in 1..Len(s)
  BY EmptySeq, LenProperties
<1>. QED BY <1>1, ElementOfSeq, Zenon

LEMMA ByteMod ==
  ASSUME NEW x \in Nat
  PROVE  x % 256 \in Byte
BY DEF Byte

LEMMA ByteAddNat ==
  ASSUME NEW x \in Byte, NEW m \in Nat
  PROVE  x + m \in Nat
BY DEF Byte

LEMMA AddToIvType ==
  ASSUME NEW L \in {8, 16}, NEW v \in [1..L -> Byte], NEW m \in Nat
  PROVE  AddToIv(v, m) \in [1..L -> Byte]
<1>1. Len(v) = L
  <2>1. L \in Nat
    OBVIOUS
  <2>. QED BY <2>1, FnIsSeq, Zenon
<1>2. \A j \in 1..L : AddToIv(v, m)[j] \in Byte
  <2>. TAKE j \in 1..L
  <2>1. v[j] \in Byte /\ v[L] \in Byte
    OBVIOUS
  <2>2. (v[L] + m) % 256 \in Byte
    <3>1. v[L] + m \in Nat
      BY <2>1, ByteAddNat, Zenon
    <3>. QED BY <3>1, ByteMod
  <2>3. (v[j] + 1) % 256 \in Byte
    BY <2>1, ByteSucc
  <2>4. CASE j = L
    <3>1. AddToIv(v, m)[j] = (v[L] + m) % 256
      BY <1>1, <2>4 DEF AddToIv
    <3>. QED BY <2>2, <3>1
  <2>5. CASE j # L
    <3>1. AddToIv(v, m)[j] \in {(v[j] + 1) % 256, v[j]}
      BY <1>1, <2>5 DEF AddToIv
    <3>. QED BY <2>1, <2>3, <3>1
  <2>. QED BY <2>4, <2>5
<1>. QED BY <1>1, <1>2, Zenon DEF AddToIv

\* Increment64 leaves bytes 0-7 (positions 1..8) of a counter block alone.
LEMMA Increment64Prefix ==
  ASSUME NEW c \in Block
  PROVE  \A j \in 1..8 : Increment64(c)[j] = c[j]
BY DEF Increment64, Block, AES_BLOCK_SIZE

Two64 == 18446744073709551616

\* Eight bytes read as a big-endian number.
N8(a0, a1, a2, a3, a4, a5, a6, a7) ==
  ((((((a0 * 256 + a1) * 256 + a2) * 256 + a3) * 256 + a4) * 256 + a5)
     * 256 + a6) * 256 + a7

\* The bytes s..s+7 of c as a number.
W(c, s) == N8(c[s], c[s + 1], c[s + 2], c[s + 3],
              c[s + 4], c[s + 5], c[s + 6], c[s + 7])

\* The carry out of the last byte when m is added to it, and a byte that
\* is incremented (modulo 256) when a carry reaches it.
Carry(x, m) == (x + m) \div 256
IncIf(x, carried) == IF carried THEN (x + 1) % 256 ELSE x

\* Adding m < 256 to the big-endian number x0..x7 byte by byte, the carry
\* out of the last byte rippling through the 255s before it, adds m
\* modulo 2^64.
AddsUp(x0, x1, x2, x3, x4, x5, x6, x7, m) ==
  LET cy == Carry(x7, m) = 1
  IN  N8(IncIf(x0, cy /\ x1 = 255 /\ x2 = 255 /\ x3 = 255 /\ x4 = 255
                    /\ x5 = 255 /\ x6 = 255),
         IncIf(x1, cy /\ x2 = 255 /\ x3 = 255 /\ x4 = 255 /\ x5 = 255
                    /\ x6 = 255),
         IncIf(x2, cy /\ x3 = 255 /\ x4 = 255 /\ x5 = 255 /\ x6 = 255),
         IncIf(x3, cy /\ x4 = 255 /\ x5 = 255 /\ x6 = 255),
         IncIf(x4, cy /\ x5 = 255 /\ x6 = 255),
         IncIf(x5, cy /\ x6 = 255),
         IncIf(x6, cy),
         (x7 + m) % 256)
      = (N8(x0, x1, x2, x3, x4, x5, x6, x7) + m) % Two64

(***************************************************************************)
(* Lemmas on the counter arithmetic.                                       *)
(***************************************************************************)

LEMMA Add8 ==
  ASSUME NEW x0 \in Byte, NEW x1 \in Byte, NEW x2 \in Byte, NEW x3 \in Byte,
         NEW x4 \in Byte, NEW x5 \in Byte, NEW x6 \in Byte, NEW x7 \in Byte,
         NEW m \in 0..255
  PROVE  AddsUp(x0, x1, x2, x3, x4, x5, x6, x7, m)
<1>. USE DEF AddsUp
<1>. DEFINE cy == Carry(x7, m)
<1>0. cy \in {0, 1}
  BY SMT DEF Carry, Byte
<1>1. CASE cy = 0
  <2>1. x7 + m < 256 /\ (x7 + m) % 256 = x7 + m
    BY <1>1, SMTT(30) DEF Carry, Byte
  <2>2. N8(x0, x1, x2, x3, x4, x5, x6, x7) + m < Two64
    BY <2>1, SMTT(30) DEF N8, Byte, Two64
  <2>. QED BY <1>1, <2>1, <2>2, SMTT(30) DEF N8, IncIf, Byte, Two64
\* The carry stops at the last byte before the end that is not 255.
<1>2. CASE cy = 1 /\ x6 # 255
  BY <1>2, SMTT(30) DEF N8, IncIf, Carry, Byte, Two64
<1>3. CASE cy = 1 /\ x6 = 255 /\ x5 # 255
  BY <1>3, SMTT(30) DEF N8, IncIf, Carry, Byte, Two64
<1>4. CASE cy = 1 /\ x6 = 255 /\ x5 = 255 /\ x4 # 255
  BY <1>4, SMTT(30) DEF N8, IncIf, Carry, Byte, Two64
<1>5. CASE cy = 1 /\ x6 = 255 /\ x5 = 255 /\ x4 = 255 /\ x3 # 255
  BY <1>5, SMTT(30) DEF N8, IncIf, Carry, Byte, Two64
<1>6. CASE cy = 1 /\ x6 = 255 /\ x5 = 255 /\ x4 = 255 /\ x3 = 255
           /\ x2 # 255
  BY <1>6, SMTT(30) DEF N8, IncIf, Carry, Byte, Two64
<1>7. CASE cy = 1 /\ x6 = 255 /\ x5 = 255 /\ x4 = 255 /\ x3 = 255
           /\ x2 = 255 /\ x1 # 255
  BY <1>7, SMTT(30) DEF N8, IncIf, Carry, Byte, Two64
<1>8. CASE cy = 1 /\ x6 = 255 /\ x5 = 255 /\ x4 = 255 /\ x3 = 255
           /\ x2 = 255 /\ x1 = 255 /\ x0 # 255
  BY <1>8, SMTT(30) DEF N8, IncIf, Carry, Byte, Two64
\* Every byte wraps: the sum overflows 2^64.
<1>9. CASE cy = 1 /\ x6 = 255 /\ x5 = 255 /\ x4 = 255 /\ x3 = 255
           /\ x2 = 255 /\ x1 = 255 /\ x0 = 255
  BY <1>9, SMTT(30) DEF N8, IncIf, Carry, Byte, Two64
<1>. QED BY <1>0, <1>1, <1>2, <1>3, <1>4, <1>5, <1>6, <1>7, <1>8, <1>9

\* AddToIv on a 16-byte IV adds m to its low half modulo 2^64.
LEMMA AddToIvLow ==
  ASSUME NEW v \in Block, NEW m \in 0..255
  PROVE  W(AddToIv(v, m), 9) = (W(v, 9) + m) % Two64
<1>1. /\ v[9] \in Byte /\ v[10] \in Byte /\ v[11] \in Byte /\ v[12] \in Byte
      /\ v[13] \in Byte /\ v[14] \in Byte /\ v[15] \in Byte /\ v[16] \in Byte
  BY DEF Block, AES_BLOCK_SIZE
<1>2. AddsUp(v[9], v[10], v[11], v[12], v[13], v[14], v[15], v[16], m)
  BY <1>1, Add8, ZenonT(30)
<1>3. /\ W(v, 9) = N8(v[9], v[10], v[11], v[12], v[13], v[14], v[15], v[16])
      /\ W(AddToIv(v, m), 9)
           = N8(AddToIv(v, m)[9], AddToIv(v, m)[10], AddToIv(v, m)[11],
                AddToIv(v, m)[12], AddToIv(v, m)[13], AddToIv(v, m)[14],
                AddToIv(v, m)[15], AddToIv(v, m)[16])
  BY DEF W
<1>4. LET cy == Carry(v[16], m) = 1
      IN  /\ AddToIv(v, m)[9] = IncIf(v[9], cy /\ v[10] = 255 /\ v[11] = 255
                                    /\ v[12] = 255 /\ v[13] = 255
                                    /\ v[14] = 255 /\ v[15] = 255)
          /\ AddToIv(v, m)[10] = IncIf(v[10], cy /\ v[11] = 255 /\ v[12] = 255
                                      /\ v[13] = 255 /\ v[14] = 255
                                      /\ v[15] = 255)
          /\ AddToIv(v, m)[11] = IncIf(v[11], cy /\ v[12] = 255 /\ v[13] = 255
                                      /\ v[14] = 255 /\ v[15] = 255)
          /\ AddToIv(v, m)[12] = IncIf(v[12], cy /\ v[13] = 255 /\ v[14] = 255
                                      /\ v[15] = 255)
          /\ AddToIv(v, m)[13] = IncIf(v[13], cy /\ v[14] = 255 /\ v[15] = 255)
          /\ AddToIv(v, m)[14] = IncIf(v[14], cy /\ v[15] = 255)
          /\ AddToIv(v, m)[15] = IncIf(v[15], cy)
          /\ AddToIv(v, m)[16] = (v[16] + m) % 256
  <2>1. Len(v) = 16
    BY BlockLen
  <2>. QED BY <2>1 DEF AddToIv, IncIf, Carry
<1>. HIDE DEF N8, IncIf, Carry, Two64, AddToIv
<1>. QED BY <1>2, <1>3, <1>4 DEF AddsUp

\* AddToIv on an 8-byte IV adds m to it modulo 2^64.
LEMMA AddToIvHigh ==
  ASSUME NEW v \in [1..8 -> Byte], NEW m \in 0..255
  PROVE  W(AddToIv(v, m), 1) = (W(v, 1) + m) % Two64
<1>1. /\ v[1] \in Byte /\ v[2] \in Byte /\ v[3] \in Byte /\ v[4] \in Byte
      /\ v[5] \in Byte /\ v[6] \in Byte /\ v[7] \in Byte /\ v[8] \in Byte
  OBVIOUS
<1>2. AddsUp(v[1], v[2], v[3], v[4], v[5], v[6], v[7], v[8], m)
  BY <1>1, Add8, ZenonT(30)
<1>3. /\ W(v, 1) = N8(v[1], v[2], v[3], v[4], v[5], v[6], v[7], v[8])
      /\ W(AddToIv(v, m), 1)
           = N8(AddToIv(v, m)[1], AddToIv(v, m)[2], AddToIv(v, m)[3],
                AddToIv(v, m)[4], AddToIv(v, m)[5], AddToIv(v, m)[6],
                AddToIv(v, m)[7], AddToIv(v, m)[8])
  BY DEF W
<1>4. LET cy == Carry(v[8], m) = 1
      IN  /\ AddToIv(v, m)[1] = IncIf(v[1], cy /\ v[2] = 255 /\ v[3] = 255
                                            /\ v[4] = 255 /\ v[5] = 255
                                            /\ v[6] = 255 /\ v[7] = 255)
          /\ AddToIv(v, m)[2] = IncIf(v[2], cy /\ v[3] = 255 /\ v[4] = 255
                                            /\ v[5] = 255 /\ v[6] = 255
                                            /\ v[7] = 255)
          /\ AddToIv(v, m)[3] = IncIf(v[3], cy /\ v[4] = 255 /\ v[5] = 255
                                            /\ v[6] = 255 /\ v[7] = 255)
          /\ AddToIv(v, m)[4] = IncIf(v[4], cy /\ v[5] = 255 /\ v[6] = 255
                                            /\ v[7] = 255)
          /\ AddToIv(v, m)[5] = IncIf(v[5], cy /\ v[6] = 255 /\ v[7] = 255)
          /\ AddToIv(v, m)[6] = IncIf(v[6], cy /\ v[7] = 255)
          /\ AddToIv(v, m)[7] = IncIf(v[7], cy)
          /\ AddToIv(v, m)[8] = (v[8] + m) % 256
  <2>1. Len(v) = 8
    BY IvLen8
  <2>. QED BY <2>1 DEF AddToIv, IncIf, Carry
<1>. HIDE DEF N8, IncIf, Carry, Two64, AddToIv
<1>. QED BY <1>2, <1>3, <1>4 DEF AddsUp

\* Increment64 adds 1 to the low half of the counter block modulo 2^64.
LEMMA Increment64Low ==
  ASSUME NEW v \in Block
  PROVE  W(Increment64(v), 9) = (W(v, 9) + 1) % Two64
<1>1. /\ v[9] \in Byte /\ v[10] \in Byte /\ v[11] \in Byte /\ v[12] \in Byte
      /\ v[13] \in Byte /\ v[14] \in Byte /\ v[15] \in Byte /\ v[16] \in Byte
  BY DEF Block, AES_BLOCK_SIZE
<1>2. AddsUp(v[9], v[10], v[11], v[12], v[13], v[14], v[15], v[16], 1)
  BY <1>1, 1 \in 0..255, Add8, ZenonT(30)
<1>3. /\ W(v, 9) = N8(v[9], v[10], v[11], v[12], v[13], v[14], v[15], v[16])
      /\ W(Increment64(v), 9)
           = N8(Increment64(v)[9], Increment64(v)[10], Increment64(v)[11],
                Increment64(v)[12], Increment64(v)[13], Increment64(v)[14],
                Increment64(v)[15], Increment64(v)[16])
  BY DEF W
<1>4. LET cy == Carry(v[16], 1) = 1
      IN  /\ Increment64(v)[9] = IncIf(v[9], cy /\ v[10] = 255 /\ v[11] = 255
                                             /\ v[12] = 255 /\ v[13] = 255
                                             /\ v[14] = 255 /\ v[15] = 255)
          /\ Increment64(v)[10] = IncIf(v[10], cy /\ v[11] = 255
                                               /\ v[12] = 255 /\ v[13] = 255
                                               /\ v[14] = 255 /\ v[15] = 255)
          /\ Increment64(v)[11] = IncIf(v[11], cy /\ v[12] = 255
                                               /\ v[13] = 255 /\ v[14] = 255
                                               /\ v[15] = 255)
          /\ Increment64(v)[12] = IncIf(v[12], cy /\ v[13] = 255
                                               /\ v[14] = 255 /\ v[15] = 255)
          /\ Increment64(v)[13] = IncIf(v[13], cy /\ v[14] = 255 /\ v[15] = 255)
          /\ Increment64(v)[14] = IncIf(v[14], cy /\ v[15] = 255)
          /\ Increment64(v)[15] = IncIf(v[15], cy)
          /\ Increment64(v)[16] = (v[16] + 1) % 256
  <2>1. (Carry(v[16], 1) = 1) <=> v[16] = 255
    BY <1>1 DEF Carry, Byte
  <2>. QED BY <2>1 DEF Increment64, IncIf, AES_BLOCK_SIZE
<1>. HIDE DEF N8, IncIf, Carry, Two64, Increment64
<1>. QED BY <1>2, <1>3, <1>4 DEF AddsUp

(***************************************************************************)
(* The counter block read as numbers.                                      *)
(***************************************************************************)

\* The IV half (bytes 0-7) and the counter half (bytes 8-15) of a block.
High(c) == W(c, 1)
Low(c) == W(c, 9)

\* Where a counter block stands in the sequence of blocks the encryptor
\* encrypts from the caller's IV on, modulo 2^64, for an IV of len bytes.
\* With an 8-byte IV the IV half moves on by the sample's blocks while the
\* counter half restarts at 0, so their sum counts the blocks; with a
\* 16-byte IV the low half does.
IndexOf(c, len) == IF len = 8 THEN (High(c) + Low(c)) % Two64 ELSE Low(c)

LEMMA N8Bound ==
  ASSUME NEW x0 \in Byte, NEW x1 \in Byte, NEW x2 \in Byte, NEW x3 \in Byte,
         NEW x4 \in Byte, NEW x5 \in Byte, NEW x6 \in Byte, NEW x7 \in Byte
  PROVE  N8(x0, x1, x2, x3, x4, x5, x6, x7) \in 0..(Two64 - 1)
BY SMT DEF N8, Byte, Two64

LEMMA WBound ==
  ASSUME NEW c, NEW s \in {1, 9}, \A j \in s..(s + 7) : c[j] \in Byte
  PROVE  W(c, s) \in 0..(Two64 - 1)
<1>1. /\ c[s] \in Byte /\ c[s + 1] \in Byte /\ c[s + 2] \in Byte
      /\ c[s + 3] \in Byte /\ c[s + 4] \in Byte /\ c[s + 5] \in Byte
      /\ c[s + 6] \in Byte /\ c[s + 7] \in Byte
  OBVIOUS
<1>. QED BY <1>1, N8Bound, ZenonT(30) DEF W

LEMMA HalvesBound ==
  ASSUME NEW c \in Block
  PROVE  High(c) \in 0..(Two64 - 1) /\ Low(c) \in 0..(Two64 - 1)
<1>1. \A j \in 1..16 : c[j] \in Byte
  BY DEF Block, AES_BLOCK_SIZE
<1>. QED BY <1>1, WBound DEF High, Low

\* An 8-byte IV padded to a block: its bytes, then eight zero bytes.
LEMMA Pad16Short ==
  ASSUME NEW v \in [1..8 -> Byte]
  PROVE  /\ Pad16(v) \in Block
         /\ \A j \in 1..8 : Pad16(v)[j] = v[j]
         /\ \A j \in 9..16 : Pad16(v)[j] = 0
<1>. DEFINE zeros == [j \in 1..8 |-> 0]
<1>1. v \in Seq(Byte) /\ Len(v) = 8
  BY IvLen8
<1>2. zeros \in Seq(Byte) /\ Len(zeros) = 8
  <2>1. zeros \in [1..8 -> Byte]
    BY DEF Byte
  <2>. HIDE DEF zeros
  <2>. QED BY <2>1, IvLen8
<1>. DEFINE pv == v \o zeros
<1>3. Pad16(v) = pv
  BY <1>1 DEF Pad16, AES_BLOCK_SIZE
<1>4. \A i \in 1..16 : pv[i] = IF i <= 8 THEN v[i] ELSE zeros[i - 8]
  <2>1. \A i \in 1..(Len(v) + Len(zeros)) :
          pv[i] = IF i <= Len(v) THEN v[i] ELSE zeros[i - Len(v)]
    BY <1>1, <1>2, ConcatProperties, Zenon
  <2>. HIDE DEF zeros, pv
  <2>. QED BY <1>1, <1>2, <2>1
<1>5. Pad16(v) \in Block
  BY Pad16Type
<1>. HIDE DEF pv
<1>. QED BY <1>3, <1>4, <1>5

\* A 16-byte IV is its own padding.
LEMMA Pad16Full ==
  ASSUME NEW v \in Block
  PROVE  Pad16(v) = v
<1>1. v \in Seq(Byte) /\ Len(v) = 16
  BY BlockLen
<1>2. [j \in 1..0 |-> 0] = <<>>
  OBVIOUS
<1>. QED BY <1>1, <1>2, ConcatEmptySeq DEF Pad16, AES_BLOCK_SIZE

\* The numbers of an 8-byte IV padded to a block.
LEMMA Pad16ShortHalves ==
  ASSUME NEW v \in [1..8 -> Byte]
  PROVE  High(Pad16(v)) = W(v, 1) /\ Low(Pad16(v)) = 0
<1>1. /\ \A j \in 1..8 : Pad16(v)[j] = v[j]
      /\ \A j \in 9..16 : Pad16(v)[j] = 0
  BY Pad16Short
<1>2. High(Pad16(v)) = W(v, 1)
  <2>1. /\ Pad16(v)[1] = v[1] /\ Pad16(v)[2] = v[2] /\ Pad16(v)[3] = v[3]
        /\ Pad16(v)[4] = v[4] /\ Pad16(v)[5] = v[5] /\ Pad16(v)[6] = v[6]
        /\ Pad16(v)[7] = v[7] /\ Pad16(v)[8] = v[8]
    BY <1>1
  <2>. QED BY <2>1 DEF High, W
<1>3. Low(Pad16(v)) = 0
  <2>1. /\ Pad16(v)[9] = 0 /\ Pad16(v)[10] = 0 /\ Pad16(v)[11] = 0
        /\ Pad16(v)[12] = 0 /\ Pad16(v)[13] = 0 /\ Pad16(v)[14] = 0
        /\ Pad16(v)[15] = 0 /\ Pad16(v)[16] = 0
    BY <1>1
  <2>. QED BY <2>1 DEF Low, W, N8
<1>. QED BY <1>2, <1>3

\* Increment64 leaves the IV half alone.
LEMMA Increment64High ==
  ASSUME NEW c \in Block
  PROVE  High(Increment64(c)) = High(c)
<1>1. /\ Increment64(c)[1] = c[1] /\ Increment64(c)[2] = c[2]
      /\ Increment64(c)[3] = c[3] /\ Increment64(c)[4] = c[4]
      /\ Increment64(c)[5] = c[5] /\ Increment64(c)[6] = c[6]
      /\ Increment64(c)[7] = c[7] /\ Increment64(c)[8] = c[8]
  BY Increment64Prefix
<1>. QED BY <1>1 DEF High, W

LEMMA IndexBound ==
  ASSUME NEW c \in Block, NEW len
  PROVE  IndexOf(c, len) \in 0..(Two64 - 1)
<1>1. High(c) \in 0..(Two64 - 1) /\ Low(c) \in 0..(Two64 - 1)
  BY HalvesBound
<1>. QED BY <1>1 DEF IndexOf, Two64

\* Each block the loop of CryptInternal encrypts is one further on.
LEMMA IndexSucc ==
  ASSUME NEW c \in Block, NEW len
  PROVE  IndexOf(Increment64(c), len) = (IndexOf(c, len) + 1) % Two64
<1>1. High(c) \in 0..(Two64 - 1) /\ Low(c) \in 0..(Two64 - 1)
  BY HalvesBound
<1>2. High(Increment64(c)) = High(c)
  BY Increment64High
<1>3. Low(Increment64(c)) = (Low(c) + 1) % Two64
  BY Increment64Low DEF Low
<1>. QED BY <1>1, <1>2, <1>3 DEF IndexOf, Two64

\* AddToIv keeps the length of the IV.
LEMMA AddToIvLen ==
  ASSUME NEW v \in [1..8 -> Byte] \cup Block, NEW m \in Nat
  PROVE  /\ AddToIv(v, m) \in [1..8 -> Byte] \cup Block
         /\ Len(AddToIv(v, m)) = Len(v)
<1>1. CASE v \in [1..8 -> Byte]
  <2>1. AddToIv(v, m) \in [1..8 -> Byte]
    BY <1>1, AddToIvType, ZenonT(30)
  <2>. QED BY <1>1, <2>1, IvLen8, ZenonT(30)
<1>2. CASE v \in Block
  <2>1. v \in [1..16 -> Byte]
    BY <1>2 DEF Block, AES_BLOCK_SIZE
  <2>2. AddToIv(v, m) \in [1..16 -> Byte]
    BY <2>1, AddToIvType, ZenonT(30)
  <2>3. AddToIv(v, m) \in Block
    BY <2>2 DEF Block, AES_BLOCK_SIZE
  <2>. QED BY <1>2, <2>3, BlockLen
<1>. QED BY <1>1, <1>2

\* UpdateIv: the counter block the next sample starts from stands where
\* the counter of the finished sample stood, b blocks past its IV.
LEMMA NextIvIndex ==
  ASSUME NEW v \in [1..8 -> Byte] \cup Block, NEW c \in Block,
         NEW b \in 0..255,
         High(c) = High(Pad16(v)),
         Low(c) = (Low(Pad16(v)) + b) % Two64
  PROVE  IndexOf(Pad16(AddToIv(v, b)), Len(v)) = IndexOf(c, Len(v))
<1>0. b \in Nat
  OBVIOUS
<1>1. CASE v \in [1..8 -> Byte]
  <2>1. Len(v) = 8
    BY <1>1, IvLen8
  <2>2. AddToIv(v, b) \in [1..8 -> Byte]
    BY <1>0, <1>1, 8 \in {8, 16}, AddToIvType
  <2>3. High(Pad16(AddToIv(v, b))) = (W(v, 1) + b) % Two64
        /\ Low(Pad16(AddToIv(v, b))) = 0
    BY <1>1, <2>2, Pad16ShortHalves, AddToIvHigh, ZenonT(30)
  <2>4. High(c) = W(v, 1) /\ Low(c) = b % Two64
    BY <1>1, Pad16ShortHalves
  <2>5. W(v, 1) \in 0..(Two64 - 1)
    <3>1. \A j \in 1..(1 + 7) : v[j] \in Byte
      BY <1>1
    <3>. QED BY <3>1, WBound, 1 \in {1, 9}, Zenon
  <2>. QED BY <2>1, <2>3, <2>4, <2>5 DEF IndexOf, Two64
<1>2. CASE v \in Block
  <2>1. Len(v) = 16
    BY <1>2, BlockLen
  <2>2. AddToIv(v, b) \in Block
    <3>1. v \in [1..16 -> Byte]
      BY <1>2 DEF Block, AES_BLOCK_SIZE
    <3>. QED BY <1>0, <3>1, 16 \in {8, 16}, AddToIvType
             DEF Block, AES_BLOCK_SIZE
  <2>3. Pad16(AddToIv(v, b)) = AddToIv(v, b) /\ Pad16(v) = v
    BY <1>2, <2>2, Pad16Full
  <2>4. Low(AddToIv(v, b)) = (Low(v) + b) % Two64
    BY <1>2, AddToIvLow DEF Low
  <2>. QED BY <2>1, <2>3, <2>4 DEF IndexOf
<1>. QED BY <1>1, <1>2

\* UpdateIv on an IV of either length moves the place of its padded block
\* on by b, modulo 2^64.
LEMMA AddToIvIndex ==
  ASSUME NEW v \in [1..8 -> Byte] \cup Block, NEW b \in 0..255
  PROVE  IndexOf(Pad16(AddToIv(v, b)), Len(v))
           = (IndexOf(Pad16(v), Len(v)) + b) % Two64
<1>0. b \in Nat
  OBVIOUS
<1>1. CASE v \in [1..8 -> Byte]
  <2>1. Len(v) = 8
    BY <1>1, IvLen8
  <2>2. AddToIv(v, b) \in [1..8 -> Byte]
    BY <1>0, <1>1, 8 \in {8, 16}, AddToIvType
  <2>3. High(Pad16(AddToIv(v, b))) = (W(v, 1) + b) % Two64
        /\ Low(Pad16(AddToIv(v, b))) = 0
    BY <1>1, <2>2, Pad16ShortHalves, AddToIvHigh, ZenonT(30)
  <2>4. High(Pad16(v)) = W(v, 1) /\ Low(Pad16(v)) = 0
    BY <1>1, Pad16ShortHalves
  <2>5. W(v, 1) \in 0..(Two64 - 1)
    <3>1. \A j \in 1..(1 + 7) : v[j] \in Byte
      BY <1>1
    <3>. QED BY <3>1, WBound, 1 \in {1, 9}, Zenon
  <2>. QED BY <2>1, <2>3, <2>4, <2>5 DEF IndexOf, Two64
<1>2. CASE v \in Block
  <2>1. Len(v) = 16
    BY <1>2, BlockLen
  <2>2. AddToIv(v, b) \in Block
    <3>1. v \in [1..16 -> Byte]
      BY <1>2 DEF Block, AES_BLOCK_SIZE
    <3>. QED BY <1>0, <3>1, 16 \in {8, 16}, AddToIvType
             DEF Block, AES_BLOCK_SIZE
  <2>3. Pad16(AddToIv(v, b)) = AddToIv(v, b) /\ Pad16(v) = v
    BY <1>2, <2>2, Pad16Full
  <2>4. Low(AddToIv(v, b)) = (Low(v) + b) % Two64
    BY <1>2, AddToIvLow DEF Low
  <2>. QED BY <2>1, <2>3, <2>4 DEF IndexOf
<1>. QED BY <1>1, <1>2

LEMMA BlocksConsumedStep ==
  ASSUME NEW n \in Nat
  PROVE  BlocksConsumed(n + 1)
           = BlocksConsumed(n) + (IF n % AES_BLOCK_SIZE = 0 THEN 1 ELSE 0)
BY DEF BlocksConsumed, AES_BLOCK_SIZE

LEMMA ModSucc ==
  ASSUME NEW a \in Nat
  PROVE  ((a % Two64) + 1) % Two64 = (a + 1) % Two64
BY DEF Two64

\* Two places less than 2^64 apart are different places.
LEMMA ModDistinct ==
  ASSUME NEW a \in Nat, NEW d \in 1..(Two64 - 1)
  PROVE  a % Two64 # (a + d) % Two64
BY DEF Two64

\* Places are compared relative to a first place f, modulo 2^64: moving a
\* A place below 2^64 is its own remainder.
LEMMA ModSmall ==
  ASSUME NEW x \in 0..(Two64 - 1)
  PROVE  x % Two64 = x
BY DEF Two64

\* place on by d moves its distance from f on by d.
LEMMA ModShift ==
  ASSUME NEW x \in Int, NEW f \in Int, NEW d \in Int
  PROVE  (((x + d) % Two64) - f) % Two64 = (((x - f) % Two64) + d) % Two64
BY DEF Two64

\* Two blocks of two CTR streams, whose places relative to a common origin f
\* are ri and rj, differ when the first stream ends before the second begins
\* and neither runs past 2^64 blocks from the origin: the k-th block of the
\* first is at ri + k, the l-th of the second at rj + l.
LEMMA NoWrapDistinct ==
  ASSUME NEW xi \in Int, NEW xj \in Int, NEW f \in Int,
         NEW ri \in Nat, NEW rj \in Nat, NEW bi \in Nat,
         NEW k \in Nat, NEW l \in Nat,
         ri = (xi - f) % Two64, rj = (xj - f) % Two64,
         k < bi, ri + bi <= rj, rj + l < Two64
  PROVE  (xi + k) % Two64 # (xj + l) % Two64
<1>0. k \in Int /\ l \in Int
  OBVIOUS
<1>1. (((xi + k) % Two64) - f) % Two64 = ri + k
  <2>1. (((xi + k) % Two64) - f) % Two64 = (((xi - f) % Two64) + k) % Two64
    BY <1>0, ModShift, Zenon
  <2>2. (ri + k) % Two64 = ri + k
    <3>1. ri + k \in 0..(Two64 - 1)
      BY DEF Two64
    <3>. QED BY <3>1, ModSmall, Zenon
  <2>. QED BY <2>1, <2>2, Zenon
<1>2. (((xj + l) % Two64) - f) % Two64 = rj + l
  <2>1. (((xj + l) % Two64) - f) % Two64 = (((xj - f) % Two64) + l) % Two64
    BY <1>0, ModShift, Zenon
  <2>2. (rj + l) % Two64 = rj + l
    <3>1. rj + l \in 0..(Two64 - 1)
      BY DEF Two64
    <3>. QED BY <3>1, ModSmall, Zenon
  <2>. QED BY <2>1, <2>2, Zenon
<1>3. ri + k # rj + l
  BY DEF Two64
<1>. QED BY <1>1, <1>2, <1>3, Zenon

=============================================================================

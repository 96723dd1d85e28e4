--------------------------- MODULE SampleEncryptor ---------------------------
(***************************************************************************)
(* A sample encryptor (spec 4.3) composed with the AES-CTR keystream       *)
(* contract CtrKeystream, which AesCtrEncryptor is proved to implement     *)
(* (AesCtrRefinement).  For each NAL unit of a sample it records a         *)
(* SubsampleEntry and encrypts the NAL's cipher bytes one keystream byte   *)
(* at a time; at the end of the sample it builds the DecryptConfig and     *)
(* moves the keystream on to the next sample (UpdateIv).                   *)
(*                                                                         *)
(* SubsampleEntry and DecryptConfig are translated from decrypt_config.h   *)
(* (lines 28-101).  The encryptor that fills them in is not in the source  *)
(* tree; it is modelled from spec 4.3 ("Subsample construction"): a NAL    *)
(* that is not a video slice is clear only, and a clear-only subsample is  *)
(* merged into the clear bytes of the next one when the total fits in 16   *)
(* bits (scenario 8.4: [5,0][3,100] gives [8,100]).                        *)
(*                                                                         *)
(* Bytes are not modelled: a NAL is its kind and sizes, a sample layout a  *)
(* sequence of <<clear, cipher>> pairs, and an encrypted byte the          *)
(* keystream position XORed into it.                                       *)
(***************************************************************************)
EXTENDS AesCommon, SequencesExt

CONSTANTS
  Ivs,         \* track-level IVs the encryptor may start from
  KeyId,       \* the key id every DecryptConfig carries
  Nals,        \* NAL units: [slice : BOOLEAN, size : Nat, header : Nat]
  MaxNals,     \* bound: NAL units per sample
  MaxSamples   \* bound: samples encrypted

ASSUME SampleEncryptorAssumption ==
  /\ Ivs \subseteq Seq(Byte)
  /\ \A n \in Nals : n.slice \in BOOLEAN /\ n.header \in Nat
                     /\ n.size \in Nat /\ n.header <= n.size
  /\ MaxNals \in Nat /\ MaxSamples \in Nat

VARIABLES
  key_iv,        \* the CTR contract's IV (AesCryptor::iv_)
  keystream,     \* the keystream positions used under key_iv
  nals,          \* the NAL units of the sample being encrypted
  subsamples,    \* the SubsampleEntries built for it so far
  pending_clear, \* clear bytes of clear-only NALs not yet put in an entry
  cipher_left,   \* cipher bytes of the current NAL still to encrypt
  configs        \* per encrypted sample: its DecryptConfig, NALs, positions

Keystream == INSTANCE CtrKeystream

vars == <<key_iv, keystream, nals, subsamples, pending_clear, cipher_left,
          configs>>

(***************************************************************************)
(* decrypt_config.h                                                        *)
(***************************************************************************)

\* The uint32_t parameter of SubsampleEntry: x % 2^32, which is x itself
\* for the sizes below 2^30 the model uses; the first branch keeps TLC
\* from computing 2^32, which it cannot represent.
Uint32(x) == IF x < 2^30 THEN x ELSE x % 2^32

\* Mutant: a clear_bytes field one byte wide.
SubsampleEntryNarrowClear(clear_bytes, cipher_bytes) ==
  [clear_bytes |-> clear_bytes % 2^8, cipher_bytes |-> Uint32(cipher_bytes)]

\* SubsampleEntry(uint16_t clear_bytes, uint32_t cipher_bytes): the
\* arguments are converted to the parameter types, so clear_bytes keeps
\* its value modulo 2^16.
SubsampleEntry(clear_bytes, cipher_bytes) ==
  [clear_bytes |-> clear_bytes % 2^16, cipher_bytes |-> Uint32(cipher_bytes)]

\* The 'cenc' constructor of DecryptConfig: the fields it stores, with no
\* pattern (crypt_byte_block_ = skip_byte_block_ = 0).
DecryptConfig(key_id, iv, subsamples_) ==
  [key_id |-> key_id, iv |-> iv, subsamples |-> subsamples_,
   protection_scheme |-> "cenc", crypt_byte_block |-> 0, skip_byte_block |-> 0]

(***************************************************************************)
(* The sample encryptor (spec 4.3).                                        *)
(***************************************************************************)

\* A clear-only subsample of `pending` bytes is merged into the next
\* subsample's clear bytes only if the total fits in 16 bits.
MergesInto(pending, clear) == pending = 0 \/ pending + clear < 2^16

Init ==
  /\ Keystream!Init
  /\ nals = <<>>
  /\ subsamples = <<>>
  /\ pending_clear = 0
  /\ cipher_left = 0
  /\ configs = <<>>

\* The track-level IV is installed before the first sample.
StartTrack ==
  /\ key_iv = <<>>
  /\ \E v \in Ivs : Keystream!InstallIv(v)
  /\ UNCHANGED <<nals, subsamples, pending_clear, cipher_left, configs>>

\* The next NAL unit of the sample: a slice contributes a subsample whose
\* clear bytes are its header (plus the merged clear-only bytes before
\* it) and whose cipher bytes are then encrypted; any other NAL is clear.
AddNal ==
  /\ key_iv # <<>>
  /\ cipher_left = 0
  /\ Len(nals) < MaxNals
  /\ Len(configs) < MaxSamples
  /\ \E n \in Nals :
       /\ nals' = Append(nals, n)
       /\ IF n.slice
          THEN LET clear == n.header
                   cipher == n.size - n.header
               IN /\ subsamples' =
                       subsamples \o
                         (IF MergesInto(pending_clear, clear)
                          THEN <<SubsampleEntry(pending_clear + clear, cipher)>>
                          ELSE <<SubsampleEntry(pending_clear, 0),
                                 SubsampleEntry(clear, cipher)>>)
                  /\ pending_clear' = 0
                  /\ cipher_left' = cipher
          ELSE /\ IF MergesInto(pending_clear, n.size)
                  THEN /\ pending_clear' = pending_clear + n.size
                       /\ UNCHANGED subsamples
                  ELSE /\ pending_clear' = n.size
                       /\ subsamples' =
                            Append(subsamples, SubsampleEntry(pending_clear, 0))
               /\ UNCHANGED cipher_left
  /\ UNCHANGED <<key_iv, keystream, configs>>

\* One cipher byte of the current NAL is encrypted (Crypt on the CTR
\* encryptor; each byte takes the next keystream position).
EncryptCipherByte ==
  /\ cipher_left > 0
  /\ Keystream!EncryptByte
  /\ cipher_left' = cipher_left - 1
  /\ UNCHANGED <<nals, subsamples, pending_clear, configs>>

\* The sample is done: trailing clear bytes get an entry of their own, the
\* DecryptConfig is built with the IV the sample was encrypted under, and
\* then the encryptor moves on to the next sample's IV.
FinishSample ==
  /\ cipher_left = 0
  /\ nals # <<>>
  /\ LET entries == IF pending_clear > 0
                    THEN Append(subsamples, SubsampleEntry(pending_clear, 0))
                    ELSE subsamples
     IN configs' = Append(configs,
                     [config |-> DecryptConfig(KeyId, key_iv, entries),
                      nals |-> nals, positions |-> keystream])
  /\ Keystream!NextSample
  /\ nals' = <<>>
  /\ subsamples' = <<>>
  /\ pending_clear' = 0
  /\ UNCHANGED cipher_left

Next == StartTrack \/ AddNal \/ EncryptCipherByte \/ FinishSample

Spec == Init /\ [][Next]_vars

(***************************************************************************)
(* Properties.                                                             *)
(***************************************************************************)

\* A sample layout as <<clear, cipher>> pairs: what the encryptor did with
\* the NALs, and what a decryptor reads from the SubsampleEntries.
NalLayout(ns) ==
  [i \in 1..Len(ns) |-> IF ns[i].slice
                        THEN <<ns[i].header, ns[i].size - ns[i].header>>
                        ELSE <<ns[i].size, 0>>]
EntryLayout(es) == [i \in 1..Len(es) |-> <<es[i].clear_bytes, es[i].cipher_bytes>>]

\* Bytes before the i-th pair of a layout, and the layout's total size.
LayoutOffsets(l) ==
  LET off[i \in 0..Len(l)] == IF i = 0 THEN 0
                              ELSE off[i - 1] + l[i][1] + l[i][2]
  IN off
LayoutSize(l) == LayoutOffsets(l)[Len(l)]
CipherByteCount(l) == FoldLeft(LAMBDA acc, p : acc + p[2], 0, l)

\* The encrypted byte ranges <<first offset, length>> of a layout.
CipherRanges(l) ==
  SelectSeq([i \in 1..Len(l) |-> <<LayoutOffsets(l)[i - 1] + l[i][1], l[i][2]>>],
            LAMBDA r : r[2] > 0)

\* The keystream of one CTR stream from iv, n bytes long.
StreamFrom(iv, n) ==
  LET s[k \in 1..n] == IF k = 1 THEN <<Pad16(iv), 0>> ELSE NextPosition(s[k - 1])
  IN s

\* What the comment on SubsampleEntry (decrypt_config.h:19-27) promises a
\* decryptor: walking the entries of a sample's DecryptConfig, the clear
\* and cipher bytes add up to the sample (spec 8.1), the bytes it treats as
\* cipher are exactly those the encryptor encrypted, and decrypting their
\* concatenation as one CTR stream from the DecryptConfig's IV uses the
\* keystream the encryptor used, however the sample was split into NALs.
DecryptConfigDescribesSample ==
  \A i \in 1..Len(configs) :
    LET c == configs[i]
        enc == NalLayout(c.nals)
        dec == EntryLayout(c.config.subsamples)
    IN /\ LayoutSize(dec) = LayoutSize(enc)
       /\ CipherRanges(dec) = CipherRanges(enc)
       /\ c.positions = StreamFrom(c.config.iv, CipherByteCount(dec))

\* The counter blocks a sequence of keystream positions uses.
BlocksOf(ps) == {ps[k][1] : k \in 1..Len(ps)}

\* The keystream of each encrypted sample, then that of the sample in
\* progress.
SampleKeystreams ==
  [i \in 1..(Len(configs) + 1) |->
     IF i <= Len(configs) THEN configs[i].positions ELSE keystream]

\* Spec 4.3 and 8.8 across samples: the IV of each sample is the previous
\* one advanced by the blocks that sample consumed (UpdateIv), so no
\* counter block, hence no keystream, is used by two samples of a track,
\* the sample being encrypted included.  A per-sample IV update that
\* advanced too little would make the next sample reuse the last blocks.
SamplesUseDisjointKeystream ==
  \A i, j \in DOMAIN SampleKeystreams :
    i # j => BlocksOf(SampleKeystreams[i]) \cap BlocksOf(SampleKeystreams[j]) = {}

=============================================================================

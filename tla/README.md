# TLA+ verification of the edash-packager core

This directory holds TLA+ models of parts of the packager, the TLC
configurations that model-check them, and TLAPS proofs. Each model is
translated from the source under `src/`. `PROJECT.json` maps every modelling
definition to the source lines it stands for.

## The system and its parts

The spec (`spec.md`) describes a DASH packager with two halves that meet in
the segmenter. The encryption half is AES-CTR and AES-CBC with the CENC IV
rules. The segmenter half turns finalized fragments into segments with a
`sidx` index and notifies a listener.

The source tree holds the following parts.

| Part | Source | Status |
|---|---|---|
| AesCtrEncryptor, including `Increment64` and `InitializeWithIv` | `src/unnamed/part_000` lines 1-97 | modelled, with proofs |
| AesCbcEncryptor (no padding / PKCS#5 / CTS) | `src/unnamed/part_000` lines 99-196 | modelled |
| MultiSegmentSegmenter (its `.cc` is the second part of the file) | `src/packager/media/base/decrypt_config.h` lines 105-302 | modelled |
| DecryptConfig, SubsampleEntry, with the sample encryptor that fills them in (spec 4.3) | `decrypt_config.h` lines 19-101 | modelled, composed with the CTR keystream contract; cross-sample no-reuse proved |
| LocalFile unit tests | `src/unnamed/part_001` | not modelled: test code doing file I/O |
| MockMpdNotifier | `src/unnamed/part_002` | not modelled: a gmock double |
| H265ByteToUnitStreamConverter, TextStreamInfo | headers under `src/packager/media` | not modelled: declarations only |

The base classes these parts rely on are not in the tree:
- `AesCryptor::SetIv`, `Crypt` and `UpdateIv`;
- the base `Segmenter`;
- `File` and `BufferWriter`.

What the models need of them is modelled from the spec and marked
`spec_modelled` in the map:
- IV length check;
- IV update per sample;
- the sample encryptor's subsample construction (spec 4.3);
- constant-IV reset;
- one sidx reference per finalized fragment;
- writes that may stop part way;
- a Close that may fail.

## Modules

- **`AesCommon`**: what the encryptors and the keystream contract share. It
  holds:
  - the block size and `IsKeySizeValidForAes`;
  - `Pad16`, the `resize(AES_BLOCK_SIZE, 0)` of both `SetIvInternal`s;
  - `Increment64`;
  - the IV update `AddToIv` / `BlocksConsumed`, modelled from the spec;
  - `NextPosition`, the keystream position after a given one.

- **`CtrKeystream`**: the abstract contract of a CTR encryptor (spec 4.2,
  4.3), with calls, buffers, keys and counters left out. Its state is the IV
  in force and the keystream positions used under it. It has three actions:
  - `InstallIv`: an 8- or 16-byte IV starts a new stream;
  - `EncryptByte`: the next byte takes the next position of one CTR stream
    from `<<Pad16(iv), 0>>`;
  - `NextSample`: the IV advances by the blocks the sample consumed, and the
    stream restarts.

  `AesCtrEncryptor` instantiates it as
  `Keystream == INSTANCE CtrKeystream WITH key_iv <- iv, keystream <- stream`.
  The contract is not code, so its definitions are not in the map.

- **`AesCtrEncryptor`** (`MCAesCtrEncryptor`). The variables are the
  encryptor's fields:
  - `counter_`;
  - `encrypted_counter_`;
  - `block_offset_`;
  - `iv_`;
  - `num_crypt_bytes_`.

  It also keeps two history variables:
  - `stream`: the keystream positions `<<counter block, offset>>` used since
    the IV was set;
  - `blocks`: the counter blocks encrypted since the caller last set an IV.

  The actions are:
  - `InitializeWithIv` (part_000:39-49);
  - `SetIv`;
  - `CryptInternal`: the size check (61-76). On success it also adds the
    call's size to `num_crypt_bytes_`, which the base class
    `AesCryptor::Crypt` does (spec 4.3; the base class is not in the tree).
    Its guards `MaxBytes` and `MaxBlocks` bound the model's calls; the code
    has no such check;
  - `CryptByte`: one iteration of the loop (77-89). While a call is in
    progress nothing else is enabled, so the call is atomic, as in the code;
  - `UpdateIv` (spec 4.3).

  Plaintext is abstracted away. A cipher byte is identified by the keystream
  position XORed into it.

  Under the refinement mapping:
  - `InitializeWithIv` and `SetIv` are `InstallIv` or a stutter (a rejected
    key or IV);
  - `CryptInternal` is a stutter: it only checks the output size and starts
    the call;
  - `CryptByte` is `EncryptByte`;
  - `UpdateIv` is `NextSample`.

- **`AesCbcEncryptor`** (`MCAesCbcEncryptor`). The variables are:
  - `padding_scheme_`;
  - the constant-IV flag;
  - `iv_`;
  - `internal_iv_`;
  - `calls`, the history of calls since the IV was set.

  `CbcCrypt` is `CryptInternal` (114-185) with its early returns in the code's
  order. `AES_cbc_encrypt` is a recursive function over blocks that also
  returns the updated `ivec`. The constructor's `CHECK` is the constraint in
  `Init`. Bytes are concrete values. `AES_encrypt` is a fixed invertible map
  on 16-byte blocks: a byte rotation followed by XOR with a key block. The
  modes are correct for any block permutation, and none of the properties
  depends on the cipher's strength.

- **`MultiSegmentSegmenter`** (`MCMultiSegmentSegmenter`). Its actions are:
  - `DoInitialize`: the init segment;
  - `AddFragment`: the base Segmenter, from the spec;
  - `DoFinalizeSegment`: the whole of `DoFinalizeSegment` and `WriteSegment`
    (176-298), including the coalescing loop, the `resize`, styp/sidx
    writing, partial writes, open and close failures, `UpdateProgress` and
    `OnNewSegment`;
  - `DoFinalize`.

  The coalescing loop is `CoalesceLoop`, a RECURSIVE operator with one call
  per iteration. It keeps the code's 0-based indices, `frag_index`,
  `subseg_index` and `first_sap_time`. Files are a function from name to a
  sequence of box tokens. `history` records what each finalized segment was
  meant to write.

- **`SampleEncryptor`** (`MCSampleEncryptor`): a composition. The sample
  encryptor of spec 4.3 drives the CTR contract through an instance of
  `CtrKeystream`. Composing with the contract, not the detailed encryptor, is
  sound because `Refinement` proves the encryptor implements it; it also keeps
  the state small. The actions are:
  - `StartTrack`: install the track IV;
  - `AddNal`: one NAL unit;
  - `EncryptCipherByte`: one cipher byte;
  - `FinishSample`: build the `DecryptConfig`, then `NextSample`.

  `SubsampleEntry` and `DecryptConfig` are translated from
  `decrypt_config.h`, including the `uint16_t` / `uint32_t` conversions of
  the `SubsampleEntry` constructor. The encryptor is not in the tree. It
  follows the spec's construction rule: a non-slice NAL is clear only, and a
  clear-only subsample is merged into the next subsample's clear bytes when
  the total fits in 16 bits. Scenario 8.4, `[5,0][3,100]` giving `[8,100]`,
  fixes the direction of the merge. A NAL is its kind and sizes; no bytes
  are modelled.

- **Proof modules.** They hold the theorems and no new behaviour:
  - `AesCtrEncryptorProofs` extends `AesCtrEncryptor`: type correctness, one
    stream per IV, the stable IV prefix;
  - `AesCtrRefinement` extends it: the refinement of `CtrKeystream`;
  - `CtrCounterArith` extends `AesCommon`: the lemmas on the helpers
    (`Increment64`, `Pad16`, `AddToIv`) and the numeric reading of a block
    (`W`, `High`, `Low`, `IndexOf`) that the CTR proofs share. It models no
    code, so it is not in the map;
  - `AesCtrNoReuse` extends `AesCtrRefinement` and `CtrCounterArith`: no
    keystream reuse, the block counter, and `UpdateIv` resuming the counter;
  - `SampleEncryptorNoReuse` extends `SampleEncryptor` and
    `CtrCounterArith`: no two samples of a track share a counter block.

## Runs

| Run | Result | What it shows |
|---|---|---|
| `aes_ctr` | pass (12192 states) | One sample's bytes, over any split into Crypt calls, failed calls and key/IV resets, take consecutive keystream positions from `<<Pad16(iv), 0>>` (`CipherBytesFormOneStream`). Bytes 0-7 of every keystream block are the IV's (`IvPrefixStable`, spec 8.8). No counter block is encrypted twice across `UpdateIv` (`NoKeystreamReuse`). The encryptor implements `CtrKeystream` (`KeystreamSpec`, a temporal property); a base class that counted rejected calls in `num_crypt_bytes_` would break this at `UpdateIv`. |
| `aes_cbc` | pass (4544 states) | For each padding scheme, every output has the prescribed length and decrypts to its plaintext under a decryptor written from the spec and NIST SP 800-38A (`RoundTrip`, spec 8.3/8.4). Constant-IV calls restart from the IV, and chained block-aligned calls equal one CBC over their concatenation (`ChainingAcrossCalls`). |
| `segmenter` | pass (24216 states) | Every file is a prefix of what the segmenter meant to write, and falls short only after an error was returned (`OutputValidUpToLastSegment`). The listener hears of exactly the fully written segments, with file, sidx time and size (`NotificationsMatchSegments`). |
| `sidx_grouping` | violation | `frag_index` starts at 0 (decrypt_config.h:196), so the first subsegment takes one fragment too many. 3 fragments with N = 2 give one subsegment of 3. Scenario 8.5 (groups 4,4,2) gives 5,4,1. |
| `sidx_duration` | violation | When fewer than N subsegments form, `resize(N)` (228) keeps a stale fragment reference. The sidx durations, and so the reported duration, add to 8 for a segment lasting 6. |
| `sap_delta` | violation | A last partial subsegment never has `sap_delta_time` recomputed (213). Its `earliest_presentation_time + sap_delta_time` is no SAP. |
| `sample_encryptor` | pass (139234 states) | Every `DecryptConfig` describes its sample (`DecryptConfigDescribesSample`). Clear and cipher bytes add up to the sample (spec 8.1). The ranges a decryptor treats as cipher are exactly the encrypted ones. Decrypting them as one stream from the config's IV (the comment at `decrypt_config.h:19-27`) uses the encryptor's keystream. No two samples of the track, the one in progress included, use the same counter block (`SamplesUseDisjointKeystream`, spec 4.3 and 8.8). Its mutant counts only the full blocks of a sample when the IV is advanced, so the next sample reuses the last partial block. |
| `subsample_clear_overflow` | violation | A clear-only NAL of 65540 bytes cannot be merged and stays a subsample of its own. `SubsampleEntry`'s `uint16_t clear_bytes` stores it as 4, so the sample's sizes no longer add up (spec 8.1). The spec's construction rule does not say how to split such a run. |
| `close_loss` | violation | `DoInitialize` only logs a failed `Close` (163-166) and returns the status of the buffer write. When the failed `Close` drops the buffered ftyp/moov bytes, the output file is empty although `DoInitialize` returned OK, against spec 5. The trace has two states: the initial state, then that `DoInitialize`. `WriteSegment` handles a failed `Close` the same way (277). |

Each property of a passing run has a mutant in `PROJECT.json`: a
plausible bug in one mapped definition (dropped guard, off-by-one, missing
reset, swapped operands) that TLC finds.

### Bounds

- **CTR.** IVs are chosen so that the low 8 bytes of the counter wrap: one is
  `…FF FF` in bytes 8-15. Call sizes 0, 5, 16 and 17 make calls start and end
  mid-block. `MaxBlocks` allows several samples per IV.
- **CBC.** The plaintext sizes cover every branch of `CryptInternal`:
  - 0 (a PKCS#5 pad block);
  - 2 (CTS passes it through);
  - 16 and 32 (aligned);
  - 21 (CTS steals from the only full block);
  - 37.

  Three calls per IV exercise chaining.
- **Segmenter.** `num_subsegments_per_sidx` ranges over {-1, 0, 1, 2}:
  - no sidx;
  - no coalescing;
  - N = 1;
  - N = 2.

  With up to 3 fragments, that covers all of these:
  - merges;
  - a full group followed by a partial one;
  - fewer groups than N.

  Two segments per run show appending to the output file and naming template
  files. Open, header write, fragment write and close each fail
  nondeterministically.
- **Sample encryptor.** Up to three NALs per sample and two samples. The NALs
  are:
  - a slice whose 18 cipher bytes cross a block;
  - a slice with no cipher bytes;
  - a 5-byte clear NAL;
  - a 65530-byte clear NAL.

  Together they exercise merging, a merge refused at the 16-bit limit before
  a slice and before another clear NAL, and a trailing clear entry. There
  are three IVs:
  - an 8-byte IV;
  - a 16-byte IV a block away from wrapping its counter half;
  - a 16-byte IV whose samples stay within the low half.

  The last one is needed for `SamplesUseDisjointKeystream` to tell a short
  IV update from a correct one: with the other two, the update changes the
  high half, so every block differs anyway. The violation run adds a
  65540-byte clear NAL.

The segmenter, CBC and sample-encryptor runs set `CHECK_DEADLOCK FALSE`
because the system really stops:
- a segmenter that failed or completed accepts nothing more;
- the encryptors stop at their call and sample bounds.

No liveness is claimed. All the operations are calls made by the muxer, so
no fairness is justified.

## Proofs (`AesCtrEncryptorProofs`, `AesCtrRefinement`, `AesCtrNoReuse`, `SampleEncryptorNoReuse`)

These theorems hold for every value of the constants allowed by
`ConstantsAssumption`:
- `TypeCorrect`: `Spec => []TypeOK`;
- `OneStream`: `Spec => []CipherBytesFormOneStream`;
- `IvPrefix`: `Spec => []IvPrefixStable`;
- `Refinement`: `Spec => KeystreamSpec`, that is, the encryptor implements
  `CtrKeystream`.

`CipherBytesFormOneStream` is not inductive by itself. A `CryptByte` step
extends `stream` with `encrypted_counter_` or `counter_`, so the invariant has
to say how these relate to the last recorded position. That is
`StreamLink`:
- with no bytes yet, `block_offset_ = 0` and `counter_ = Pad16(iv_)`;
- otherwise `encrypted_counter_` is the last position's block,
  `counter_ = Increment64(encrypted_counter_)`, and `block_offset_` is the
  last offset plus one, mod 16.

`IInv == TypeOK /\ StreamLink /\ CipherBytesFormOneStream` is proved:
- initial, by `InitIInv`;
- preserved by each action, with one lemma per action;
- combined in `NextIInv`.

The theorems follow by PTL.

`IvPrefix` uses `IInv /\ IvPrefixStable` as its inductive invariant. A
`CryptByte` step appends the position after the last one
(`CryptBytePosition`), whose block is the last block or its `Increment64`.
`Increment64Prefix` shows that `Increment64` leaves bytes 0-7 alone.

`Refinement` rests on a second invariant:
`Acct == num_crypt_bytes_ = Len(stream) + remaining`. The count of crypted
bytes includes the bytes of the call in progress. So once the call is done
(`Idle`), `UpdateIv`'s `BlocksConsumed(num_crypt_bytes_)` is the contract's
`BlocksConsumed(Len(keystream))`. The proof has these parts:
- `Init` maps to the contract's `Init`;
- `StepMaps` shows each action is a contract step or a stutter, one case per
  action;
- `SharedHelpers` equates the `AesCommon` operators seen through the
  instance with the encryptor's own.

The lemmas on the helpers cover what they return:
- `Increment64Type`;
- `Pad16Type`;
- `AddToIvType`;
- sequence concatenation of functions (`FnIsSeq`, `ConcatFn`, `PadType`).

### No keystream reuse (`AesCtrNoReuse`)

`NoReuse` proves `NoKeystreamReuse` for every value of the constants, given
one hypothesis: `MaxBlocks <= 2^64`. The statement is
`ASSUME MaxBlocks <= Two64 PROVE Spec => []NoKeystreamReuse`. Under one
caller IV, across any number of Crypt calls and `UpdateIv`s, no counter block
is encrypted twice. The hypothesis is needed: the counter half is 64 bits
wide, so the 2^64+1-th block of one caller IV equals the first. This is the
limit of CTR itself, not a bug, and no TLC run can reach it.

The proof reads a block as numbers. `W(c, s)` is the big-endian value of
bytes `s..s+7`, and `High` and `Low` are the two halves. Four lemmas do the
byte arithmetic:
- `Add8` is the core: adding `m < 256` with byte carries is addition
  mod 2^64. It is proved by a case split on where the carry stops.
- `Increment64Low` and `Increment64High`: `Increment64` adds 1 to `Low` and
  leaves `High` alone.
- `AddToIvLow` and `AddToIvHigh`: `AddToIv` adds the block count to the last
  8 bytes of the IV.

`IndexOf(c, len)` is where a block stands. It is `High + Low` (mod 2^64) for
8-byte IVs and `Low` for 16-byte IVs. `IndexSucc` and `NextIvIndex` show
that it grows by exactly one from each block to the next. That includes the
step across `UpdateIv`, where an 8-byte IV moves its IV half on and restarts
the counter half at 0.

The inductive invariant is
`NInv == RInv /\ BlockCount /\ CounterLink /\ Consecutive`:
- `BlockCount`: `block_offset_` is the stream length mod 16. The blocks
  encrypted, plus those the call in progress will still take, stay within
  `MaxBlocks`. This is the model's bound on calls, checked in the guard of
  `CryptInternal` (not a check of the code), carried
  through the byte loop by `BlocksAheadStep`. A sample stays below 256
  blocks (`MaxBytes < 255 * 16`), which `AddToIv` needs.
- `CounterLink`: `counter_` is the padded IV. Its IV half is the IV's, and
  its low half is advanced by one per 16 bytes of the stream.
- `Consecutive`: the blocks since the caller's IV stand at consecutive
  places, and `counter_` stands at the next place.

Each action preserves `NInv`, by one lemma per action (`NextNInv`). Distinct
places less than 2^64 apart are distinct blocks (`ModDistinct`).

Two more theorems follow from `NInv`:
- `CounterCountsBlocks`, `Spec => []CounterLink`: spec 8.8. The counter
  increments exactly once per 16 ciphertext bytes, over any split into
  calls.
- `UpdateIvResumes`: an action property,
  `[][UpdateIv => IndexOf(counter', Len(iv')) = IndexOf(counter, Len(iv))]_vars`.
  `UpdateIv` starts the next sample at the block after the last block of
  the finished one.

TLC checks `NoKeystreamReuse` on the small instance. It cannot check the
numeric parts of `NInv`, or the action property, because its integers stop
at 2^31. The non-numeric conjunct `BlockCount` was checked as an invariant
of the `aes_ctr` configuration before the proof was written. 2^64 is written
as a numeral (`Two64`), because the SMT backend does not evaluate `^`.

### No reuse across samples (`SampleEncryptorNoReuse`)

`SamplesNoReuse` proves `SamplesUseDisjointKeystream` of the sample
encryptor for every value of the constants that satisfies
`CipherBound(cb)`, for some bound `cb`:
- every video slice has at most `cb` cipher bytes, and
  `MaxNals * cb <= 255 * 16`. A sample then uses at most 255 blocks, the
  most by which `AddToIv` (like `Add8`, for `m < 256`) can advance an IV;
- `MaxSamples * 255 < 2^64`: the samples of a track together stay below
  2^64 blocks, beyond which the counter half wraps onto the track's first
  block. This is again the limit of CTR, not a bug.

The statement is
`ASSUME NEW cb, CipherBound(cb) PROVE Spec => []SamplesUseDisjointKeystream`.

Each block is read as its place `IndexOf`, taken relative to the place of
the track's first IV modulo 2^64 (`Rel`). The inductive invariant `SInv(cb)`
is made of three groups of facts:
- a type invariant, including the fact that every stored `DecryptConfig`
  carries an 8- or 16-byte IV;
- `Chain`, the heart of the argument:
  - each sample's keystream stands at consecutive places from its IV
    (`OnStream`);
  - each sample's IV stands at least as far beyond an earlier sample's IV
    as that sample has blocks;
  - the current IV is at most `255 * Len(configs)` places from the first.
- the bounds that keep every place below 2^64:
  - the keystream in progress is at most `cb` bytes per NAL;
  - a sample with NALs still has a free sample slot.

`SamplesUseDisjointKeystream` is not inductive by itself. When
`FinishSample` advances the IV, the invariant must know where the finished
sample's blocks stand relative to the new IV. The step uses two lemmas:
- `AddToIvIndex`: `AddToIv(v, b)` moves the place by `b` mod 2^64;
- `ModShift`: this is still `b` places further relative to the first IV.

`OrderedDisjoint` then closes the argument. Two blocks of samples `i < j`
stand at `Rel(IvOf(i)) + k` and `Rel(IvOf(j)) + l`, with
`k < Blk(i) <= Rel(IvOf(j)) - Rel(IvOf(i))` and both places below 2^64, so
they differ (`NoWrapDistinct`). TLC cannot evaluate `SInv`, whose places
are 64-bit numbers. The run checks the property itself, and the mutant shows
that an IV update by the floor of the byte count breaks it.

### What stays with TLC

Only TLC checks the rest:
- the CBC module, which uses `Bitwise` for XOR. `RoundTrip` and
  `ChainingAcrossCalls` are statements about the recursive function
  `CbcEncrypt`, so they need induction over data.
- the segmenter module. It declares the RECURSIVE `CoalesceLoop`. Its
  properties are about `FlattenSeq`, `SelectSeq` and `FoldLeft`, which are
  recursive functions; a proof would have to show they exist, which is
  induction over data.
- the sample encryptor's `DecryptConfigDescribesSample`, which is about
  what recursive functions over layouts compute (induction over data).

TLAPS cannot be used on a module that reaches RECURSIVE or Bitwise. It also
cannot prove facts that need induction over data (what a recursive
definition computes for every input) or liveness. No liveness is claimed.

## Not modelled

These parts of the listed components are left out:
- the unit tests;
- the mock;
- DecryptConfig's pattern constructor and accessors: the model stores the
  'cenc' constructor's fields only;
- the header-only H265ByteToUnitStreamConverter and TextStreamInfo: they
  declare classes whose bodies are not in the tree, so there is no behaviour
  to translate;
- `GetInitRange` and `GetIndexRange`, which only return false;
- what the file names are: names are model values;
- box contents: boxes are tokens with a size;
- `OnSampleDurationReady`;
- pattern encryption (`cens`, `cbcs`) and CBC in the sample encryptor: the
  composition covers 'cenc' only.

Crypting before an IV is set reads an empty `counter_` (undefined behaviour).
The models only enable `Crypt` after an IV is installed.

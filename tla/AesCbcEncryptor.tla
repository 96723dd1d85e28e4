--------------------------- MODULE AesCbcEncryptor ---------------------------
(***************************************************************************)
(* AesCbcEncryptor of packager/media/base/aes_encryptor.cc (part_000):     *)
(* CBC with no padding, PKCS#5 padding or ciphertext stealing, and the     *)
(* chaining of internal_iv_ across calls.  AesCryptor::Crypt and SetIv     *)
(* (the base class, not in the source tree) are modelled from the spec     *)
(* (4.2): with a constant IV every call restarts from the stored IV,       *)
(* otherwise the chaining value carries over from the previous call.       *)
(*                                                                         *)
(* Bytes are concrete.  AES_encrypt under the installed key is a fixed     *)
(* invertible map on blocks (a rotation of the bytes, then XOR with a key  *)
(* block): the modes are checked for that block cipher, and nothing here   *)
(* depends on the strength of the cipher.                                   *)
(***************************************************************************)
EXTENDS AesCommon, Bitwise, SequencesExt

CONSTANTS
  Schemes,     \* padding schemes the encryptor may be constructed with
  KeySizes,    \* key lengths (bytes) a caller may pass to InitializeWithIv
  Ivs,         \* IVs a caller may pass to SetIv
  Plaintexts,  \* plaintexts a caller may pass to one Crypt call
  AesKey,      \* the key block of the stand-in block cipher
  MaxCalls     \* bound: Crypt calls since the caller last set an IV

ASSUME CbcAssumption ==
  /\ Schemes \subseteq {"none", "pkcs5", "cts"}
  /\ KeySizes \subseteq Nat
  /\ Ivs \subseteq Seq(Byte)
  /\ Plaintexts \subseteq Seq(Byte)
  /\ AesKey \in Block
  /\ MaxCalls \in Nat

VARIABLES
  padding_scheme,  \* padding_scheme_
  constant_iv,     \* constant_iv_flag == kUseConstantIv
  aes_key,         \* 0 before a key is installed, else the key's size
  iv,              \* AesCryptor::iv_ (<<>> until a SetIv succeeds)
  internal_iv,     \* internal_iv_: the CBC chaining value
  calls            \* the Crypt calls since the caller last set an IV

vars == <<padding_scheme, constant_iv, aes_key, iv, internal_iv, calls>>

(***************************************************************************)
(* The block cipher and AES_cbc_encrypt.                                   *)
(***************************************************************************)

XorBlock(a, b) == [j \in 1..AES_BLOCK_SIZE |-> a[j] ^^ b[j]]

\* AES_encrypt(in, out, aes_key()).
EncryptBlock(b) ==
  [j \in 1..AES_BLOCK_SIZE |-> b[(j % AES_BLOCK_SIZE) + 1] ^^ AesKey[j]]

\* The k-th 16-byte block of s.
BlockAt(s, k) ==
  SubSeq(s, (k - 1) * AES_BLOCK_SIZE + 1, k * AES_BLOCK_SIZE)

\* AES_cbc_encrypt(in, out, Len(p), key, ivec, AES_ENCRYPT) for a whole
\* number of blocks: the ciphertext, and ivec as the call leaves it (the
\* last ciphertext block).
CbcEncrypt(p, ivec) ==
  LET n == Len(p) \div AES_BLOCK_SIZE
      c[k \in 0..n] == IF k = 0 THEN ivec
                       ELSE EncryptBlock(XorBlock(BlockAt(p, k), c[k - 1]))
  IN [out |-> FlattenSeq([k \in 1..n |-> c[k]]), ivec |-> c[n]]

\* Mutant: a PKCS#5 pad is never a whole block.
NumPaddingBytesNoFullBlock(scheme, size) ==
  IF scheme = "pkcs5" /\ size % AES_BLOCK_SIZE # 0
  THEN AES_BLOCK_SIZE - (size % AES_BLOCK_SIZE) ELSE 0

\* AesCbcEncryptor::NumPaddingBytes.
NumPaddingBytes(scheme, size) ==
  IF scheme = "pkcs5" THEN AES_BLOCK_SIZE - (size % AES_BLOCK_SIZE) ELSE 0

\* residual_block.resize(AES_BLOCK_SIZE, fill).
Fill(s, fill) == s \o [j \in 1..(AES_BLOCK_SIZE - Len(s)) |-> fill]

\* Mutant: the block-aligned early return leaves internal_iv_ as it was.
CbcCryptAlignedKeepsIv(scheme, p, ivec) ==
  LET n == Len(p)
      residual_block_size == n % AES_BLOCK_SIZE
      cbc_size == n - residual_block_size
      cbc == CbcEncrypt(SubSeq(p, 1, cbc_size), ivec)
      residual_block == SubSeq(p, cbc_size + 1, n)
      pkcs5 == CbcEncrypt(Fill(residual_block, NumPaddingBytes(scheme, n)),
                          cbc.ivec)
      cts == CbcEncrypt(Fill(residual_block, 0), cbc.ivec)
  IN
  IF cbc_size = 0 /\ scheme = "cts" THEN [out |-> p, ivec |-> ivec]
  ELSE IF residual_block_size = 0 /\ scheme # "pkcs5"
  THEN [cbc EXCEPT !.ivec = ivec]
  ELSE IF scheme = "none"
  THEN [out |-> cbc.out \o residual_block, ivec |-> cbc.ivec]
  ELSE IF scheme = "pkcs5"
  THEN [out |-> cbc.out \o pkcs5.out, ivec |-> pkcs5.ivec]
  ELSE [out |-> SubSeq(cbc.out, 1, cbc_size - AES_BLOCK_SIZE) \o cts.out
                  \o SubSeq(cbc.out, cbc_size - AES_BLOCK_SIZE + 1,
                            cbc_size - AES_BLOCK_SIZE + residual_block_size),
        ivec |-> cts.ivec]

\* CryptInternal once the output buffer is large enough: the ciphertext and
\* internal_iv_ afterwards.  The early returns are taken in the code's order.
CbcCrypt(scheme, p, ivec) ==
  LET n == Len(p)
      residual_block_size == n % AES_BLOCK_SIZE
      cbc_size == n - residual_block_size
      cbc == CbcEncrypt(SubSeq(p, 1, cbc_size), ivec)
      residual_block == SubSeq(p, cbc_size + 1, n)
      pkcs5 == CbcEncrypt(Fill(residual_block, NumPaddingBytes(scheme, n)),
                          cbc.ivec)
      cts == CbcEncrypt(Fill(residual_block, 0), cbc.ivec)
  IN
  IF cbc_size = 0 /\ scheme = "cts" THEN [out |-> p, ivec |-> ivec]
  ELSE IF residual_block_size = 0 /\ scheme # "pkcs5" THEN cbc
  ELSE IF scheme = "none"
  THEN [out |-> cbc.out \o residual_block, ivec |-> cbc.ivec]
  ELSE IF scheme = "pkcs5"
  THEN [out |-> cbc.out \o pkcs5.out, ivec |-> pkcs5.ivec]
  ELSE [out |-> SubSeq(cbc.out, 1, cbc_size - AES_BLOCK_SIZE) \o cts.out
                  \o SubSeq(cbc.out, cbc_size - AES_BLOCK_SIZE + 1,
                            cbc_size - AES_BLOCK_SIZE + residual_block_size),
        ivec |-> cts.ivec]

(***************************************************************************)
(* Operations.                                                             *)
(***************************************************************************)

\* AesCbcEncryptor(padding_scheme, constant_iv_flag): a padding scheme
\* other than kNoPadding without a constant IV fails the CHECK (abort).
Init ==
  /\ padding_scheme \in Schemes
  /\ constant_iv \in BOOLEAN
  /\ padding_scheme # "none" => constant_iv
  /\ aes_key = 0
  /\ iv = <<>>
  /\ internal_iv = <<>>
  /\ calls = <<>>

\* Mutant: internal_iv_ is not resized to a whole block.
SetIvEffectNoResize(v) ==
  IF Len(v) \in {8, 16}
  THEN /\ iv' = v
       /\ internal_iv' = v
       /\ calls' = <<>>
  ELSE UNCHANGED <<iv, internal_iv, calls>>

\* AesCryptor::SetIv + AesCbcEncryptor::SetIvInternal on the IV v.
SetIvEffect(v) ==
  IF Len(v) \in {8, 16}
  THEN /\ iv' = v
       /\ internal_iv' = Pad16(v)
       /\ calls' = <<>>
  ELSE UNCHANGED <<iv, internal_iv, calls>>

SetIv ==
  /\ \E v \in Ivs : SetIvEffect(v)
  /\ UNCHANGED <<padding_scheme, constant_iv, aes_key>>

\* AesEncryptor::InitializeWithIv.
InitializeWithIv ==
  /\ \E size \in KeySizes, v \in Ivs :
       IF IsKeySizeValidForAes(size)
       THEN aes_key' = size /\ SetIvEffect(v)
       ELSE UNCHANGED <<aes_key, iv, internal_iv, calls>>
  /\ UNCHANGED <<padding_scheme, constant_iv>>

\* The chaining value a Crypt call starts from: AesCryptor::Crypt calls
\* SetIvInternal first when the IV is constant.
ChainingValue(const, v, chain) == IF const THEN Pad16(v) ELSE chain

\* AesCryptor::Crypt: with a constant IV, internal_iv_ is reset from iv_
\* first; then CryptInternal, which fails with nothing changed when the
\* output buffer is smaller than plaintext_size + NumPaddingBytes.
Crypt ==
  /\ iv # <<>>
  /\ Len(calls) < MaxCalls
  /\ \E p \in Plaintexts :
       LET required == Len(p) + NumPaddingBytes(padding_scheme, Len(p))
           ivec == ChainingValue(constant_iv, iv, internal_iv)
           r == CbcCrypt(padding_scheme, p, ivec)
       IN \E out_size \in {required - 1, required} \cap Nat :
            IF out_size < required
            THEN /\ internal_iv' = ivec
                 /\ UNCHANGED calls
            ELSE /\ internal_iv' = r.ivec
                 /\ calls' = Append(calls,
                               [plaintext |-> p, ivec |-> ivec, out |-> r.out])
  /\ UNCHANGED <<padding_scheme, constant_iv, aes_key, iv>>

Next == InitializeWithIv \/ SetIv \/ Crypt

Spec == Init /\ [][Next]_vars

(***************************************************************************)
(* Properties.                                                             *)
(***************************************************************************)

\* Type invariant: internal_iv_ is one whole chaining block once an IV is
\* set (the resize in SetIvInternal, aes_encryptor.cc:187-190).
TypeOK ==
  /\ padding_scheme \in {"none", "pkcs5", "cts"}
  /\ constant_iv \in BOOLEAN
  /\ iv \in {<<>>} \cup [1..8 -> Byte] \cup Block
  /\ internal_iv \in {<<>>} \cup Block
  /\ iv # <<>> => internal_iv \in Block
  /\ calls \in Seq([plaintext : Seq(Byte), ivec : Block, out : Seq(Byte)])

\* AES decryption: the inverse of EncryptBlock.
DecryptBlock(c) ==
  [j \in 1..AES_BLOCK_SIZE |->
     LET i == ((j - 2) % AES_BLOCK_SIZE) + 1 IN c[i] ^^ AesKey[i]]

\* CBC decryption of a whole number of blocks (NIST SP 800-38A).
CbcDecrypt(c, ivec) ==
  FlattenSeq([k \in 1..(Len(c) \div AES_BLOCK_SIZE) |->
                XorBlock(DecryptBlock(BlockAt(c, k)),
                         IF k = 1 THEN ivec ELSE BlockAt(c, k - 1))])

\* The decryption the spec (4.2, 8) prescribes for each padding scheme:
\* no padding leaves the residual bytes in clear; PKCS#5 strips as many
\* bytes as the last byte says; CTS leaves input shorter than a block
\* unchanged and otherwise recovers the stolen tail of the penultimate
\* block from the decryption of the last full block.
SpecDecrypt(scheme, c, ivec) ==
  LET n == Len(c)
      r == n % AES_BLOCK_SIZE
      full == n - r
  IN CASE scheme = "none" ->
            CbcDecrypt(SubSeq(c, 1, full), ivec) \o SubSeq(c, full + 1, n)
       [] scheme = "pkcs5" ->
            LET d == CbcDecrypt(c, ivec) IN SubSeq(d, 1, n - d[n])
       [] scheme = "cts" /\ (n < AES_BLOCK_SIZE \/ r = 0) ->
            IF n < AES_BLOCK_SIZE THEN c ELSE CbcDecrypt(c, ivec)
       [] scheme = "cts" ->
            LET y == DecryptBlock(BlockAt(c, full \div AES_BLOCK_SIZE))
                tail == SubSeq(c, full + 1, n)
                stolen == tail \o SubSeq(y, r + 1, AES_BLOCK_SIZE)
            IN CbcDecrypt(SubSeq(c, 1, full - AES_BLOCK_SIZE) \o stolen, ivec)
               \o [j \in 1..r |-> y[j] ^^ tail[j]]

\* Spec 8.3 and 8.4: every Crypt call's output has the length the padding
\* scheme prescribes and decrypts, from the chaining value the call used,
\* back to its plaintext (CryptInternal, aes_encryptor.cc:114-185).
RoundTrip ==
  \A k \in 1..Len(calls) :
    LET c == calls[k]
        n == Len(c.plaintext)
    IN /\ Len(c.out) = n + NumPaddingBytes(padding_scheme, n)
       /\ SpecDecrypt(padding_scheme, c.out, c.ivec) = c.plaintext

\* Spec 4.2: with a constant IV every call starts from the stored IV; with
\* cipher block chaining across calls, block-aligned calls since the IV
\* was set produce exactly the CBC encryption of their concatenation, as
\* one call over all of them would (the subsamples of a cbc1 sample).
ChainingAcrossCalls ==
  LET chained == ~constant_iv /\ padding_scheme = "none" /\ iv # <<>>
      aligned == \A k \in 1..Len(calls) :
                   Len(calls[k].plaintext) % AES_BLOCK_SIZE = 0
      joined(f) == FlattenSeq([k \in 1..Len(calls) |-> calls[k][f]])
  IN /\ constant_iv => \A k \in 1..Len(calls) : calls[k].ivec = Pad16(iv)
     /\ (chained /\ aligned) =>
          joined("out") = CbcEncrypt(joined("plaintext"), Pad16(iv)).out

=============================================================================

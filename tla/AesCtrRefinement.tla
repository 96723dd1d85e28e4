-------------------------- MODULE AesCtrRefinement --------------------------
(***************************************************************************)
(* Proof that AesCtrEncryptor implements the keystream contract           *)
(* CtrKeystream under key_iv <- iv, keystream <- stream.                   *)
(*                                                                         *)
(* Steps that install a key or an IV map to InstallIv or stutter, a        *)
(* Crypt call that only checks sizes stutters, each byte of the loop is    *)
(* EncryptByte (by CryptBytePosition), and UpdateIv is NextSample.  The    *)
(* last needs num_crypt_bytes_ to count exactly the bytes of the stream    *)
(* once the call in progress is done: Acct, proved inductive together     *)
(* with IInv.                                                              *)
(***************************************************************************)
EXTENDS AesCtrEncryptorProofs

\* num_crypt_bytes_ counts the bytes already encrypted under iv_ and the
\* bytes of the call in progress.
Acct == num_crypt_bytes = Len(stream) + remaining

RInv == IInv /\ Acct

LEMMA InitRInv == Init => RInv
<1>. SUFFICES ASSUME Init PROVE RInv
  OBVIOUS
<1>. QED BY InitIInv DEF Init, RInv, Acct

LEMMA NextAcct == RInv /\ [Next]_vars => Acct'
<1>. SUFFICES ASSUME RInv, [Next]_vars PROVE Acct'
  OBVIOUS
<1>0. TypeOK /\ Acct
  BY DEF RInv, IInv
<1>1. CASE InitializeWithIv
  BY <1>0, <1>1
     DEF InitializeWithIv, SetIvEffect, Idle, Acct, TypeOK
<1>2. CASE SetIv
  BY <1>0, <1>2 DEF SetIv, SetIvEffect, Idle, Acct, TypeOK
<1>3. CASE CryptInternal
  <2>0. PICK n \in CallSizes : \E out_size \in {n - 1, n} \cap Nat :
          IF out_size < n
          THEN UNCHANGED <<remaining, num_crypt_bytes>>
          ELSE remaining' = n /\ num_crypt_bytes' = num_crypt_bytes + n
    BY <1>3, Zenon DEF CryptInternal
  <2>1. PICK out_size \in {n - 1, n} \cap Nat :
          IF out_size < n
          THEN UNCHANGED <<remaining, num_crypt_bytes>>
          ELSE remaining' = n /\ num_crypt_bytes' = num_crypt_bytes + n
    BY <2>0
  <2>2. n \in Nat /\ remaining = 0 /\ stream' = stream
    BY <1>3, ConstantsAssumption DEF CryptInternal, Idle
  <2>3. CASE out_size < n
    BY <1>0, <2>1, <2>2, <2>3 DEF Acct
  <2>4. CASE ~(out_size < n)
    BY <1>0, <2>1, <2>2, <2>4 DEF Acct, TypeOK
  <2>. QED BY <2>3, <2>4
<1>4. CASE CryptByte
  <2>1. PICK e : /\ stream' = Append(stream, e)
                 /\ remaining' = remaining - 1
                 /\ num_crypt_bytes' = num_crypt_bytes
    BY <1>4, Zenon DEF CryptByte
  <2>2. Len(stream') = Len(stream) + 1
    BY <1>0, <2>1 DEF TypeOK
  <2>. QED BY <1>0, <2>1, <2>2 DEF Acct, TypeOK
<1>5. CASE UpdateIv
  BY <1>0, <1>5 DEF UpdateIv, Idle, Acct
<1>6. CASE UNCHANGED vars
  BY <1>0, <1>6 DEF vars, Acct
<1>. QED BY <1>1, <1>2, <1>3, <1>4, <1>5, <1>6 DEF Next

LEMMA NextRInv == RInv /\ [Next]_vars => RInv'
BY NextIInv, NextAcct DEF RInv

(***************************************************************************)
(* Each step of the encryptor is a step of the contract or a stutter.      *)
(***************************************************************************)

\* The contract and the encryptor share the helpers of AesCommon.
LEMMA SharedHelpers ==
  /\ \A v : Keystream!Pad16(v) = Pad16(v)
  /\ \A p : Keystream!NextPosition(p) = NextPosition(p)
  /\ \A v, m : Keystream!AddToIv(v, m) = AddToIv(v, m)
  /\ \A n : Keystream!BlocksConsumed(n) = BlocksConsumed(n)
BY DEF Keystream!Pad16, Pad16, Keystream!NextPosition, NextPosition,
       Keystream!Increment64, Increment64, Keystream!AddToIv, AddToIv,
       Keystream!BlocksConsumed, BlocksConsumed,
       Keystream!AES_BLOCK_SIZE, AES_BLOCK_SIZE

\* SetIvEffect(v) either installs v as the contract's IV or changes nothing.
LEMMA SetIvEffectMaps ==
  ASSUME NEW v \in Ivs, SetIvEffect(v)
  PROVE  [Keystream!Next]_<<iv, stream>>
<1>1. CASE Len(v) \in {8, 16}
  <2>1. Keystream!InstallIv(v)
    BY <1>1 DEF SetIvEffect, Keystream!InstallIv
  <2>. QED BY <2>1 DEF Keystream!Next
<1>2. CASE Len(v) \notin {8, 16}
  BY <1>2 DEF SetIvEffect
<1>. QED BY <1>1, <1>2

LEMMA CryptByteMaps ==
  ASSUME IInv, CryptByte
  PROVE  Keystream!EncryptByte
<1>. DEFINE blk == IF block_offset = 0 THEN counter ELSE encrypted_counter
            pos == <<blk, block_offset>>
<1>1. stream' = Append(stream, pos) /\ iv' = iv /\ remaining > 0
  BY Zenon DEF CryptByte
<1>2. iv # <<>>
  BY <1>1 DEF IInv, StreamLink
<1>3. pos = Keystream!NextKeystreamPosition
  <2>1. CASE stream = <<>>
    BY <2>1, CryptBytePosition, SharedHelpers
       DEF Keystream!NextKeystreamPosition
  <2>2. CASE stream # <<>>
    BY <2>2, CryptBytePosition, SharedHelpers
       DEF Keystream!NextKeystreamPosition
  <2>. QED BY <2>1, <2>2
<1>. QED BY <1>1, <1>2, <1>3 DEF Keystream!EncryptByte

LEMMA UpdateIvMaps ==
  ASSUME RInv, UpdateIv
  PROVE  Keystream!NextSample
<1>1. num_crypt_bytes = Len(stream)
  <2>1. Len(stream) \in Nat
    BY LenProperties DEF RInv, IInv, TypeOK
  <2>. QED BY <2>1 DEF UpdateIv, Idle, RInv, Acct
<1>. QED BY <1>1, SharedHelpers DEF UpdateIv, Keystream!NextSample

LEMMA StepMaps == RInv /\ [Next]_vars => [Keystream!Next]_<<iv, stream>>
<1>. SUFFICES ASSUME RInv, [Next]_vars PROVE [Keystream!Next]_<<iv, stream>>
  OBVIOUS
<1>1. CASE InitializeWithIv
  <2>1. PICK size \in KeySizes, v \in Ivs :
          IF IsKeySizeValidForAes(size)
          THEN aes_key' = size /\ SetIvEffect(v)
          ELSE UNCHANGED <<aes_key, iv, num_crypt_bytes, block_offset,
                           counter, stream, blocks, encrypted_counter>>
    BY <1>1 DEF InitializeWithIv
  <2>2. CASE IsKeySizeValidForAes(size)
    BY <2>1, <2>2, SetIvEffectMaps
  <2>3. CASE ~IsKeySizeValidForAes(size)
    BY <2>1, <2>3
  <2>. QED BY <2>2, <2>3
<1>2. CASE SetIv
  BY <1>2, SetIvEffectMaps DEF SetIv
<1>3. CASE CryptInternal
  BY <1>3 DEF CryptInternal
<1>4. CASE CryptByte
  BY <1>4, CryptByteMaps DEF RInv, Keystream!Next
<1>5. CASE UpdateIv
  BY <1>5, UpdateIvMaps DEF Keystream!Next
<1>6. CASE UNCHANGED vars
  BY <1>6 DEF vars
<1>. QED BY <1>1, <1>2, <1>3, <1>4, <1>5, <1>6 DEF Next

(***************************************************************************)
(* Theorem.                                                                *)
(***************************************************************************)

\* AesCtrEncryptor implements the keystream contract for every value of the
\* constants: however Crypt calls are split, fail or are interleaved with
\* key and IV installs, the bytes under one IV use one CTR stream from
\* <<Pad16(iv_), 0>>, and UpdateIv advances iv_ by exactly the blocks that
\* num_crypt_bytes_ counted for that stream.
THEOREM Refinement == Spec => KeystreamSpec
<1>1. Init => Keystream!Init
  BY DEF Init, Keystream!Init
<1>. QED BY <1>1, InitRInv, NextRInv, StepMaps, PTL
         DEF Spec, KeystreamSpec, Keystream!Spec

=============================================================================

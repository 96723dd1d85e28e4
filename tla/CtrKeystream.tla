---------------------------- MODULE CtrKeystream ----------------------------
(***************************************************************************)
(* What an AES-CTR encryptor promises its caller (spec 4.2, 4.3), with     *)
(* calls, buffers, keys and counter bookkeeping left out: under one IV the *)
(* bytes it encrypts use the keystream positions <<block, offset>> of one  *)
(* uninterrupted CTR stream that starts at byte 0 of the IV padded to a    *)
(* block; a new IV starts a new stream; moving on to the next sample       *)
(* advances the IV by the number of blocks the previous sample consumed    *)
(* and starts the stream again from it.                                    *)
(*                                                                         *)
(* AesCtrEncryptor implements this specification under the mapping        *)
(* key_iv <- iv, keystream <- stream.                                     *)
(***************************************************************************)
EXTENDS AesCommon

CONSTANT Ivs    \* IVs a caller may install

VARIABLES
  key_iv,       \* the IV in force (<<>> before one is installed)
  keystream     \* the positions used since key_iv was installed

Init ==
  /\ key_iv = <<>>
  /\ keystream = <<>>

\* The position the next encrypted byte uses.
NextKeystreamPosition ==
  IF keystream = <<>>
  THEN <<Pad16(key_iv), 0>>
  ELSE NextPosition(keystream[Len(keystream)])

\* A new IV of an accepted length (8 or 16 bytes) starts a new stream.
InstallIv(v) ==
  /\ Len(v) \in {8, 16}
  /\ key_iv' = v
  /\ keystream' = <<>>

\* One more byte is encrypted, at the next position of the stream.
EncryptByte ==
  /\ key_iv # <<>>
  /\ keystream' = Append(keystream, NextKeystreamPosition)
  /\ UNCHANGED key_iv

\* The next sample: the IV advances by the blocks the last one consumed.
NextSample ==
  /\ key_iv # <<>>
  /\ key_iv' = AddToIv(key_iv, BlocksConsumed(Len(keystream)))
  /\ keystream' = <<>>

Next ==
  \/ \E v \in Ivs : InstallIv(v)
  \/ EncryptByte
  \/ NextSample

Spec == Init /\ [][Next]_<<key_iv, keystream>>

=============================================================================

-------------------------- MODULE MCSampleEncryptor --------------------------
EXTENDS SampleEncryptor

\* An 8-byte IV; a 16-byte IV whose low half wraps within the first
\* sample while UpdateIv carries into its high half; and a 16-byte IV
\* whose samples follow each other in the low half, where an IV update
\* that advanced too little would reuse a block.
MCIvs == {<<0, 0, 0, 0, 0, 0, 0, 9>>,
          <<3, 1, 4, 1, 5, 9, 2, 6, 255, 255, 255, 255, 255, 255, 255, 255>>,
          <<2, 7, 1, 8, 2, 8, 1, 8, 0, 0, 0, 0, 0, 0, 0, 1>>}

\* Slices with a cipher part crossing a block, a slice with no cipher
\* bytes, a small clear NAL and a clear NAL so large that it fits in a
\* SubsampleEntry on its own but can be merged with nothing.
MCNals ==
  {[slice |-> TRUE, size |-> 21, header |-> 3],
   [slice |-> TRUE, size |-> 4, header |-> 4],
   [slice |-> FALSE, size |-> 5, header |-> 0],
   [slice |-> FALSE, size |-> 65530, header |-> 0]}

\* As MCNals, plus a clear NAL (an SEI, say) of more than 65535 bytes.
MCNalsLargeClear == MCNals \cup {[slice |-> FALSE, size |-> 65540, header |-> 0]}
=============================================================================

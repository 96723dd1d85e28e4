-------------------------- MODULE MCAesCbcEncryptor --------------------------
EXTENDS AesCbcEncryptor

\* A plaintext of n bytes, its bytes spread over 0..255.
MCPlain(n) == [j \in 1..n |-> (j * 29 + 7) % 256]

\* Empty (PKCS#5 gives one pad block), shorter than a block (CTS passes it
\* through), one block, one block plus a residual (CTS steals from the
\* only full block), two blocks, two blocks plus a residual.
MCPlaintexts == {MCPlain(n) : n \in {0, 2, 16, 21, 32, 37}}

\* An 8-byte IV (padded with zeros), a 16-byte IV, and a 4-byte IV that
\* SetIv rejects.
MCIvs == {[j \in 1..8 |-> 255 - j], [j \in 1..16 |-> j * 13 % 256],
          <<1, 2, 3, 4>>}

MCAesKey == [j \in 1..16 |-> (j * 53 + 1) % 256]
=============================================================================

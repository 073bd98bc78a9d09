----------------------------- MODULE BinaryText -----------------------------
(***************************************************************************)
(* Binary data as text: the loops of src/hex.c and src/base64.c, one       *)
(* iteration at a time.  A byte is a number below 256.                     *)
(***************************************************************************)
EXTENDS Text

Bytes == 0..255

(* decode_nibble; a character above is UINT8_MAX there.                    *)
Nibble(c) == IF c \in LowerHexDigits THEN c - 16 ELSE c
IsNibble(c) == c \in HexDigits \cup LowerHexDigits

(* What an iteration of a decoder does: the status to return with, or      *)
(* CONTINUE, the offset, and the bytes it stores.                          *)
Outcome(st, i, bytes) == [status |-> st, at |-> i, bytes |-> bytes]

(* One iteration of exess_read_hex, with this much of the output written.  *)
DecodeHex(str, i, o, size) ==
  LET hi == CharAt(str, i)
      lo == CharAt(str, i + 1)
  IN  IF hi = End THEN Outcome("SUCCESS", i, <<>>)
      ELSE IF ~IsNibble(hi)
      THEN Outcome(IF o = 0 THEN "EXPECTED_HEX" ELSE "SUCCESS", i, <<>>)
      ELSE IF ~IsNibble(lo) THEN Outcome("EXPECTED_HEX", i + 1, <<>>)
      ELSE IF o >= size THEN Outcome("NO_SPACE", i + 2, <<>>)
      ELSE Outcome("CONTINUE", i + 2, <<16 * Nibble(hi) + Nibble(lo)>>)

EncodeHex(bytes) ==
  [i \in 1..(2 * Len(bytes)) |->
     IF i % 2 = 1 THEN bytes[(i + 1) \div 2] \div 16 ELSE bytes[i \div 2] % 16]

-----------------------------------------------------------------------------
IsBase64(c) == c \in Base64Digits \cup {Pad}

(* Offsets of four characters, with whitespace before any of them.         *)
ChunkOffsets(str, i) ==
  LET first == skip_whitespace(str, i)
      second == skip_whitespace(str, first + 1)
      third == skip_whitespace(str, second + 1)
  IN  <<first, second, third, skip_whitespace(str, third + 1)>>

(* The bytes of four characters, the padding excepted.                     *)
ChunkBytes(in) ==
  <<4 * in[1] + in[2] \div 16>>
    \o (IF in[3] = Pad THEN <<>> ELSE <<((16 * in[2]) % 256) + in[3] \div 4>>)
    \o (IF in[4] = Pad THEN <<>> ELSE <<((64 * in[3]) % 256) + in[4]>>)

(* Mistake: only the room for the first byte is checked.                   *)
DecodeBase64Unchecked(str, i, o, size) ==
  LET offsets == ChunkOffsets(str, i)
      in == [k \in 1..4 |-> CharAt(str, offsets[k])]
      invalid == {k \in 1..4 : ~IsBase64(in[k])}
  IN  IF in[1] = End THEN Outcome("SUCCESS", offsets[1], <<>>)
      ELSE IF invalid # {}
      THEN Outcome("EXPECTED_BASE64",
                   offsets[CHOOSE k \in invalid : \A l \in invalid : k <= l], <<>>)
      ELSE IF in[1] = Pad \/ in[2] = Pad \/ (in[3] = Pad /\ in[4] # Pad)
      THEN Outcome("BAD_VALUE", offsets[4] + 1, <<>>)
      ELSE IF o + 1 > size THEN Outcome("NO_SPACE", offsets[4] + 1, <<>>)
      ELSE Outcome("CONTINUE", offsets[4] + 1, ChunkBytes(in))

(* One iteration of exess_read_base64.                                     *)
DecodeBase64(str, i, o, size) ==
  LET offsets == ChunkOffsets(str, i)
      in == [k \in 1..4 |-> CharAt(str, offsets[k])]
      invalid == {k \in 1..4 : ~IsBase64(in[k])}
  IN  IF in[1] = End THEN Outcome("SUCCESS", offsets[1], <<>>)
      ELSE IF invalid # {}
      THEN Outcome("EXPECTED_BASE64",
                   offsets[CHOOSE k \in invalid : \A l \in invalid : k <= l], <<>>)
      ELSE IF in[1] = Pad \/ in[2] = Pad \/ (in[3] = Pad /\ in[4] # Pad)
      THEN Outcome("BAD_VALUE", offsets[4] + 1, <<>>)
      ELSE IF o + Len(ChunkBytes(in)) > size THEN Outcome("NO_SPACE", offsets[4] + 1, <<>>)
      ELSE Outcome("CONTINUE", offsets[4] + 1, ChunkBytes(in))

(* Four characters for up to three bytes.                                  *)
EncodeChunk(in) ==
  LET byte(n) == IF n <= Len(in) THEN in[n] ELSE 0
  IN  <<byte(1) \div 4,
        16 * (byte(1) % 4) + byte(2) \div 16,
        IF Len(in) > 1 THEN 4 * (byte(2) % 16) + byte(3) \div 64 ELSE Pad,
        IF Len(in) > 2 THEN byte(3) % 64 ELSE Pad>>

EncodeBase64[bytes \in Seq(Bytes)] ==
  IF Len(bytes) <= 3
  THEN IF bytes = <<>> THEN <<>> ELSE EncodeChunk(bytes)
  ELSE EncodeChunk(SubSeq(bytes, 1, 3)) \o EncodeBase64[SubSeq(bytes, 4, Len(bytes))]

exess_decoded_hex_size(length) == length \div 2
exess_decoded_base64_size(length) == (length * 3) \div 4 + 2

=============================================================================

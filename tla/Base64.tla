-------------------------------- MODULE Base64 --------------------------------
(***************************************************************************)
(* Base64 and Base64UrlDecode (src/detail/crypto.cpp), on which tokens,    *)
(* checksums and every binary body across the C ABI rest.  Bytes are       *)
(* encoded a group of three at a time, with or without padding, and a text *)
(* is decoded a character at a time through a word of bits.                *)
(*                                                                         *)
(* In the code a byte has 8 bits, a symbol 6, the word 32.  Here the       *)
(* widths are parameters, so that small ones can be checked exhaustively;  *)
(* a group is always three bytes and four symbols.  A symbol stands for    *)
(* the character of the alphabet (the decoder takes those of both), Pad    *)
(* for "=", Other for a character of neither.                              *)
(***************************************************************************)
EXTENDS Integers, Sequences

CONSTANTS ByteBits, SymbolBits, WordBits, Pad, Other,
          Data,     \* the sequences of bytes to encode
          Texts     \* the texts to decode that are not made here

\* 2^n, as a function the provers can follow.
PowerOf2[n \in Nat] == IF n = 0 THEN 1 ELSE 2 * PowerOf2[n - 1]

Bytes == 0 .. PowerOf2[ByteBits] - 1
Symbols == 0 .. PowerOf2[SymbolBits] - 1
Word == PowerOf2[WordBits]

\* The widths the code has, in proportion: three bytes make four symbols, and the
\* word holds what is left of one symbol too many.
WidthsFit ==
  /\ {ByteBits, SymbolBits, WordBits} \subseteq Nat \ {0}
  /\ 3 * ByteBits = 4 * SymbolBits
  /\ WordBits >= ByteBits + SymbolBits

InputsFit ==
  /\ \A c \in {Pad, Other} : c \notin Int
  /\ Data \subseteq Seq(Bytes)
  /\ Texts \subseteq Seq(Symbols \cup {Pad, Other})

VARIABLES data,      \* what is encoded
          padding,   \* Base64Encode pads, Base64UrlEncode does not
          text,      \* what is encoded so far, or decoded
          offset,    \* of the group that is encoded, or of the character
          buffer, bits, output,
          phase

vars == <<data, padding, text, offset, buffer, bits, output, phase>>

Init == /\ \/ data \in Data /\ padding \in BOOLEAN /\ text = <<>> /\ phase = "encode"
           \/ data = <<>> /\ padding = FALSE /\ text \in Texts /\ phase = "decode"
        /\ offset = 0 /\ buffer = 0 /\ bits = 0 /\ output = <<>>

-------------------------------------------------------------------------------
\* Base64

ByteAt(i) == IF i < Len(data) THEN data[i + 1] ELSE 0

\* The three bytes from offset as one number.
Group == (ByteAt(offset) * PowerOf2[ByteBits] + ByteAt(offset + 1)) * PowerOf2[ByteBits] + ByteAt(offset + 2)

\* The symbol at place 0, 1, 2 or 3 of the group, if a byte of the data has a
\* bit in it.
Symbol(place) == (Group \div PowerOf2[(3 - place) * SymbolBits]) % PowerOf2[SymbolBits]

\* Mutant: the last byte of the data does not count.
PlaceShort(place) == IF place < 2 \/ offset + place < Len(data) THEN <<Symbol(place)>>
                     ELSE IF padding THEN <<Pad>> ELSE <<>>

Place(place) == IF place < 2 \/ offset + place - 1 < Len(data) THEN <<Symbol(place)>>
                ELSE IF padding THEN <<Pad>> ELSE <<>>

EncodeGroup ==
  /\ phase = "encode" /\ offset < Len(data)
  /\ text' = text \o Place(0) \o Place(1) \o Place(2) \o Place(3)
  /\ offset' = offset + 3
  /\ UNCHANGED <<data, padding, buffer, bits, output, phase>>

\* What was encoded is decoded.
Encoded ==
  /\ phase = "encode" /\ offset >= Len(data)
  /\ phase' = "decode" /\ offset' = 0
  /\ UNCHANGED <<data, padding, text, buffer, bits, output>>

-------------------------------------------------------------------------------
\* Base64UrlDecode

Char == text[offset + 1]
AtEnd == offset < Len(text) => Char = Pad

\* The word keeps its lowest WordBits bits.
Shifted == (buffer * PowerOf2[SymbolBits] + Char) % Word

\* Once there are the bits of a byte they are taken.
TakeByte ==
  IF bits + SymbolBits >= ByteBits
  THEN /\ bits' = bits + SymbolBits - ByteBits
       /\ output' = Append(output, (buffer' \div PowerOf2[bits']) % PowerOf2[ByteBits])
  ELSE bits' = bits + SymbolBits /\ UNCHANGED output

DecodeChar ==
  /\ phase = "decode" /\ ~AtEnd
  /\ IF Char = Other THEN phase' = "invalid" /\ UNCHANGED <<offset, buffer, bits, output>>
     ELSE /\ buffer' = Shifted
          /\ TakeByte
          /\ offset' = offset + 1
          /\ UNCHANGED phase
  /\ UNCHANGED <<data, padding, text>>

\* A symbol that makes no byte is left, or the text cannot be one.
Malformed == bits >= SymbolBits \/ Len(text) % 4 = 1

DecodeEnds ==
  /\ phase = "decode" /\ AtEnd
  /\ phase' = IF Malformed THEN "malformed" ELSE "done"
  /\ UNCHANGED <<data, padding, text, offset, buffer, bits, output>>

Returned == phase \in {"invalid", "malformed", "done"} /\ UNCHANGED vars

Next == EncodeGroup \/ Encoded \/ DecodeChar \/ DecodeEnds \/ Returned

Spec == Init /\ [][Next]_vars

-------------------------------------------------------------------------------
\* The bit at place i, counted from 0, of a sequence of numbers of width bits.
BitOf(numbers, width, i) == (numbers[(i \div width) + 1] \div PowerOf2[width - 1 - (i % width)]) % 2

\* There is one encoding of a sequence of bytes, which is what makes it right
\* to compare checksums by their encodings: what is left of the last symbol is
\* zero, and a padded text is a multiple of four.
OneEncoding == phase # "encode" /\ data # <<>> =>
  LET symbols == {i \in 1 .. Len(text) : text[i] # Pad}
  IN /\ \A i \in symbols : \A b \in (i - 1) * SymbolBits .. i * SymbolBits - 1 :
          b >= Len(data) * ByteBits => BitOf(text, SymbolBits, b) = 0
     /\ padding => Len(text) = 4 * ((Len(data) + 2) \div 3)

\* Every sequence of bytes comes back from its encoding, padded or not.  And
\* whatever text is accepted, its bytes are its bits in order: all of those of
\* the symbols before the first Pad, but fewer than a symbol left at the end.
DecodesExactly ==
  /\ data # <<>> => phase \notin {"invalid", "malformed"} /\ (phase = "done" => output = data)
  /\ phase = "done" =>
       /\ \A i \in 0 .. Len(output) * ByteBits - 1 :
            BitOf(output, ByteBits, i) = BitOf(text, SymbolBits, i)
       /\ offset * SymbolBits - Len(output) * ByteBits \in 0 .. SymbolBits - 1
       /\ offset < Len(text) => text[offset + 1] = Pad

\* Encoding and decoding lose nothing: the checksum of a webhook body can be
\* compared as text, and a signature as bytes.
CodecExact == DecodesExactly /\ OneEncoding
================================================================================

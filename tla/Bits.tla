-------------------------------- MODULE Bits --------------------------------
(***************************************************************************)
(* The SSZ bit sequences of the Beacon API (src/src/scanner/bits.rs).  A   *)
(* bitvector has a fixed length; a bitlist ends with a sentinel bit, the   *)
(* highest one set in its last byte.  Bits are little-endian in a byte.    *)
(* Hexadecimal is left out: a value is the sequence of its bytes, and a    *)
(* byte is its bits, the function from the positions 0..BitsPerByte-1 (8   *)
(* in the code) to BOOLEAN.                                                *)
(***************************************************************************)
EXTENDS Integers, Sequences

CONSTANT BitsPerByte

ASSUME BitsPerByteAssumption == BitsPerByte \in Nat \ {0}

\* decode_bitvector: `(byte >> i) & 1 == 1` for every bit of every byte.
DecodeBitvector(bytes) ==
  [p \in 1..(Len(bytes) * BitsPerByte) |->
     bytes[1 + (p - 1) \div BitsPerByte][(p - 1) % BitsPerByte]]

\* decode_bitlist refuses an empty input and a last byte that is zero.
BitlistWellFormed(bytes) ==
  bytes # << >> /\ \E i \in 0..(BitsPerByte - 1) : bytes[Len(bytes)][i]

\* `7 - last_byte.leading_zeros()`: the highest bit set.
SentinelPosition(byte) ==
  CHOOSE i \in 0..(BitsPerByte - 1) :
    byte[i] /\ \A j \in (i + 1)..(BitsPerByte - 1) : ~byte[j]

\* decode_bitlist: the data bits before the sentinel.
DecodeBitlist(bytes) ==
  SubSeq(DecodeBitvector(bytes), 1,
         (Len(bytes) - 1) * BitsPerByte + SentinelPosition(bytes[Len(bytes)]))

(***************************************************************************)
(* The other side of the encoding, as the consensus specification has it:  *)
(* what a beacon node sends for a sequence of bits.                        *)
(***************************************************************************)

\* One byte: bits first, first+1, ... of `bits`, zero past its end.
ByteAt(bits, first) ==
  [i \in 0..(BitsPerByte - 1) |-> first + i <= Len(bits) /\ bits[first + i]]

EncodeBitvector(bits) ==
  [b \in 1..((Len(bits) + BitsPerByte - 1) \div BitsPerByte) |->
     ByteAt(bits, (b - 1) * BitsPerByte + 1)]

EncodeBitlist(bits) == EncodeBitvector(Append(bits, TRUE))

=============================================================================

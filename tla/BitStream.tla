------------------------------ MODULE BitStream ------------------------------
(***************************************************************************)
(* The encodings of core/BitStream.as.  A stream is the sequence of the     *)
(* bits written, the lowest bit of an integer first, and a read takes them  *)
(* from a position on.                                                      *)
(*                                                                          *)
(* Running off the end of a packet is part of the modules that write and    *)
(* read packets; here a stream is the record of one object, and what        *)
(* follows it in the packet reads as zeros.                                 *)
(*                                                                          *)
(* Fields are narrower than an int (at most 30 bits, ranges of less than    *)
(* 2^30 numbers): the code's int arithmetic on them does not wrap.          *)
(***************************************************************************)
EXTENDS Integers, Sequences

CONSTANT Grain      \* numbers between two steps of an encoded float

ASSUME GrainAssumption == Grain \in Nat \ {0}

WriteFlag(value) == <<value>>
ReadFlag(bits, pos) == IF pos < Len(bits) THEN bits[pos + 1] ELSE 0

\* 1 << n.
Bit[n \in Nat] == IF n = 0 THEN 1 ELSE 2 * Bit[n - 1]

(* writeInt() writes the low bits, whatever the value.                      *)
WriteInt(value, bitCount) ==
    [i \in 1..bitCount |-> (value \div Bit[i - 1]) % 2]

ReadInt(bits, pos, bitCount) ==
    LET val[i \in 0..bitCount] ==
            IF i = 0 THEN 0
            ELSE val[i - 1] + ReadFlag(bits, pos + i - 1) * Bit[i - 1]
    IN  val[bitCount]

(* PBUtil.getBitCountForRange(), which is not in the repository.            *)
BitCountForRange(range) == CHOOSE n \in 0..range :
    /\ Bit[n] >= range
    /\ \A m \in 0 .. n - 1 : Bit[m] < range

RangeBits(min, max) == BitCountForRange(max - min + 1)

WriteRangedInt(value, min, max) == WriteInt(value - min, RangeBits(min, max))

ReadRangedInt(bits, pos, min, max) == min + ReadInt(bits, pos, RangeBits(min, max))

(* What readRangedInt() throws at.                                          *)
AboveRange_OffByOne(value, max) == value > max + 1                  \* mutant

AboveRange(value, max) == value > max

(* Floats between 0 and 1.  The number n stands for n / (Grain * S), where  *)
(* S is the greatest integer of bitCount bits: writeFloat() multiplies by S *)
(* and truncates, readFloat() divides by S.                                 *)
WriteFloat(value, bitCount) == WriteInt(value \div Grain, bitCount)

ReadFloat(bits, pos, bitCount) == Grain * ReadInt(bits, pos, bitCount)
==============================================================================

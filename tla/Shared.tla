------------------------------- MODULE Shared -------------------------------
(***************************************************************************)
(* The arithmetic on packet buffers of net/shared.c and net/icmp.c, with   *)
(* its widths: a number in a buffer is a sequence of bytes, the highest    *)
(* first, and a word is two of them.                                       *)
(***************************************************************************)
EXTENDS Integers, Sequences

CONSTANT Base   \* the number of values of a byte: 256

ASSUME BaseAssumption == Base \in Nat /\ Base >= 2

Byte == 0 .. Base - 1
WordSize == Base * Base
Word == 0 .. WordSize - 1

Bytes(w) == <<w \div Base, w % Base>>

\* The mutant adds to the last byte alone.
add_value_to_buffer_NoCarry(value, buff) ==
    [i \in DOMAIN buff |-> IF i = Len(buff) THEN (value + buff[i]) % Base ELSE buff[i]]

\* What is left of value when k bytes have been added to: value has 16 bits.
\* (The loop stops when nothing is left; adding nothing changes nothing.)
add_value_to_buffer(value, buff) ==
    LET left[k \in 0 .. Len(buff)] ==
          IF k = 0 THEN value
          ELSE ((left[k - 1] + buff[Len(buff) - k + 1]) % WordSize) \div Base
    IN [i \in DOMAIN buff |-> (left[Len(buff) - i] + buff[i]) % Base]

\* The sum of the words of a buffer, a last single byte padded with zero.
SumWords(buff) ==
    LET sum[k \in 0 .. Len(buff)] ==
          IF k = 0 THEN 0
          ELSE sum[k - 1] + buff[k] * (IF k % 2 = 1 THEN Base ELSE 1)
    IN sum[Len(buff)]

\* The mutant forgets what does not fit into a word.
Folded_Truncated(sum) == sum % WordSize

\* The loop of checksum: a sum of 32 bits fits into a word after two rounds.
Folded(sum) == LET once == (sum % WordSize) + (sum \div WordSize)
               IN (once % WordSize) + (once \div WordSize)

Complement(w) == WordSize - 1 - w

\* extra stands for the protocol and the length of a pseudo header, 0 for IP.
checksum(buff, extra) == Complement(Folded(extra + SumWords(buff)))

\* The receiver's test, in one's complement arithmetic: the words with the
\* checksum among them add up to zero.
Verifies(buff, extra) == (extra + SumWords(buff)) % (WordSize - 1) = 0
=============================================================================

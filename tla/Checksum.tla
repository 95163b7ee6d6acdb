------------------------------ MODULE Checksum ------------------------------
(***************************************************************************)
(* The checksum of ICMP headers (RFC 1071) in inf22-1/main.c, from the sum *)
(* of a packet's 16-bit words, which is kept in an unsigned int.           *)
(***************************************************************************)
EXTENDS Integers

Word == {w \in Nat : w <= 65535}

\* A mutated Carried: the carry of adding the carry is lost.
CarriedOnce(sum) == ((sum \div 65536) + (sum % 65536)) % 65536

\* The carry above 16 bits is added, and once more what that carries.
Carried(sum) ==
  LET once == (sum \div 65536) + (sum % 65536)
  IN  (once + (once \div 65536)) % 65536

checksum(sum) == 65535 - Carried(sum)

\* What a receiver looks at: with the checksum the words add up to all ones.
Verifies(sum) == Carried(sum) = 65535
=============================================================================

-------------------------------- MODULE Bytes --------------------------------
(***************************************************************************)
(* The 8-bit and 16-bit values of base/types.h and the arithmetic the      *)
(* simulator does on them.                                                 *)
(***************************************************************************)
EXTENDS Integers

Byte == 0 .. 255
Word == 0 .. 65535

(* A byte or a word wraps like the unsigned integer it holds. *)
AsByte(n) == n % 256
AsWord(n) == n % 65536

high(w) == w \div 256
low(w) == w % 256
MakeWord(hi, lo) == hi * 256 + lo

(* Bit i of n, as 0 or 1, and the byte with given bits. *)
Bit(n, i) == (n \div 2 ^ i) % 2
FromBits(f) == f[0] + 2 * f[1] + 4 * f[2] + 8 * f[3] + 16 * f[4] + 32 * f[5]
                 + 64 * f[6] + 128 * f[7]

BitAnd(m, n) == FromBits([i \in 0 .. 7 |-> Bit(m, i) * Bit(n, i)])
BitOr(m, n) == m + n - BitAnd(m, n)
BitXor(m, n) == m + n - 2 * BitAnd(m, n)

(* Byte n with bit i set or cleared. *)
WithBit(n, i, on) ==
  n + (IF on THEN (1 - Bit(n, i)) * 2 ^ i ELSE - (Bit(n, i) * 2 ^ i))

(* static_cast<int8_t>: a byte read as two's complement. *)
Signed(n) == IF n >= 128 THEN n - 256 ELSE n
=============================================================================

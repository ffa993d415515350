--------------------------------- MODULE Alu ---------------------------------
(***************************************************************************)
(* The arithmetic unit of sim/src/alu/alu.cpp: from its two operand        *)
(* registers, its opcode bits and the carry flag it computes the result    *)
(* register and the carry and overflow flags.                              *)
(***************************************************************************)
EXTENDS Bytes

ADD == 1
SUB == 2
INC == 3
AND == 4
OR == 5
XOR == 6
ASL == 7
LSR == 8
ROL == 9
ROR == 10
DEC == 11
BIT == 12

AsBit(b) == IF b THEN 1 ELSE 0
Negative(n) == Bit(n, 7) = 1

(* Mutants: the carry in is lost; overflow is taken from the carry. *)
AddNoCarryIn(s) ==
  LET sum == s.lhs + s.rhs
  IN  [s EXCEPT !.result = AsByte(sum), !.carry = sum > 255,
                !.overflow = /\ Negative(s.lhs) = Negative(s.rhs)
                             /\ Negative(s.lhs) # Negative(AsByte(sum))]
AddCarryOverflow(s) ==
  LET sum == s.lhs + s.rhs + AsBit(s.carry)
  IN  [s EXCEPT !.result = AsByte(sum), !.carry = sum > 255,
                !.overflow = sum > 255]

(* ADD: overflow when two operands of one sign give a sum of the other. *)
Add(s) ==
  LET sum == s.lhs + s.rhs + AsBit(s.carry)
  IN  [s EXCEPT !.result = AsByte(sum),
                !.carry = sum > 255,
                !.overflow = /\ Negative(s.lhs) = Negative(s.rhs)
                             /\ Negative(s.lhs) # Negative(AsByte(sum))]

(* SUB: the carry is "no borrow"; overflow is left alone. *)
Subtract(s) ==
  LET subtrahend == s.rhs + 1 - AsBit(s.carry)
  IN  [s EXCEPT !.result = AsByte(s.lhs - subtrahend),
                !.carry = s.lhs >= subtrahend]

(* INC, DEC and BIT change no flag. *)
Only(s, r) == [s EXCEPT !.result = r]

(* The logical operations clear both flags. *)
Logic(s, r) == [s EXCEPT !.result = r, !.carry = FALSE, !.overflow = FALSE]

(* Mutant: the bit shifted out is lost. *)
ShiftKeepsCarry(s, r, out) == [s EXCEPT !.result = r, !.overflow = FALSE]

(* Shifts and rotates: bit out goes to the carry, overflow is cleared. *)
Shift(s, r, out) ==
  [s EXCEPT !.result = r, !.carry = (out = 1), !.overflow = FALSE]

(* Alu::TickProcess, as a function of the state it reads.  Opcode 0 and the
   unused opcodes do nothing. *)
Compute(op, s) ==
  LET left == AsByte(2 * s.lhs)
      right == s.lhs \div 2
  IN  CASE op = ADD -> Add(s)
        [] op = SUB -> Subtract(s)
        [] op = INC -> Only(s, AsByte(s.lhs + 1))
        [] op = AND -> Logic(s, BitAnd(s.lhs, s.rhs))
        [] op = OR  -> Logic(s, BitOr(s.lhs, s.rhs))
        [] op = XOR -> Logic(s, BitXor(s.lhs, s.rhs))
        [] op = ASL -> Shift(s, left, Bit(s.lhs, 7))
        [] op = LSR -> Shift(s, right, Bit(s.lhs, 0))
        [] op = ROL -> Shift(s, left + AsBit(s.carry), Bit(s.lhs, 7))
        [] op = ROR -> Shift(s, right + 128 * AsBit(s.carry), Bit(s.lhs, 0))
        [] op = DEC -> Only(s, AsByte(s.lhs - 1))
        [] op = BIT -> Only(s, BitAnd(s.lhs, s.rhs))
        [] OTHER -> s
=============================================================================

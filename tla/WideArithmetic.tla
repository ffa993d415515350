--------------------------- MODULE WideArithmetic ---------------------------
(***************************************************************************)
(* What programs build from the ALU: 16-bit arithmetic, one byte after the *)
(* other, the carry flag taking the carry or borrow from one operation to  *)
(* the next.                                                               *)
(***************************************************************************)
EXTENDS Alu

CONSTANTS
  Wide,    \* 16-bit operands
  Starts   \* values of the carry and overflow flags before the first operation

ASSUME WideAssumption == Wide \subseteq Word
ASSUME StartsAssumption == Starts \subseteq BOOLEAN \X BOOLEAN

Chains == {"add", "subtract", "shift_left", "shift_right", "rotate"}

VARIABLES
  chain,   \* what is being computed
  m, n,    \* its operands
  lo, hi,  \* the result bytes so far
  s,       \* the ALU and its flags
  step     \* operations done

wideVars == <<chain, m, n, lo, hi, s, step>>

(* A rotation through the carry takes nine bits round. *)
Steps == IF chain = "rotate" THEN 9 ELSE 2

WideInit ==
  /\ chain \in Chains
  /\ m \in Wide
  /\ n \in Wide
  /\ lo = low(m)
  /\ hi = high(m)
  /\ \E f \in Starts :
       s = [lhs |-> 0, rhs |-> 0, result |-> 0, carry |-> f[1], overflow |-> f[2]]
  /\ step = 0

(* One ALU operation on l and r, the carry first set or cleared by SEC or
   CLC where c says so. *)
Loaded(t, l, r, c) == [t EXCEPT !.lhs = l, !.rhs = r, !.carry = c]
Operate(op, l, r, c) == Compute(op, Loaded(s, l, r, c))

(* ADC and SBC start with the low byte, as do ASL and ROL; LSR and ROR start
   with the high byte. *)
LowStep(op, c) ==
  /\ s' = Operate(op, lo, low(n), c)
  /\ lo' = s'.result
  /\ UNCHANGED hi
HighStep(op, c) ==
  /\ s' = Operate(op, hi, high(n), c)
  /\ hi' = s'.result
  /\ UNCHANGED lo

WideNext ==
  /\ step < Steps
  /\ \/ chain = "add" /\ step = 0 /\ LowStep(ADD, FALSE)
     \/ chain = "add" /\ step = 1 /\ HighStep(ADD, s.carry)
     \/ chain = "subtract" /\ step = 0 /\ LowStep(SUB, TRUE)
     \/ chain = "subtract" /\ step = 1 /\ HighStep(SUB, s.carry)
     \/ chain = "shift_left" /\ step = 0 /\ LowStep(ASL, s.carry)
     \/ chain = "shift_left" /\ step = 1 /\ HighStep(ROL, s.carry)
     \/ chain = "shift_right" /\ step = 0 /\ HighStep(LSR, s.carry)
     \/ chain = "shift_right" /\ step = 1 /\ LowStep(ROR, s.carry)
     \/ chain = "rotate" /\ LowStep(ROL, s.carry)
  /\ step' = step + 1
  /\ UNCHANGED <<chain, m, n>>

WideSpec == WideInit /\ [][WideNext]_wideVars

(* A word read as two's complement. *)
SignedWord(w) == IF w >= 32768 THEN w - 65536 ELSE w
SignedWords == -32768 .. 32767

Result == MakeWord(hi, lo)

(* Two chained byte operations (Alu::TickProcess on the low bytes, then on
   the high bytes with the carry the first one left) compute the 16-bit sum
   or difference modulo 2^16 and leave its carry, or the complement of its
   borrow. *)
SumsAreExact ==
  step = 2 =>
    /\ chain = "add" => Result = AsWord(m + n) /\ s.carry = (m + n > 65535)
    /\ chain = "subtract" => Result = AsWord(m - n) /\ s.carry = (m >= n)

(* The same for ASL and ROL, and for LSR and ROR: they shift a word by one
   bit, and the bit shifted out is left in the carry.  Nine rotations give a
   byte back: no bit is lost through the carry. *)
ShiftsAreExact ==
  /\ step = 2 =>
       /\ chain = "shift_left" => Result = AsWord(2 * m) /\ s.carry = (m >= 32768)
       /\ chain = "shift_right" => Result = m \div 2 /\ s.carry = (m % 2 = 1)
  /\ chain = "rotate" /\ step = 9 => lo = low(m)

(* After a chained addition the overflow flag tells whether the signed
   16-bit sum fits. *)
AddOverflowIsExact ==
  chain = "add" /\ step = 2 =>
    s.overflow = (SignedWord(m) + SignedWord(n) \notin SignedWords)

AluState == [lhs : Byte, rhs : Byte, result : Byte, carry : BOOLEAN,
             overflow : BOOLEAN]

(* What SumsAreExact needs by induction: between the two operations the
   carry flag says whether the low bytes carried, or did not borrow. *)
SumsInv ==
  /\ chain \in Chains
  /\ m \in Word
  /\ n \in Word
  /\ step \in 0 .. 9
  /\ chain \in {"add", "subtract"} =>
       /\ lo \in Byte
       /\ hi \in Byte
       /\ s \in AluState
       /\ step <= 1 => hi = high(m)
       /\ step = 0 => lo = low(m)
  /\ step = 1 =>
       /\ chain = "add" =>
            lo = AsByte(low(m) + low(n)) /\ s.carry = (low(m) + low(n) > 255)
       /\ chain = "subtract" =>
            lo = AsByte(low(m) - low(n)) /\ s.carry = (low(m) >= low(n))
  /\ SumsAreExact

(* Nine bits v, rotated left k times: the k bits that came round are below. *)
Rotated(v, k) == 2 ^ k * v - 511 * (v \div 2 ^ (9 - k))

(* What ShiftsAreExact needs by induction: between two shifts the carry flag
   holds the bit that was shifted out, and a byte that is being rotated and
   the carry flag hold the nine bits they started with, rotated. *)
ShiftsInv ==
  /\ chain \in Chains
  /\ m \in Word
  /\ n \in Word
  /\ step \in 0 .. 9
  /\ chain \in {"shift_left", "shift_right", "rotate"} =>
       /\ lo \in Byte
       /\ hi \in Byte
       /\ s \in AluState
       /\ step = 0 => lo = low(m) /\ hi = high(m)
  /\ step = 1 =>
       /\ chain = "shift_left" =>
            /\ lo = AsByte(2 * low(m)) /\ hi = high(m)
            /\ s.carry = (low(m) >= 128)
       /\ chain = "shift_right" =>
            /\ lo = low(m) /\ hi = high(m) \div 2
            /\ s.carry = (high(m) % 2 = 1)
  /\ chain = "rotate" =>
       \E v \in 0 .. 511 : /\ low(m) = AsByte(v)
                           /\ 256 * AsBit(s.carry) + lo = Rotated(v, step)
  /\ ShiftsAreExact
=============================================================================

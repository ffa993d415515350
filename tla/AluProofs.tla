------------------------------ MODULE AluProofs ------------------------------
(***************************************************************************)
(* The ALU's addition and subtraction are exact for all operands, and so   *)
(* are the 16-bit sums and differences programs chain from them.           *)
(***************************************************************************)
EXTENDS WideArithmetic, TLAPS

(* The opcodes are distinct, so each selects its own operation. *)
LEMMA Selects ==
  ASSUME NEW t
  PROVE  Compute(ADD, t) = Add(t) /\ Compute(SUB, t) = Subtract(t)
  BY DEF Compute, ADD, SUB, INC, AND, OR, XOR, ASL, LSR, ROL, ROR, DEC, BIT

(* What ADD and SUB leave, as sums and differences of numbers.  Neither
   depends on what the ALU held before but for its operands and carry. *)
LEMMA AddStep ==
  ASSUME NEW t \in AluState, NEW l \in Byte, NEW r \in Byte, NEW c \in BOOLEAN,
         NEW u, u = Compute(ADD, Loaded(t, l, r, c))
  PROVE  /\ u \in AluState
         /\ u.result = (l + r + AsBit(c)) % 256
         /\ u.carry = (l + r + AsBit(c) > 255)
<1> DEFINE v == Loaded(t, l, r, c)
<1>1. v \in AluState /\ v.lhs = l /\ v.rhs = r /\ v.carry = c
  BY DEF AluState, Loaded
<1>2. Compute(ADD, v) = Add(v)
  BY Selects
<1>3. l + r + AsBit(c) \in Nat
  BY DEF AsBit, Byte
<1>4. (l + r + AsBit(c)) % 256 \in Byte
  BY <1>3 DEF Byte
<1> HIDE DEF v
<1>5. Add(v).result = (l + r + AsBit(c)) % 256
  BY <1>1 DEF Add, AluState, AsByte
<1>6. Add(v).carry = (l + r + AsBit(c) > 255)
  BY <1>1 DEF Add, AluState
<1>7. Add(v) \in AluState
  <2>1. Add(v) = [v EXCEPT !.result = Add(v).result, !.carry = Add(v).carry,
                           !.overflow = Add(v).overflow]
    BY <1>1 DEF Add, AluState
  <2>2. /\ Add(v).result \in Byte
        /\ Add(v).carry \in BOOLEAN
        /\ Add(v).overflow \in BOOLEAN
    BY <1>1, <1>4, <1>5, <1>6 DEF Add, AluState
  <2> QED
    BY <1>1, <2>1, <2>2 DEF AluState
<1> QED
  BY <1>2, <1>5, <1>6, <1>7 DEF v

LEMMA SubtractStep ==
  ASSUME NEW t \in AluState, NEW l \in Byte, NEW r \in Byte, NEW c \in BOOLEAN,
         NEW u, u = Compute(SUB, Loaded(t, l, r, c))
  PROVE  /\ u \in AluState
         /\ u.result = (l - (r + 1 - AsBit(c))) % 256
         /\ u.carry = (l >= r + 1 - AsBit(c))
<1> DEFINE v == Loaded(t, l, r, c)
<1>1. v \in AluState /\ v.lhs = l /\ v.rhs = r /\ v.carry = c
  BY DEF AluState, Loaded
<1>2. Compute(SUB, v) = Subtract(v)
  BY Selects
<1>3. l - (r + 1 - AsBit(c)) \in Int
  BY DEF AsBit, Byte
<1>4. (l - (r + 1 - AsBit(c))) % 256 \in Byte
  BY <1>3 DEF Byte
<1> HIDE DEF v
<1>5. Subtract(v).result = (l - (r + 1 - AsBit(c))) % 256
  BY <1>1 DEF Subtract, AluState, AsByte
<1>6. Subtract(v).carry = (l >= r + 1 - AsBit(c))
  BY <1>1 DEF Subtract, AluState
<1>7. Subtract(v) \in AluState
  <2>1. Subtract(v) = [v EXCEPT !.result = Subtract(v).result,
                                !.carry = Subtract(v).carry,
                                !.overflow = Subtract(v).overflow]
    BY <1>1 DEF Subtract, AluState
  <2>2. /\ Subtract(v).result \in Byte
        /\ Subtract(v).carry \in BOOLEAN
        /\ Subtract(v).overflow \in BOOLEAN
    BY <1>1, <1>4, <1>5, <1>6 DEF Subtract, AluState
  <2> QED
    BY <1>1, <2>1, <2>2 DEF AluState
<1> QED
  BY <1>2, <1>5, <1>6, <1>7 DEF v

(* A word is its high and low bytes. *)
LEMMA Split ==
  ASSUME NEW w \in Word
  PROVE  /\ w \in Int /\ high(w) \in Byte /\ low(w) \in Byte
         /\ w = 256 * high(w) + low(w)
  BY DEF Word, Byte, high, low

(* The remainder of a number that is less than a modulus away from it. *)
LEMMA ByteRemainder ==
  ASSUME NEW x \in Int
  PROVE  /\ 0 <= x /\ x <= 255 => x % 256 = x
         /\ 256 <= x /\ x <= 511 => x % 256 = x - 256
         /\ -256 <= x /\ x <= -1 => x % 256 = x + 256
  BY SMTT(30)

LEMMA WordRemainder ==
  ASSUME NEW x \in Int
  PROVE  /\ 0 <= x /\ x <= 65535 => x % 65536 = x
         /\ 65536 <= x /\ x <= 131071 => x % 65536 = x - 65536
         /\ -65536 <= x /\ x <= -1 => x % 65536 = x + 65536
  BY SMTT(30)

(* Column addition of two words. *)
LEMMA ColumnSum ==
  ASSUME NEW a \in Byte, NEW b \in Byte, NEW d \in Byte, NEW e \in Byte,
         NEW c \in {0, 1}, c = 1 <=> b + e > 255,
         NEW sum, sum = (256 * a + b) + (256 * d + e)
  PROVE  /\ ((a + d + c) % 256) * 256 + ((b + e) % 256) = sum % 65536
         /\ a + d + c > 255 <=> sum > 65535
<1> DEFINE bottom == b + e
           top == a + d + c
<1>1. /\ bottom \in Int /\ 0 <= bottom /\ bottom <= 510
      /\ top \in Int /\ 0 <= top /\ top <= 511
      /\ sum \in Int /\ 0 <= sum /\ sum <= 131071
      /\ sum = 256 * (top - c) + bottom
      /\ c = 1 <=> bottom > 255
  BY DEF Byte
<1> HIDE DEF bottom, top
<1>2. /\ bottom > 255 => bottom % 256 = bottom - 256
      /\ bottom <= 255 => bottom % 256 = bottom
  BY <1>1, ByteRemainder
<1>3. /\ top > 255 => top % 256 = top - 256
      /\ top <= 255 => top % 256 = top
  BY <1>1, ByteRemainder
<1>4. /\ sum > 65535 => sum % 65536 = sum - 65536
      /\ sum <= 65535 => sum % 65536 = sum
  BY <1>1, WordRemainder
<1>5. top > 255 <=> sum > 65535
  BY <1>1
<1>6. (top % 256) * 256 + (bottom % 256) = sum % 65536
  <2> DEFINE t == top % 256
             u == bottom % 256
             w == sum % 65536
  <2>1. u = IF bottom > 255 THEN bottom - 256 ELSE bottom
    BY <1>1, <1>2
  <2>2. t = IF top > 255 THEN top - 256 ELSE top
    BY <1>1, <1>3
  <2>3. w = IF sum > 65535 THEN sum - 65536 ELSE sum
    BY <1>1, <1>4
  <2> HIDE DEF t, u, w
  <2>4. t * 256 + u = w
    BY <1>1, <1>5, <2>1, <2>2, <2>3
  <2> QED
    BY <2>4 DEF t, u, w
<1> QED
  BY <1>5, <1>6 DEF top, bottom

(* Column subtraction of two words. *)
LEMMA ColumnDifference ==
  ASSUME NEW a \in Byte, NEW b \in Byte, NEW d \in Byte, NEW e \in Byte,
         NEW c \in {0, 1}, c = 1 <=> b >= e,
         NEW diff, diff = (256 * a + b) - (256 * d + e)
  PROVE  /\ ((a - (d + 1 - c)) % 256) * 256 + ((b - e) % 256) = diff % 65536
         /\ a >= d + 1 - c <=> diff >= 0
<1> DEFINE bottom == b - e
           top == a - (d + 1 - c)
<1>1. /\ bottom \in Int /\ -256 <= bottom /\ bottom <= 255
      /\ top \in Int /\ -256 <= top /\ top <= 255
      /\ diff \in Int /\ -65536 <= diff /\ diff <= 65535
      /\ diff = 256 * (top + 1 - c) + bottom
      /\ c = 1 <=> bottom >= 0
      /\ top >= 0 <=> a >= d + 1 - c
  BY DEF Byte
<1> HIDE DEF bottom, top
<1>2. /\ bottom < 0 => bottom % 256 = bottom + 256
      /\ bottom >= 0 => bottom % 256 = bottom
  BY <1>1, ByteRemainder
<1>3. /\ top < 0 => top % 256 = top + 256
      /\ top >= 0 => top % 256 = top
  BY <1>1, ByteRemainder
<1>4. /\ diff < 0 => diff % 65536 = diff + 65536
      /\ diff >= 0 => diff % 65536 = diff
  BY <1>1, WordRemainder
<1>5. top >= 0 <=> diff >= 0
  BY <1>1
<1>6. (top % 256) * 256 + (bottom % 256) = diff % 65536
  <2> DEFINE t == top % 256
             u == bottom % 256
             w == diff % 65536
  <2>1. u = IF bottom < 0 THEN bottom + 256 ELSE bottom
    BY <1>1, <1>2
  <2>2. t = IF top < 0 THEN top + 256 ELSE top
    BY <1>1, <1>3
  <2>3. w = IF diff < 0 THEN diff + 65536 ELSE diff
    BY <1>1, <1>4
  <2> HIDE DEF t, u, w
  <2>4. t * 256 + u = w
    BY <1>1, <1>5, <2>1, <2>2, <2>3
  <2> QED
    BY <2>4 DEF t, u, w
<1> QED
  BY <1>1, <1>5, <1>6 DEF top, bottom
-----------------------------------------------------------------------------
(* A chain starts with the bytes of its first operand. *)
LEMMA InitSums == WideInit => SumsInv
<1> SUFFICES ASSUME WideInit PROVE SumsInv
  OBVIOUS
<1>1. m \in Word /\ n \in Word
  BY WideAssumption DEF WideInit
<1>2. s \in AluState
  <2>1. PICK f \in Starts : s = [lhs |-> 0, rhs |-> 0, result |-> 0,
                                 carry |-> f[1], overflow |-> f[2]]
    BY DEF WideInit
  <2>2. f[1] \in BOOLEAN /\ f[2] \in BOOLEAN
    BY StartsAssumption
  <2> QED
    BY <2>1, <2>2 DEF AluState, Byte
<1> QED
  BY <1>1, <1>2, Split DEF WideInit, SumsInv, SumsAreExact, Chains

(* A carry of zero, or a borrow of zero, changes nothing. *)
LEMMA NoCarry ==
  ASSUME NEW a \in Int, NEW b \in Int, NEW z, z = 0
  PROVE  a + b + z = a + b
OBVIOUS

LEMMA NoBorrow ==
  ASSUME NEW b \in Int, NEW z, z = 1
  PROVE  b + 1 - z = b
OBVIOUS

LEMMA ByteIsInt == Byte \subseteq Int
BY DEF Byte

(* The two operations of an addition. *)
LEMMA AddLowStep ==
  ASSUME SumsInv, chain = "add", step = 0,
         NEW c \in BOOLEAN, AsBit(c) = 0, LowStep(ADD, c)
  PROVE  /\ lo' = AsByte(low(m) + low(n)) /\ s'.carry = (low(m) + low(n) > 255)
         /\ lo' \in Byte /\ hi' = hi /\ s' \in AluState
<1>1. lo = low(m) /\ low(m) \in Byte /\ low(n) \in Byte /\ s \in AluState
  BY Split DEF SumsInv
<1>2. s' = Compute(ADD, Loaded(s, low(m), low(n), c)) /\ lo' = s'.result /\ hi' = hi
  BY <1>1 DEF LowStep, Operate
<1>3. /\ s' \in AluState
      /\ s'.result = (low(m) + low(n) + AsBit(c)) % 256
      /\ s'.carry = (low(m) + low(n) + AsBit(c) > 255)
  BY <1>1, <1>2, AddStep
<1>4. low(m) + low(n) + AsBit(c) = low(m) + low(n)
  <2>1. low(m) \in Int /\ low(n) \in Int
    BY <1>1, ByteIsInt
  <2> QED
    BY <2>1, NoCarry
<1> QED
  BY <1>2, <1>3, <1>4 DEF AsByte, AluState

LEMMA AddHighStep ==
  ASSUME SumsInv, chain = "add", step = 1,
         NEW f \in BOOLEAN, f = s.carry, HighStep(ADD, f)
  PROVE  /\ MakeWord(hi', lo) = AsWord(m + n) /\ s'.carry = (m + n > 65535)
         /\ hi' \in Byte /\ lo' = lo /\ s' \in AluState
<1>1. /\ m \in Word /\ n \in Word
      /\ hi = high(m) /\ s \in AluState
      /\ lo = (low(m) + low(n)) % 256
      /\ f <=> low(m) + low(n) > 255
  BY DEF SumsInv, AsByte
<1>2. /\ high(m) \in Byte /\ low(m) \in Byte /\ m = 256 * high(m) + low(m)
      /\ high(n) \in Byte /\ low(n) \in Byte /\ n = 256 * high(n) + low(n)
  BY <1>1, Split
<1>3. s' = Compute(ADD, Loaded(s, high(m), high(n), f)) /\ hi' = s'.result /\ lo' = lo
  BY <1>1 DEF HighStep, Operate
<1>4. /\ s' \in AluState
      /\ s'.result = (high(m) + high(n) + AsBit(f)) % 256
      /\ s'.carry = (high(m) + high(n) + AsBit(f) > 255)
  <2>1. s \in AluState /\ high(m) \in Byte /\ high(n) \in Byte
    BY <1>1, <1>2
  <2> QED
    BY <2>1, <1>3, AddStep
<1> DEFINE c == AsBit(f)
<1>5. c \in {0, 1} /\ (c = 1 <=> f)
  BY DEF AsBit
<1> HIDE DEF c
<1>6. m + n = (256 * high(m) + low(m)) + (256 * high(n) + low(n))
  BY <1>2
<1>7. /\ ((high(m) + high(n) + c) % 256) * 256 + ((low(m) + low(n)) % 256)
           = (m + n) % 65536
      /\ high(m) + high(n) + c > 255 <=> m + n > 65535
  BY <1>1, <1>2, <1>5, <1>6, ColumnSum
<1>8. s'.carry = (m + n > 65535)
  BY <1>4, <1>7 DEF c
<1>9. hi' * 256 + lo = (m + n) % 65536
  BY <1>1, <1>3, <1>4, <1>7 DEF c
<1> QED
  BY <1>3, <1>4, <1>8, <1>9 DEF AsWord, MakeWord, AluState

(* The two operations of a subtraction. *)
LEMMA SubtractLowStep ==
  ASSUME SumsInv, chain = "subtract", step = 0,
         NEW c \in BOOLEAN, AsBit(c) = 1, LowStep(SUB, c)
  PROVE  /\ lo' = AsByte(low(m) - low(n)) /\ s'.carry = (low(m) >= low(n))
         /\ lo' \in Byte /\ hi' = hi /\ s' \in AluState
<1>1. lo = low(m) /\ low(m) \in Byte /\ low(n) \in Byte /\ s \in AluState
  BY Split DEF SumsInv
<1>2. s' = Compute(SUB, Loaded(s, low(m), low(n), c)) /\ lo' = s'.result /\ hi' = hi
  BY <1>1 DEF LowStep, Operate
<1>3. /\ s' \in AluState
      /\ s'.result = (low(m) - (low(n) + 1 - AsBit(c))) % 256
      /\ s'.carry = (low(m) >= low(n) + 1 - AsBit(c))
  BY <1>1, <1>2, SubtractStep
<1>4. low(n) + 1 - AsBit(c) = low(n)
  <2>1. low(n) \in Int
    BY <1>1, ByteIsInt
  <2> QED
    BY <2>1, NoBorrow
<1> QED
  BY <1>2, <1>3, <1>4 DEF AsByte, AluState

LEMMA SubtractHighStep ==
  ASSUME SumsInv, chain = "subtract", step = 1,
         NEW f \in BOOLEAN, f = s.carry, HighStep(SUB, f)
  PROVE  /\ MakeWord(hi', lo) = AsWord(m - n) /\ s'.carry = (m >= n)
         /\ hi' \in Byte /\ lo' = lo /\ s' \in AluState
<1>1. /\ m \in Word /\ n \in Word
      /\ hi = high(m) /\ s \in AluState
      /\ lo = (low(m) - low(n)) % 256
      /\ f <=> low(m) >= low(n)
  BY DEF SumsInv, AsByte
<1>2. /\ high(m) \in Byte /\ low(m) \in Byte /\ m = 256 * high(m) + low(m)
      /\ high(n) \in Byte /\ low(n) \in Byte /\ n = 256 * high(n) + low(n)
  BY <1>1, Split
<1>3. s' = Compute(SUB, Loaded(s, high(m), high(n), f)) /\ hi' = s'.result /\ lo' = lo
  BY <1>1 DEF HighStep, Operate
<1>4. /\ s' \in AluState
      /\ s'.result = (high(m) - (high(n) + 1 - AsBit(f))) % 256
      /\ s'.carry = (high(m) >= high(n) + 1 - AsBit(f))
  <2>1. s \in AluState /\ high(m) \in Byte /\ high(n) \in Byte
    BY <1>1, <1>2
  <2> QED
    BY <2>1, <1>3, SubtractStep
<1> DEFINE c == AsBit(f)
<1>5. c \in {0, 1} /\ (c = 1 <=> f)
  BY DEF AsBit
<1> HIDE DEF c
<1>6. /\ m - n = (256 * high(m) + low(m)) - (256 * high(n) + low(n))
      /\ m - n >= 0 <=> m >= n
  <2>1. m \in Int /\ n \in Int
    BY <1>1, Split
  <2> QED
    BY <1>2, <2>1
<1>7. /\ ((high(m) - (high(n) + 1 - c)) % 256) * 256 + ((low(m) - low(n)) % 256)
           = (m - n) % 65536
      /\ high(m) >= high(n) + 1 - c <=> m - n >= 0
  BY <1>1, <1>2, <1>5, <1>6, ColumnDifference
<1>8. s'.carry = (m >= n)
  BY <1>4, <1>6, <1>7 DEF c
<1>9. hi' * 256 + lo = (m - n) % 65536
  BY <1>1, <1>3, <1>4, <1>7 DEF c
<1> QED
  BY <1>3, <1>4, <1>8, <1>9 DEF AsWord, MakeWord, AluState

(* SumsInv is kept.  Shifts and rotations are not what it is about. *)
LEMMA StepSums == SumsInv /\ [WideNext]_wideVars => SumsInv'
<1> SUFFICES ASSUME SumsInv, [WideNext]_wideVars PROVE SumsInv'
  OBVIOUS
<1>1. CASE UNCHANGED wideVars
  BY <1>1 DEF SumsInv, SumsAreExact, Result, wideVars, AluState
<1>2. CASE WideNext
  <2>1. /\ chain' = chain /\ m' = m /\ n' = n /\ step' = step + 1
        /\ chain \in Chains /\ m \in Word /\ n \in Word
        /\ step \in 0 .. 8 /\ (chain \in {"add", "subtract"} => step \in 0 .. 1)
    BY <1>2 DEF WideNext, SumsInv, Steps
  <2>2. CASE chain = "add" /\ step = 0
    <3>1. PICK c \in BOOLEAN : AsBit(c) = 0 /\ LowStep(ADD, c)
      <4> /\ step # 1
          /\ chain \notin {"subtract", "shift_left", "shift_right", "rotate"}
        BY <2>2
      <4>1. LowStep(ADD, FALSE)
        BY <1>2, Zenon DEF WideNext
      <4>2. AsBit(FALSE) = 0
        BY DEF AsBit
      <4> QED
        BY <4>1, <4>2, Zenon
    <3>2. /\ lo' = AsByte(low(m) + low(n)) /\ s'.carry = (low(m) + low(n) > 255)
          /\ lo' \in Byte /\ hi' = hi /\ s' \in AluState
      BY <2>2, <3>1, AddLowStep
    <3> QED
      BY <2>1, <2>2, <3>2 DEF SumsInv, SumsAreExact
  <2>3. CASE chain = "add" /\ step = 1
    <3>1. HighStep(ADD, s.carry) /\ s.carry \in BOOLEAN
      BY <1>2, <2>3 DEF WideNext, SumsInv, AluState
    <3>2. /\ MakeWord(hi', lo) = AsWord(m + n) /\ s'.carry = (m + n > 65535)
          /\ hi' \in Byte /\ lo' = lo /\ s' \in AluState
      BY <2>3, <3>1, AddHighStep
    <3> QED
      BY <2>1, <2>3, <3>2 DEF SumsInv, SumsAreExact, Result
  <2>4. CASE chain = "subtract" /\ step = 0
    <3>1. PICK c \in BOOLEAN : AsBit(c) = 1 /\ LowStep(SUB, c)
      <4> /\ step # 1
          /\ chain \notin {"add", "shift_left", "shift_right", "rotate"}
        BY <2>4
      <4>1. LowStep(SUB, TRUE)
        BY <1>2, Zenon DEF WideNext
      <4>2. AsBit(TRUE) = 1
        BY DEF AsBit
      <4> QED
        BY <4>1, <4>2, Zenon
    <3>2. /\ lo' = AsByte(low(m) - low(n)) /\ s'.carry = (low(m) >= low(n))
          /\ lo' \in Byte /\ hi' = hi /\ s' \in AluState
      BY <2>4, <3>1, SubtractLowStep
    <3> QED
      BY <2>1, <2>4, <3>2 DEF SumsInv, SumsAreExact
  <2>5. CASE chain = "subtract" /\ step = 1
    <3>1. HighStep(SUB, s.carry) /\ s.carry \in BOOLEAN
      BY <1>2, <2>5 DEF WideNext, SumsInv, AluState
    <3>2. /\ MakeWord(hi', lo) = AsWord(m - n) /\ s'.carry = (m >= n)
          /\ hi' \in Byte /\ lo' = lo /\ s' \in AluState
      BY <2>5, <3>1, SubtractHighStep
    <3> QED
      BY <2>1, <2>5, <3>2 DEF SumsInv, SumsAreExact, Result
  <2>6. CASE chain \notin {"add", "subtract"}
    BY <2>1, <2>6 DEF SumsInv, SumsAreExact
  <2> QED
    BY <2>1, <2>2, <2>3, <2>4, <2>5, <2>6
<1> QED
  BY <1>1, <1>2

(* 16-bit addition and subtraction chained from ADC and SBC are exact for
   all words and all flags left by earlier code, with the carry or borrow
   that Alu::TickProcess hands from the low to the high bytes. *)
THEOREM ChainedSumsAreExact == WideSpec => []SumsAreExact
<1>1. SumsInv => SumsAreExact
  BY DEF SumsInv
<1> QED
  BY InitSums, StepSums, <1>1, PTL DEF WideSpec
-----------------------------------------------------------------------------
(* Overflow. *)

(* Bit 7 of a byte is its sign. *)
LEMMA SignBit ==
  ASSUME NEW b \in Byte
  PROVE  Negative(b) <=> b >= 128
  BY SMT DEF Negative, Bit, Byte

LEMMA AddStepOverflow ==
  ASSUME NEW t \in AluState, NEW l \in Byte, NEW r \in Byte, NEW c \in BOOLEAN,
         NEW u, u = Compute(ADD, Loaded(t, l, r, c))
  PROVE  u.overflow <=> /\ l >= 128 <=> r >= 128
                        /\ ~(l >= 128 <=> u.result >= 128)
<1> DEFINE v == Loaded(t, l, r, c)
<1>1. v \in AluState /\ v.lhs = l /\ v.rhs = r
  BY DEF AluState, Loaded
<1>2. u = Add(v)
  BY Selects
<1>3. u.result \in Byte
  BY AddStep DEF AluState
<1> HIDE DEF v
<1>4. u.overflow = (/\ Negative(l) = Negative(r)
                    /\ Negative(l) # Negative(u.result))
  BY <1>1, <1>2 DEF Add, AluState
<1>5. /\ Negative(l) <=> l >= 128
      /\ Negative(r) <=> r >= 128
      /\ Negative(u.result) <=> u.result >= 128
  BY <1>3, SignBit
<1>6. Negative(l) \in BOOLEAN /\ Negative(r) \in BOOLEAN /\ Negative(u.result) \in BOOLEAN
  BY DEF Negative
<1> QED
  BY <1>4, <1>5, <1>6

LEMMA InSignedWords ==
  ASSUME NEW x \in Int
  PROVE  x \in SignedWords <=> -32768 <= x /\ x <= 32767
<1> DEFINE bottom == -32768
           top == 32767
<1>1. bottom \in Int /\ top \in Int
  BY SMT
<1>2. SignedWords = bottom .. top
  BY DEF SignedWords
<1> HIDE DEF bottom, top
<1>3. x \in SignedWords <=> bottom <= x /\ x <= top
  BY <1>1, <1>2, SMT
<1> QED
  BY <1>3 DEF bottom, top

(* The signed sum of two words fits if the signs of the high bytes agree with
   the sign of their sum. *)
LEMMA SignedFits ==
  ASSUME NEW a \in Byte, NEW b \in Byte, NEW d \in Byte, NEW e \in Byte,
         NEW c \in {0, 1}, c = 1 <=> b + e > 255,
         NEW p \in Word, p = 256 * a + b, NEW q \in Word, q = 256 * d + e,
         NEW k \in Int, k = a + d + c, NEW h, h = k % 256
  PROVE  (SignedWord(p) + SignedWord(q) \notin SignedWords)
           <=> (a >= 128 <=> d >= 128) /\ ~(a >= 128 <=> h >= 128)
<1> DEFINE A == IF a >= 128 THEN a - 256 ELSE a
           D == IF d >= 128 THEN d - 256 ELSE d
           total == SignedWord(p) + SignedWord(q)
<1>1. /\ a \in Int /\ b \in Int /\ d \in Int /\ e \in Int /\ c \in Int
      /\ 0 <= a /\ a <= 255 /\ 0 <= b /\ b <= 255 /\ 0 <= d /\ d <= 255
      /\ 0 <= e /\ e <= 255 /\ 0 <= c /\ c <= 1
  BY SMT DEF Byte
<1>2. SignedWord(p) = 256 * A + b /\ SignedWord(q) = 256 * D + e
  BY <1>1, SMT DEF SignedWord
<1>3. 0 <= k /\ k <= 511
  BY <1>1, SMT
<1>4. h = IF k > 255 THEN k - 256 ELSE k
  BY <1>3, ByteRemainder, SMT
<1>5. h \in Int /\ total \in Int
  BY <1>1, <1>2, <1>4, SMT
<1>6. total \in SignedWords <=> -32768 <= total /\ total <= 32767
  BY <1>5, InSignedWords
<1>7. (-32768 <= total /\ total <= 32767)
        <=> (-128 <= A + D + c /\ A + D + c <= 127)
  BY <1>1, <1>2, SMT
<1>8. (-128 <= A + D + c /\ A + D + c <= 127)
        <=> ~((a >= 128 <=> d >= 128) /\ ~(a >= 128 <=> h >= 128))
  BY <1>1, <1>4, <1>5, SMT
<1> QED
  BY <1>6, <1>7, <1>8

LEMMA AddHighOverflow ==
  ASSUME SumsInv, chain = "add", step = 1,
         NEW f \in BOOLEAN, f = s.carry, HighStep(ADD, f)
  PROVE  s'.overflow = (SignedWord(m) + SignedWord(n) \notin SignedWords)
<1>1. /\ m \in Word /\ n \in Word /\ hi = high(m) /\ s \in AluState
      /\ f <=> low(m) + low(n) > 255
  BY DEF SumsInv
<1>2. /\ high(m) \in Byte /\ low(m) \in Byte /\ m = 256 * high(m) + low(m)
      /\ high(n) \in Byte /\ low(n) \in Byte /\ n = 256 * high(n) + low(n)
  BY <1>1, Split
<1>3. s' = Compute(ADD, Loaded(s, high(m), high(n), f))
  BY <1>1 DEF HighStep, Operate
<1>4. s \in AluState /\ high(m) \in Byte /\ high(n) \in Byte
  BY <1>1, <1>2
<1>5. s' \in AluState /\ s'.result = (high(m) + high(n) + AsBit(f)) % 256
  BY <1>3, <1>4, AddStep
<1>6. s'.overflow <=> /\ high(m) >= 128 <=> high(n) >= 128
                      /\ ~(high(m) >= 128 <=> s'.result >= 128)
  BY <1>3, <1>4, AddStepOverflow
<1> DEFINE c == AsBit(f)
<1>7. c \in {0, 1} /\ (c = 1 <=> low(m) + low(n) > 255)
  BY <1>1 DEF AsBit
<1>8. s'.result = (high(m) + high(n) + c) % 256
  BY <1>5
<1> HIDE DEF c
<1> DEFINE k == high(m) + high(n) + c
<1>9. k \in Int
  <2>1. high(m) \in Int /\ high(n) \in Int
    BY <1>4, ByteIsInt
  <2>2. c \in Int
    BY <1>7
  <2> QED
    BY <2>1, <2>2
<1>10. (SignedWord(m) + SignedWord(n) \notin SignedWords) <=> s'.overflow
  BY <1>1, <1>2, <1>6, <1>7, <1>8, <1>9, SignedFits
<1>11. s'.overflow \in BOOLEAN
  BY <1>5 DEF AluState
<1> QED
  BY <1>10, <1>11

(* After a chained addition of any two words, with any flags before it, the
   overflow flag Alu::TickProcess leaves tells whether the signed 16-bit sum
   fits. *)
THEOREM AddOverflowExact == WideSpec => []AddOverflowIsExact
<1>1. WideInit => AddOverflowIsExact
  BY DEF WideInit, AddOverflowIsExact
<1>2. ASSUME SumsInv, AddOverflowIsExact, [WideNext]_wideVars
      PROVE  AddOverflowIsExact'
  <2> SUFFICES ASSUME WideNext, chain' = "add", step' = 2
               PROVE  s'.overflow
                        = (SignedWord(m) + SignedWord(n) \notin SignedWords)'
    BY <1>2 DEF AddOverflowIsExact, wideVars
  <2>1. chain = "add" /\ step = 1 /\ m' = m /\ n' = n
    BY <1>2 DEF WideNext, SumsInv
  <2>2. HighStep(ADD, s.carry) /\ s.carry \in BOOLEAN
    BY <1>2, <2>1 DEF WideNext, SumsInv, AluState
  <2>3. s'.overflow = (SignedWord(m) + SignedWord(n) \notin SignedWords)
    BY <1>2, <2>1, <2>2, AddHighOverflow
  <2> QED
    BY <2>1, <2>3
<1> QED
  BY <1>1, <1>2, InitSums, StepSums, PTL DEF WideSpec
-----------------------------------------------------------------------------
(* Shifts and rotations. *)

LEMMA SelectsShift ==
  ASSUME NEW t
  PROVE  /\ Compute(ASL, t) = Shift(t, AsByte(2 * t.lhs), Bit(t.lhs, 7))
         /\ Compute(LSR, t) = Shift(t, t.lhs \div 2, Bit(t.lhs, 0))
         /\ Compute(ROL, t) = Shift(t, AsByte(2 * t.lhs) + AsBit(t.carry), Bit(t.lhs, 7))
         /\ Compute(ROR, t) = Shift(t, t.lhs \div 2 + 128 * AsBit(t.carry), Bit(t.lhs, 0))
  BY DEF Compute, ADD, SUB, INC, AND, OR, XOR, ASL, LSR, ROL, ROR, DEC, BIT

LEMMA ShiftLeaves ==
  ASSUME NEW t \in AluState, NEW r \in Byte, NEW out
  PROVE  /\ Shift(t, r, out) \in AluState
         /\ Shift(t, r, out).result = r
         /\ Shift(t, r, out).carry = (out = 1)
  BY DEF Shift, AluState

(* The first and the last bit of a byte. *)
LEMMA EndBits ==
  ASSUME NEW b \in Byte
  PROVE  /\ Bit(b, 7) = 1 <=> b >= 128
         /\ Bit(b, 0) = 1 <=> b % 2 = 1
  BY SMT DEF Bit, Byte

(* The bytes a shift makes, with the bit c shifted in. *)
LEMMA ShiftedByte ==
  ASSUME NEW b \in Byte, NEW c \in {0, 1}
  PROVE  /\ AsByte(2 * b) = IF b >= 128 THEN 2 * b - 256 ELSE 2 * b
         /\ AsByte(2 * b) \in Byte
         /\ AsByte(2 * b) + c \in Byte
         /\ b \div 2 \in Byte
         /\ (b \div 2) + 128 * c \in Byte
  BY SMT DEF AsByte, Byte

(* What the four operations leave, as numbers. *)
LEMMA AslStep ==
  ASSUME NEW t \in AluState, NEW l \in Byte, NEW r \in Byte, NEW c \in BOOLEAN,
         NEW u, u = Compute(ASL, Loaded(t, l, r, c))
  PROVE  u \in AluState /\ u.result = AsByte(2 * l) /\ u.carry = (l >= 128)
<1> DEFINE v == Loaded(t, l, r, c)
<1>1. v \in AluState /\ v.lhs = l
  BY DEF AluState, Loaded
<1>2. u = Shift(v, AsByte(2 * l), Bit(l, 7))
  BY <1>1, SelectsShift
<1> HIDE DEF v
<1>3. AsByte(2 * l) \in Byte
  BY ShiftedByte
<1>4. (Bit(l, 7) = 1) = (l >= 128)
  BY EndBits
<1> QED
  BY <1>1, <1>2, <1>3, <1>4, ShiftLeaves

LEMMA LsrStep ==
  ASSUME NEW t \in AluState, NEW l \in Byte, NEW r \in Byte, NEW c \in BOOLEAN,
         NEW u, u = Compute(LSR, Loaded(t, l, r, c))
  PROVE  u \in AluState /\ u.result = l \div 2 /\ u.carry = (l % 2 = 1)
<1> DEFINE v == Loaded(t, l, r, c)
<1>1. v \in AluState /\ v.lhs = l
  BY DEF AluState, Loaded
<1>2. u = Shift(v, l \div 2, Bit(l, 0))
  BY <1>1, SelectsShift
<1> HIDE DEF v
<1>3. l \div 2 \in Byte
  BY ShiftedByte
<1>4. (Bit(l, 0) = 1) = (l % 2 = 1)
  BY EndBits
<1> QED
  BY <1>1, <1>2, <1>3, <1>4, ShiftLeaves

LEMMA RolStep ==
  ASSUME NEW t \in AluState, NEW l \in Byte, NEW r \in Byte, NEW c \in BOOLEAN,
         NEW u, u = Compute(ROL, Loaded(t, l, r, c))
  PROVE  u \in AluState /\ u.result = AsByte(2 * l) + AsBit(c) /\ u.carry = (l >= 128)
<1> DEFINE v == Loaded(t, l, r, c)
           k == AsBit(c)
<1>1. v \in AluState /\ v.lhs = l /\ v.carry = c
  BY DEF AluState, Loaded
<1>2. k \in {0, 1}
  BY DEF AsBit
<1>3. u = Shift(v, AsByte(2 * l) + k, Bit(l, 7))
  BY <1>1, SelectsShift
<1> HIDE DEF v, k
<1>4. AsByte(2 * l) + k \in Byte
  BY <1>2, ShiftedByte
<1>5. (Bit(l, 7) = 1) = (l >= 128)
  BY EndBits
<1>6. u \in AluState /\ u.result = AsByte(2 * l) + k /\ u.carry = (l >= 128)
  BY <1>1, <1>3, <1>4, <1>5, ShiftLeaves
<1> QED
  BY <1>6 DEF k

LEMMA RorStep ==
  ASSUME NEW t \in AluState, NEW l \in Byte, NEW r \in Byte, NEW c \in BOOLEAN,
         NEW u, u = Compute(ROR, Loaded(t, l, r, c))
  PROVE  u \in AluState /\ u.result = (l \div 2) + 128 * AsBit(c) /\ u.carry = (l % 2 = 1)
<1> DEFINE v == Loaded(t, l, r, c)
           k == AsBit(c)
<1>1. v \in AluState /\ v.lhs = l /\ v.carry = c
  BY DEF AluState, Loaded
<1>2. k \in {0, 1}
  BY DEF AsBit
<1>3. u = Shift(v, (l \div 2) + 128 * k, Bit(l, 0))
  BY <1>1, SelectsShift
<1> HIDE DEF v, k
<1>4. (l \div 2) + 128 * k \in Byte
  BY <1>2, ShiftedByte
<1>5. (Bit(l, 0) = 1) = (l % 2 = 1)
  BY EndBits
<1>6. u \in AluState /\ u.result = (l \div 2) + 128 * k /\ u.carry = (l % 2 = 1)
  BY <1>1, <1>3, <1>4, <1>5, ShiftLeaves
<1> QED
  BY <1>6 DEF k

LEMMA ShiftStepType ==
  ASSUME NEW t \in AluState, NEW l \in Byte, NEW r \in Byte, NEW c \in BOOLEAN,
         NEW op \in {ASL, LSR, ROL, ROR}
  PROVE  Compute(op, Loaded(t, l, r, c)) \in AluState
<1>1. CASE op = ASL
  BY <1>1, AslStep
<1>2. CASE op = LSR
  BY <1>2, LsrStep
<1>3. CASE op = ROL
  BY <1>3, RolStep
<1>4. CASE op = ROR
  BY <1>4, RorStep
<1> QED
  BY <1>1, <1>2, <1>3, <1>4

(* A word shifted byte by byte, the bit between the bytes being c. *)
LEMMA WordShift ==
  ASSUME NEW a \in Byte, NEW b \in Byte, NEW p, p = 256 * a + b, NEW c \in {0, 1}
  PROVE  /\ (c = 1 <=> b >= 128) =>
              /\ (AsByte(2 * a) + c) * 256 + AsByte(2 * b) = AsWord(2 * p)
              /\ a >= 128 <=> p >= 32768
         /\ (c = 1 <=> a % 2 = 1) =>
              /\ (a \div 2) * 256 + ((b \div 2) + 128 * c) = p \div 2
              /\ b % 2 = 1 <=> p % 2 = 1
<1>1. /\ a \in Int /\ b \in Int /\ c \in Int /\ p \in Int
      /\ 0 <= a /\ a <= 255 /\ 0 <= b /\ b <= 255 /\ 0 <= c /\ c <= 1
  BY SMT DEF Byte
<1>2. /\ AsByte(2 * a) = IF a >= 128 THEN 2 * a - 256 ELSE 2 * a
      /\ AsByte(2 * b) = IF b >= 128 THEN 2 * b - 256 ELSE 2 * b
  BY ShiftedByte
<1>3. AsWord(2 * p) = IF p >= 32768 THEN 2 * p - 65536 ELSE 2 * p
  BY <1>1, SMT DEF AsWord
<1>4. (c = 1 <=> b >= 128) =>
        /\ (AsByte(2 * a) + c) * 256 + AsByte(2 * b) = AsWord(2 * p)
        /\ a >= 128 <=> p >= 32768
  BY <1>1, <1>2, <1>3, SMT
<1>5. (c = 1 <=> a % 2 = 1) =>
        /\ (a \div 2) * 256 + ((b \div 2) + 128 * c) = p \div 2
        /\ b % 2 = 1 <=> p % 2 = 1
  BY <1>1, SMT
<1> QED
  BY <1>4, <1>5

(* One rotation of nine bits. *)
LEMMA NextRotated ==
  ASSUME NEW v \in Int, 0 <= v, v <= 511, NEW k \in 0 .. 8
  PROVE  /\ Rotated(v, k) \in Int
         /\ Rotated(v, k + 1) = 2 * Rotated(v, k) - (IF Rotated(v, k) >= 256 THEN 511 ELSE 0)
<1>1. CASE k = 0
  BY <1>1, SMT DEF Rotated
<1>2. CASE k = 1
  BY <1>2, SMT DEF Rotated
<1>3. CASE k = 2
  BY <1>3, SMT DEF Rotated
<1>4. CASE k = 3
  BY <1>4, SMT DEF Rotated
<1>5. CASE k = 4
  BY <1>5, SMT DEF Rotated
<1>6. CASE k = 5
  BY <1>6, SMT DEF Rotated
<1>7. CASE k = 6
  BY <1>7, SMT DEF Rotated
<1>8. CASE k = 7
  BY <1>8, SMT DEF Rotated
<1>9. CASE k = 8
  BY <1>9, SMT DEF Rotated
<1> QED
  BY <1>1, <1>2, <1>3, <1>4, <1>5, <1>6, <1>7, <1>8, <1>9, SMT

(* No rotation and nine rotations leave the bits in place. *)
LEMMA RotatedRound ==
  ASSUME NEW v \in Int, 0 <= v, v <= 511
  PROVE  Rotated(v, 0) = v /\ Rotated(v, 9) = v
<1>1. Rotated(v, 0) = v
  BY SMT DEF Rotated
<1>2. Rotated(v, 9) = v
  BY SMT DEF Rotated
<1> QED
  BY <1>1, <1>2

(* A rotation starts with the nine bits of the carry flag and the byte. *)
LEMMA NineBits ==
  ASSUME NEW b \in Byte, NEW c \in BOOLEAN
  PROVE  \E v \in 0 .. 511 : b = AsByte(v) /\ 256 * AsBit(c) + b = Rotated(v, 0)
<1> DEFINE e == AsBit(c)
           v == 256 * e + b
<1>1. e \in {0, 1} /\ b \in Int /\ 0 <= b /\ b <= 255
  BY SMT DEF AsBit, Byte
<1> HIDE DEF e
<1>2. v \in Int /\ 0 <= v /\ v <= 511 /\ b = v % 256
  BY <1>1, SMT
<1>3. Rotated(v, 0) = v
  BY <1>2, RotatedRound
<1> HIDE DEF v
<1>4. v \in 0 .. 511
  BY <1>2, SMT
<1> QED
  BY <1>2, <1>3, <1>4 DEF AsByte, v, e

LEMMA InitState ==
  ASSUME WideInit
  PROVE  m \in Word /\ n \in Word /\ s \in AluState
<1>1. m \in Word /\ n \in Word
  BY WideAssumption DEF WideInit
<1>2. PICK f \in Starts : s = [lhs |-> 0, rhs |-> 0, result |-> 0,
                               carry |-> f[1], overflow |-> f[2]]
  BY DEF WideInit
<1>3. f[1] \in BOOLEAN /\ f[2] \in BOOLEAN
  BY StartsAssumption
<1> QED
  BY <1>1, <1>2, <1>3 DEF AluState, Byte

LEMMA InitShifts == WideInit => ShiftsInv
<1> SUFFICES ASSUME WideInit PROVE ShiftsInv
  OBVIOUS
<1>1. m \in Word /\ n \in Word /\ s \in AluState
  BY InitState
<1>2. lo = low(m) /\ hi = high(m) /\ lo \in Byte /\ hi \in Byte
  BY <1>1, Split DEF WideInit
<1>3. s.carry \in BOOLEAN
  BY <1>1 DEF AluState
<1>4. \E v \in 0 .. 511 : low(m) = AsByte(v) /\ 256 * AsBit(s.carry) + lo = Rotated(v, 0)
  BY <1>2, <1>3, NineBits
<1>5. step = 0 /\ chain \in Chains
  BY DEF WideInit
<1> QED
  BY <1>1, <1>2, <1>4, <1>5 DEF ShiftsInv, ShiftsAreExact

(* The operation of a step of a shift or a rotation. *)
LEMMA ShiftStepOps ==
  ASSUME ShiftsInv, NEW op \in {ASL, LSR, ROL, ROR},
         chain \in {"shift_left", "shift_right", "rotate"},
         NEW c \in BOOLEAN
  PROVE  /\ LowStep(op, c) =>
              /\ s' = Compute(op, Loaded(s, lo, low(n), c))
              /\ s' \in AluState /\ lo' = s'.result /\ hi' = hi
              /\ lo' \in Byte /\ hi' \in Byte
         /\ HighStep(op, c) =>
              /\ s' = Compute(op, Loaded(s, hi, high(n), c))
              /\ s' \in AluState /\ hi' = s'.result /\ lo' = lo
              /\ lo' \in Byte /\ hi' \in Byte
<1>1. s \in AluState /\ lo \in Byte /\ hi \in Byte /\ n \in Word
  BY DEF ShiftsInv
<1>2. low(n) \in Byte /\ high(n) \in Byte
  BY <1>1, Split
<1>3. ASSUME NEW l \in Byte, NEW r \in Byte, s' = Compute(op, Loaded(s, l, r, c))
      PROVE  s' \in AluState
  <2>1. Compute(op, Loaded(s, l, r, c)) \in AluState
    BY <1>1, ShiftStepType
  <2> QED
    BY <1>3, <2>1
<1>4. s' \in AluState => s'.result \in Byte
  BY DEF AluState
<1> QED
  BY <1>1, <1>2, <1>3, <1>4 DEF LowStep, HighStep, Operate

(* The steps of a shift to the left, of one to the right and of a rotation. *)
LEMMA LeftLowStep ==
  ASSUME ShiftsInv, chain = "shift_left", step = 0,
         NEW f \in BOOLEAN, LowStep(ASL, f)
  PROVE  /\ lo' = AsByte(2 * low(m)) /\ s'.carry = (low(m) >= 128)
         /\ hi' = high(m) /\ lo' \in Byte /\ hi' \in Byte /\ s' \in AluState
<1>1. /\ lo = low(m) /\ hi = high(m) /\ s \in AluState /\ lo \in Byte /\ n \in Word
  BY DEF ShiftsInv
<1>2. /\ s' = Compute(ASL, Loaded(s, lo, low(n), f))
      /\ s' \in AluState /\ lo' = s'.result /\ hi' = hi
      /\ lo' \in Byte /\ hi' \in Byte
  BY ShiftStepOps
<1>3. low(n) \in Byte
  BY <1>1, Split
<1>4. s'.result = AsByte(2 * lo) /\ s'.carry = (lo >= 128)
  <2>1. s \in AluState /\ lo \in Byte /\ low(n) \in Byte
    BY <1>1, <1>2, <1>3
  <2>2. s' = Compute(ASL, Loaded(s, lo, low(n), f))
    BY <1>2
  <2> QED
    BY <2>1, <2>2, AslStep
<1> QED
  BY <1>1, <1>2, <1>4

LEMMA LeftHighStep ==
  ASSUME ShiftsInv, chain = "shift_left", step = 1,
         NEW f \in BOOLEAN, f = s.carry, HighStep(ROL, f)
  PROVE  /\ MakeWord(hi', lo') = AsWord(2 * m) /\ s'.carry = (m >= 32768)
         /\ lo' \in Byte /\ hi' \in Byte /\ s' \in AluState
<1>1. /\ lo = AsByte(2 * low(m)) /\ hi = high(m) /\ s \in AluState
      /\ f <=> low(m) >= 128
      /\ m \in Word /\ n \in Word /\ hi \in Byte
  BY DEF ShiftsInv
<1>2. /\ s' = Compute(ROL, Loaded(s, hi, high(n), f))
      /\ s' \in AluState /\ hi' = s'.result /\ lo' = lo
      /\ lo' \in Byte /\ hi' \in Byte
  BY ShiftStepOps
<1>3. high(n) \in Byte /\ high(m) \in Byte /\ low(m) \in Byte /\ m = 256 * high(m) + low(m)
  BY <1>1, Split
<1> DEFINE c == AsBit(f)
<1>4. s'.result = AsByte(2 * hi) + c /\ s'.carry = (hi >= 128)
  <2>1. s \in AluState /\ hi \in Byte /\ high(n) \in Byte
    BY <1>1, <1>2, <1>3
  <2>2. s' = Compute(ROL, Loaded(s, hi, high(n), f))
    BY <1>2
  <2> QED
    BY <2>1, <2>2, RolStep
<1>5. c \in {0, 1} /\ (c = 1 <=> low(m) >= 128)
  <2>1. c \in {0, 1} /\ (c = 1 <=> f)
    BY DEF AsBit
  <2> HIDE DEF c
  <2> QED
    BY <1>1, <2>1
<1> HIDE DEF c
<1>6. /\ (AsByte(2 * high(m)) + c) * 256 + AsByte(2 * low(m)) = AsWord(2 * m)
      /\ high(m) >= 128 <=> m >= 32768
  BY <1>3, <1>5, WordShift
<1>7. MakeWord(hi', lo') = AsWord(2 * m)
  BY <1>1, <1>2, <1>4, <1>6 DEF MakeWord
<1> QED
  BY <1>1, <1>2, <1>4, <1>6, <1>7

LEMMA RightHighStep ==
  ASSUME ShiftsInv, chain = "shift_right", step = 0,
         NEW f \in BOOLEAN, HighStep(LSR, f)
  PROVE  /\ hi' = high(m) \div 2 /\ s'.carry = (high(m) % 2 = 1)
         /\ lo' = low(m) /\ lo' \in Byte /\ hi' \in Byte /\ s' \in AluState
<1>1. /\ lo = low(m) /\ hi = high(m) /\ s \in AluState /\ hi \in Byte /\ n \in Word
  BY DEF ShiftsInv
<1>2. /\ s' = Compute(LSR, Loaded(s, hi, high(n), f))
      /\ s' \in AluState /\ hi' = s'.result /\ lo' = lo
      /\ lo' \in Byte /\ hi' \in Byte
  BY ShiftStepOps
<1>3. high(n) \in Byte
  BY <1>1, Split
<1>4. s'.result = hi \div 2 /\ s'.carry = (hi % 2 = 1)
  <2>1. s \in AluState /\ hi \in Byte /\ high(n) \in Byte
    BY <1>1, <1>2, <1>3
  <2>2. s' = Compute(LSR, Loaded(s, hi, high(n), f))
    BY <1>2
  <2> QED
    BY <2>1, <2>2, LsrStep
<1> QED
  BY <1>1, <1>2, <1>4

LEMMA RightLowStep ==
  ASSUME ShiftsInv, chain = "shift_right", step = 1,
         NEW f \in BOOLEAN, f = s.carry, LowStep(ROR, f)
  PROVE  /\ MakeWord(hi', lo') = m \div 2 /\ s'.carry = (m % 2 = 1)
         /\ lo' \in Byte /\ hi' \in Byte /\ s' \in AluState
<1>1. /\ lo = low(m) /\ hi = high(m) \div 2 /\ s \in AluState
      /\ f <=> high(m) % 2 = 1
      /\ m \in Word /\ n \in Word /\ lo \in Byte
  BY DEF ShiftsInv
<1>2. /\ s' = Compute(ROR, Loaded(s, lo, low(n), f))
      /\ s' \in AluState /\ lo' = s'.result /\ hi' = hi
      /\ lo' \in Byte /\ hi' \in Byte
  BY ShiftStepOps
<1>3. low(n) \in Byte /\ high(m) \in Byte /\ low(m) \in Byte /\ m = 256 * high(m) + low(m)
  BY <1>1, Split
<1> DEFINE c == AsBit(f)
<1>4. s'.result = (lo \div 2) + 128 * c /\ s'.carry = (lo % 2 = 1)
  <2>1. s \in AluState /\ lo \in Byte /\ low(n) \in Byte
    BY <1>1, <1>2, <1>3
  <2>2. s' = Compute(ROR, Loaded(s, lo, low(n), f))
    BY <1>2
  <2> QED
    BY <2>1, <2>2, RorStep
<1>5. c \in {0, 1} /\ (c = 1 <=> high(m) % 2 = 1)
  <2>1. c \in {0, 1} /\ (c = 1 <=> f)
    BY DEF AsBit
  <2> HIDE DEF c
  <2> QED
    BY <1>1, <2>1
<1> HIDE DEF c
<1>6. /\ (high(m) \div 2) * 256 + ((low(m) \div 2) + 128 * c) = m \div 2
      /\ low(m) % 2 = 1 <=> m % 2 = 1
  BY <1>3, <1>5, WordShift
<1>7. MakeWord(hi', lo') = m \div 2
  BY <1>1, <1>2, <1>4, <1>6 DEF MakeWord
<1> QED
  BY <1>1, <1>2, <1>4, <1>6, <1>7

LEMMA RotateStep ==
  ASSUME ShiftsInv, chain = "rotate", step \in 0 .. 8,
         NEW f \in BOOLEAN, f = s.carry, LowStep(ROL, f)
  PROVE  /\ \E v \in 0 .. 511 :
              /\ low(m) = AsByte(v)
              /\ 256 * AsBit(s'.carry) + lo' = Rotated(v, step + 1)
         /\ lo' \in Byte /\ hi' \in Byte /\ s' \in AluState
<1>1. PICK v \in 0 .. 511 : low(m) = AsByte(v) /\ 256 * AsBit(f) + lo = Rotated(v, step)
  BY DEF ShiftsInv
<1>2. s \in AluState /\ lo \in Byte /\ n \in Word
  BY DEF ShiftsInv
<1>3. /\ s' = Compute(ROL, Loaded(s, lo, low(n), f))
      /\ s' \in AluState /\ lo' = s'.result
      /\ lo' \in Byte /\ hi' \in Byte
  BY ShiftStepOps
<1>4. low(n) \in Byte
  BY <1>2, Split
<1>5. s'.result = AsByte(2 * lo) + AsBit(f) /\ s'.carry = (lo >= 128)
  <2>1. s \in AluState /\ lo \in Byte /\ low(n) \in Byte
    BY <1>2, <1>3, <1>4
  <2>2. s' = Compute(ROL, Loaded(s, lo, low(n), f))
    BY <1>3
  <2> QED
    BY <2>1, <2>2, RolStep
<1>6. s'.carry \in BOOLEAN
  BY <1>3 DEF AluState
<1>7. v \in Int /\ 0 <= v /\ v <= 511
  BY SMT
<1>8. 256 * AsBit(s'.carry) + (AsByte(2 * lo) + AsBit(f)) = Rotated(v, step + 1)
  <2> DEFINE e == AsBit(f)
             d == s'.carry
             g == AsBit(d)
             w == 256 * e + lo
  <2>1. e \in {0, 1} /\ g \in {0, 1} /\ (g = 1 <=> d)
    BY DEF AsBit
  <2>2. d <=> lo >= 128
    BY <1>5, <1>6
  <2>3. Rotated(v, step) = w
    BY <1>1
  <2>4. Rotated(v, step + 1)
          = 2 * Rotated(v, step) - (IF Rotated(v, step) >= 256 THEN 511 ELSE 0)
    BY <1>7, NextRotated
  <2> HIDE DEF e, d, g
  <2>5. lo \in Byte /\ (g = 1 <=> lo >= 128)
    BY <1>2, <2>1, <2>2
  <2>6. 256 * g + (AsByte(2 * lo) + e) = 2 * w - (IF w >= 256 THEN 511 ELSE 0)
    <3> DEFINE x == AsByte(2 * lo)
    <3>1. x = IF lo >= 128 THEN 2 * lo - 256 ELSE 2 * lo
      BY <2>5, ShiftedByte
    <3>2. lo \in Int /\ 0 <= lo /\ lo <= 255
      BY <2>5, SMT DEF Byte
    <3> HIDE DEF x
    <3>3. 256 * g + (x + e) = 2 * w - (IF w >= 256 THEN 511 ELSE 0)
      BY <2>1, <2>5, <3>1, <3>2, SMT
    <3> QED
      BY <3>3 DEF x
  <2> HIDE DEF w
  <2>7. 256 * g + (AsByte(2 * lo) + e) = Rotated(v, step + 1)
    BY <2>3, <2>4, <2>6
  <2> QED
    BY <2>7 DEF e, d, g
<1> QED
  BY <1>1, <1>3, <1>5, <1>8

LEMMA StepShifts == ShiftsInv /\ [WideNext]_wideVars => ShiftsInv'
<1> SUFFICES ASSUME ShiftsInv, [WideNext]_wideVars PROVE ShiftsInv'
  OBVIOUS
<1>1. CASE UNCHANGED wideVars
  BY <1>1 DEF ShiftsInv, ShiftsAreExact, Result, wideVars, AluState
<1>2. CASE WideNext
  <2>1. /\ chain' = chain /\ m' = m /\ n' = n /\ step' = step + 1
        /\ chain \in Chains /\ m \in Word /\ n \in Word /\ step \in 0 .. 8
        /\ chain # "rotate" => step \in 0 .. 1
    BY <1>2 DEF WideNext, ShiftsInv, Steps
  <2>2. chain \in {"shift_left", "shift_right", "rotate"} => s.carry \in BOOLEAN
    BY DEF ShiftsInv, AluState
  <2>3. CASE chain = "shift_left" /\ step = 0
    <3>1. LowStep(ASL, s.carry)
      BY <1>2, <2>3 DEF WideNext
    <3>2. /\ lo' = AsByte(2 * low(m)) /\ s'.carry = (low(m) >= 128)
          /\ hi' = high(m) /\ lo' \in Byte /\ hi' \in Byte /\ s' \in AluState
      BY <2>2, <2>3, <3>1, LeftLowStep
    <3> QED
      BY <2>1, <2>3, <3>2 DEF ShiftsInv, ShiftsAreExact
  <2>4. CASE chain = "shift_left" /\ step = 1
    <3>1. HighStep(ROL, s.carry)
      BY <1>2, <2>4 DEF WideNext
    <3>2. /\ MakeWord(hi', lo') = AsWord(2 * m) /\ s'.carry = (m >= 32768)
          /\ lo' \in Byte /\ hi' \in Byte /\ s' \in AluState
      BY <2>2, <2>4, <3>1, LeftHighStep
    <3> QED
      BY <2>1, <2>4, <3>2 DEF ShiftsInv, ShiftsAreExact, Result
  <2>5. CASE chain = "shift_right" /\ step = 0
    <3>1. HighStep(LSR, s.carry)
      BY <1>2, <2>5 DEF WideNext
    <3>2. /\ hi' = high(m) \div 2 /\ s'.carry = (high(m) % 2 = 1)
          /\ lo' = low(m) /\ lo' \in Byte /\ hi' \in Byte /\ s' \in AluState
      BY <2>2, <2>5, <3>1, RightHighStep
    <3> QED
      BY <2>1, <2>5, <3>2 DEF ShiftsInv, ShiftsAreExact
  <2>6. CASE chain = "shift_right" /\ step = 1
    <3>1. LowStep(ROR, s.carry)
      BY <1>2, <2>6 DEF WideNext
    <3>2. /\ MakeWord(hi', lo') = m \div 2 /\ s'.carry = (m % 2 = 1)
          /\ lo' \in Byte /\ hi' \in Byte /\ s' \in AluState
      BY <2>2, <2>6, <3>1, RightLowStep
    <3> QED
      BY <2>1, <2>6, <3>2 DEF ShiftsInv, ShiftsAreExact, Result
  <2>7. CASE chain = "rotate"
    <3>1. LowStep(ROL, s.carry)
      BY <1>2, <2>7 DEF WideNext
    <3>2. /\ \E v \in 0 .. 511 :
               /\ low(m) = AsByte(v)
               /\ 256 * AsBit(s'.carry) + lo' = Rotated(v, step + 1)
          /\ lo' \in Byte /\ hi' \in Byte /\ s' \in AluState
      BY <2>1, <2>2, <2>7, <3>1, RotateStep
    <3>3. step' = 9 => lo' = low(m)
      <4> SUFFICES ASSUME step' = 9 PROVE lo' = low(m)
        OBVIOUS
      <4>1. PICK v \in 0 .. 511 :
              low(m) = AsByte(v) /\ 256 * AsBit(s'.carry) + lo' = Rotated(v, 9)
        BY <2>1, <3>2
      <4>2. v \in Int /\ 0 <= v /\ v <= 511
        BY SMT
      <4>3. 256 * AsBit(s'.carry) + lo' = v
        BY <4>1, <4>2, RotatedRound
      <4> DEFINE e == AsBit(s'.carry)
      <4>4. e \in {0, 1} /\ 256 * e + lo' = v
        BY <4>3 DEF AsBit
      <4> HIDE DEF e
      <4> DEFINE b == lo'
      <4>5. b \in Byte /\ 256 * e + b = v
        BY <3>2, <4>4
      <4> HIDE DEF b
      <4>6. b = AsByte(v)
        BY <4>2, <4>4, <4>5, SMT DEF Byte, AsByte
      <4> QED
        BY <4>1, <4>6 DEF b
    <3> QED
      BY <2>1, <2>7, <3>2, <3>3 DEF ShiftsInv, ShiftsAreExact
  <2>8. CASE chain \notin {"shift_left", "shift_right", "rotate"}
    BY <2>1, <2>8 DEF ShiftsInv, ShiftsAreExact
  <2> QED
    BY <2>1, <2>3, <2>4, <2>5, <2>6, <2>7, <2>8
<1> QED
  BY <1>1, <1>2

(* Words shifted by ASL and ROL or by LSR and ROR, byte by byte, are shifted
   exactly, with the bit that falls out in the carry, and nine ROLs give any
   byte back, whatever the flags were: no bit is lost between the steps. *)
THEOREM ChainedShiftsAreExact == WideSpec => []ShiftsAreExact
<1>1. ShiftsInv => ShiftsAreExact
  BY DEF ShiftsInv
<1> QED
  BY InitShifts, StepShifts, <1>1, PTL DEF WideSpec
=============================================================================

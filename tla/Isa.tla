--------------------------------- MODULE Isa ---------------------------------
(***************************************************************************)
(* What a program may rely on: one step per instruction on the registers   *)
(* the programmer sees.  There are no ticks, buses or microcode here; the  *)
(* addressing modes and operations are stated directly in arithmetic.      *)
(***************************************************************************)
EXTENDS Integers, Bytes, InstructionSet

CONSTANT Load(_, _)  \* Load(ram, addr): the value at an address

VARIABLE s     \* [a, x, y, sp, pc, p, ram, halted, crashed]

FlagBits == [carry |-> 0, zero |-> 1, interrupt_disable |-> 2, decimal |-> 3,
             break |-> 4, unused |-> 5, overflow |-> 6, negative |-> 7]

(* The byte a set of flags is pushed as, and back. *)
FlagAt(i) == CHOOSE f \in DOMAIN FlagBits : FlagBits[f] = i
ToByte(p) == FromBits([i \in 0 .. 7 |-> IF FlagAt(i) \in p THEN 1 ELSE 0])
ToFlags(n) == {f \in DOMAIN FlagBits : Bit(n, FlagBits[f]) = 1}

(* Flags p with those in some set replaced by the ones that hold. *)
Put(p, f, on) == IF on THEN p \cup {f} ELSE p \ {f}
PutZN(p, v) == Put(Put(p, "zero", v = 0), "negative", v >= 128)

Opcode1(st) == Load(st.ram, st.pc)
Arg(st, i) == Load(st.ram, AsWord(st.pc + i))
ArgWord(st) == MakeWord(Arg(st, 2), Arg(st, 1))

(* A pointer in the zero page does not leave it. *)
ZeroPageWord(st, z) ==
  MakeWord(Load(st.ram, AsByte(z + 1)), Load(st.ram, AsByte(z)))

EffectiveAddress(st, mode) ==
  CASE mode = "IMM" -> AsWord(st.pc + 1)
    [] mode = "ZP" -> Arg(st, 1)
    [] mode = "ZPX" -> AsByte(Arg(st, 1) + st.x)
    [] mode = "ZPY" -> AsByte(Arg(st, 1) + st.y)
    [] mode = "ABS" -> ArgWord(st)
    [] mode = "ABX" -> AsWord(ArgWord(st) + st.x)
    [] mode = "ABY" -> AsWord(ArgWord(st) + st.y)
    [] mode = "IZX" -> ZeroPageWord(st, Arg(st, 1) + st.x)
    [] mode = "IZY" -> AsWord(ZeroPageWord(st, Arg(st, 1)) + st.y)

Length(mode) == CASE mode = "IMP" -> 1
                  [] mode \in {"ABS", "ABX", "ABY", "IND"} -> 3
                  [] OTHER -> 2

Poke(ram, addr, v) ==
  [m \in DOMAIN ram \cup {addr} |-> IF m = addr THEN v ELSE ram[m]]

-----------------------------------------------------------------------------
(* Results of the operations, as [v, p]: a value and the flags after it. *)

WithCarry(p, v, c) == [v |-> v, p |-> PutZN(Put(p, "carry", c), v)]
Carry(p) == IF "carry" \in p THEN 1 ELSE 0

Adc(n, m, p) ==
  LET sum == n + m + Carry(p)
      signed == Signed(n) + Signed(m) + Carry(p)
  IN  WithCarry(Put(p, "overflow", signed < -128 \/ signed > 127),
                AsByte(sum), sum > 255)

(* The carry is the complement of the borrow; V is not computed. *)
Sbc(n, m, p) ==
  LET diff == n - m - (1 - Carry(p))
  IN  WithCarry(p, AsByte(diff), diff >= 0)

Logical(v, p) == WithCarry(p \ {"overflow"}, v, FALSE)

Arith(m, n, v, p) ==
  CASE m = "ADC" -> Adc(n, v, p)
    [] m = "SBC" -> Sbc(n, v, p)
    [] m = "AND" -> Logical(BitAnd(n, v), p)
    [] m = "ORA" -> Logical(BitOr(n, v), p)
    [] m = "EOR" -> Logical(BitXor(n, v), p)

Unary(m, n, p) ==
  LET q == p \ {"overflow"}
  IN  CASE m = "ASL" -> WithCarry(q, AsByte(n * 2), n >= 128)
        [] m = "ROL" -> WithCarry(q, AsByte(n * 2 + Carry(p)), n >= 128)
        [] m = "LSR" -> WithCarry(q, n \div 2, n % 2 = 1)
        [] m = "ROR" -> WithCarry(q, (n + 256 * Carry(p)) \div 2, n % 2 = 1)
        [] m \in {"INC", "INX", "INY"} ->
             [v |-> AsByte(n + 1), p |-> PutZN(p, AsByte(n + 1))]
        [] m \in {"DEC", "DEX", "DEY"} ->
             [v |-> AsByte(n - 1), p |-> PutZN(p, AsByte(n - 1))]

Taken(m, p) ==
  CASE m = "BEQ" -> "zero" \in p      [] m = "BNE" -> "zero" \notin p
    [] m = "BCS" -> "carry" \in p     [] m = "BCC" -> "carry" \notin p
    [] m = "BMI" -> "negative" \in p  [] m = "BPL" -> "negative" \notin p
    [] m = "BVS" -> "overflow" \in p  [] m = "BVC" -> "overflow" \notin p

-----------------------------------------------------------------------------
(* The stack lives in page 1 and the stack pointer wraps inside it. *)

PushByte(st, v) ==
  [st EXCEPT !.ram = Poke(st.ram, 256 + st.sp, v), !.sp = AsByte(st.sp - 1)]
PushWord(st, w) == PushByte(PushByte(st, high(w)), low(w))
Top(st, i) == Load(st.ram, 256 + AsByte(st.sp + i))
Popped(st, n) == [st EXCEPT !.sp = AsByte(st.sp + n)]

(* BRK and IRQ push the flags with I set, and differ in the Break flag they
   push; Break is never left set. *)
Interrupt(st, break) ==
  LET masked == st.p \cup {"interrupt_disable"}
      pushed == PushByte(PushWord(st, st.pc), ToByte(Put(masked, "break", break)))
  IN  [pushed EXCEPT !.p = masked \ {"break"},
                     !.pc = MakeWord(Load(pushed.ram, \hFFFF),
                                     Load(pushed.ram, \hFFFE))]

(* Memory operations see the pc after the instruction (st), and the operand
   address and value, computed before it moved. *)
ToRegister(st, r, v) ==
  [st EXCEPT ![r] = v, !.p = PutZN(st.p, v)]
WithResult(st, r, res) == [st EXCEPT ![r] = res.v, !.p = res.p]

RegisterOf(m) ==
  CASE m \in {"LDA", "STA", "CMP"} -> "a"
    [] m \in {"LDX", "STX", "CPX", "INX", "DEX"} -> "x"
    [] m \in {"LDY", "STY", "CPY", "INY", "DEY"} -> "y"

OnMemory(st, m, ea) ==
  LET v == Load(st.ram, ea)
  IN  CASE m \in {"LDA", "LDX", "LDY"} -> ToRegister(st, RegisterOf(m), v)
        [] m \in {"STA", "STX", "STY"} ->
             [st EXCEPT !.ram = Poke(st.ram, ea, st[RegisterOf(m)])]
        [] m \in {"ADC", "SBC", "AND", "ORA", "EOR"} ->
             WithResult(st, "a", Arith(m, st.a, v, st.p))
        [] m \in {"CMP", "CPX", "CPY"} ->
             [st EXCEPT !.p = Sbc(st[RegisterOf(m)], v, st.p \cup {"carry"}).p]
        [] m = "BIT" -> [st EXCEPT !.p = PutZN(st.p, BitAnd(st.a, v))]
        [] m \in {"ASL", "LSR", "ROL", "ROR", "INC", "DEC"} ->
             LET res == Unary(m, v, st.p)
             IN  [st EXCEPT !.ram = Poke(st.ram, ea, res.v), !.p = res.p]

OnStack(st, m) ==
  CASE m = "PHA" -> PushByte(st, st.a)
    [] m = "PHP" -> PushByte(st, ToByte(st.p))
    [] m = "PLA" -> ToRegister(Popped(st, 1), "a", Top(st, 1))
    [] m = "PLP" -> [Popped(st, 1) EXCEPT !.p = ToFlags(Top(st, 1))]
    [] m = "RTS" -> [Popped(st, 2) EXCEPT !.pc = MakeWord(Top(st, 2), Top(st, 1))]
    [] m = "RTI" -> [Popped(st, 3) EXCEPT !.p = ToFlags(Top(st, 1)),
                                          !.pc = MakeWord(Top(st, 3), Top(st, 2))]
    [] m \in {"BRK", "IRQ"} -> Interrupt(st, m = "BRK")

Implied(st, m) ==
  CASE m \in {"ASL", "LSR", "ROL", "ROR"} ->
         WithResult(st, "a", Unary(m, st.a, st.p))
    [] m \in {"INX", "DEX", "INY", "DEY"} ->
         WithResult(st, RegisterOf(m), Unary(m, st[RegisterOf(m)], st.p))
    [] m = "TAX" -> ToRegister(st, "x", st.a)
    [] m = "TXA" -> ToRegister(st, "a", st.x)
    [] m = "TAY" -> ToRegister(st, "y", st.a)
    [] m = "TYA" -> ToRegister(st, "a", st.y)
    [] m = "TSX" -> ToRegister(st, "x", st.sp)
    [] m = "TXS" -> [st EXCEPT !.sp = st.x]
    [] m \in {"CLC", "SEC"} -> [st EXCEPT !.p = Put(st.p, "carry", m = "SEC")]
    [] m = "CLV" -> [st EXCEPT !.p = st.p \ {"overflow"}]
    [] m = "HLT" -> [st EXCEPT !.halted = TRUE]
    [] m = "CRS" -> [st EXCEPT !.halted = TRUE, !.crashed = TRUE]
    [] m = "NOP" -> st
    [] OTHER -> OnStack(st, m)

(* The effect of instruction i, the pc having moved past it. *)
Exec(st, i) ==
  LET m == i[1]
      mode == i[2]
      after == [st EXCEPT !.pc = AsWord(st.pc + Length(mode))]
      target == IF mode = "REL" THEN AsWord(after.pc + Signed(Arg(st, 1)))
                ELSE IF mode = "IND"
                  THEN MakeWord(Load(st.ram, AsWord(ArgWord(st) + 1)),
                                Load(st.ram, ArgWord(st)))
                  ELSE ArgWord(st)
      go == \/ m \in {"JMP", "JSR"}
            \/ m = "JEQ" /\ "zero" \in st.p
            \/ mode = "REL" /\ Taken(m, st.p)
      from == IF m = "JSR" THEN PushWord(after, after.pc) ELSE after
  IN  CASE mode = "REL" \/ m \in {"JMP", "JSR", "JEQ"} ->
             IF go THEN [from EXCEPT !.pc = target] ELSE after
        [] mode = "IMP" -> Implied(after, m)
        [] OTHER -> OnMemory(after, m, EffectiveAddress(st, mode))

Init == ~s.halted /\ ~s.crashed

Next ==
  /\ ~s.halted
  /\ Opcode1(s) \in Opcodes
  /\ s' = Exec(s, InstructionAt[Opcode1(s)])

Spec == Init /\ [][Next]_s
=============================================================================

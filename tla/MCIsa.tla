-------------------------------- MODULE MCIsa --------------------------------
EXTENDS CpuIsa, TLC

CONSTANT Mnemonics  \* which instructions to execute

AllMnemonics == DOMAIN OpcodeOf

(* Operands: accumulator, value in memory, status, stack pointer. *)
Samples ==
  {[a |-> 0,     v |-> \h80, p |-> 0,    sp |-> 0],
   [a |-> \h7F,  v |-> 1,    p |-> \hFF, sp |-> \hFF],
   [a |-> \hFF,  v |-> \hFF, p |-> \hC2, sp |-> 1],
   [a |-> \h80,  v |-> 1,    p |-> 1,    sp |-> \hFE],
   [a |-> \h41,  v |-> \h41, p |-> \h3C, sp |-> \h80]}

(* Where the instruction lies, its first operand byte and both indices: one
   without and one with page crossings in fetch, indexing and pointers. *)
Places ==
  {[pc |-> \h0700, arg |-> \h10, x |-> 3, y |-> 2],
   [pc |-> \h06FF, arg |-> \hFF, x |-> \h80, y |-> \h90]}

EmptyReg == [r \in Registers |-> 0]

(* Internal registers hold what some earlier instruction left. *)
Registers0(t, l) ==
  [EmptyReg EXCEPT !["a"] = t.a, !["x"] = l.x, !["y"] = l.y, !["sp"] = t.sp,
                   !["status"] = t.p, !["pc"] = l.pc, !["ir"] = \hE6,
                   !["alu.result"] = \hA5, !["alu.lhs"] = \h5A,
                   !["alu.rhs"] = \hC3, !["mar"] = \h1234,
                   !["mar.offset"] = \h77, !["pc.signed_offset"] = \h88]

Stack == [m \in {\h0100, \h0101, \h0102, \h0103, \h01FF} |-> AsByte(3 * m + \h21)]

Code(l, op) == (l.pc :> op) @@ (l.pc + 1 :> l.arg) @@ (l.pc + 2 :> 2)

Pointers(l) ==
  [z \in {AsByte(l.arg + i) : i \in {0, 1, l.x, l.x + 1}} |->
     IF z \in {l.arg, AsByte(l.arg + l.x)} THEN \hF8 ELSE 4]

(* The value v where the instruction will look for its operand. *)
Image(i, t, l) ==
  LET cells == Code(l, Opcode(i)) @@ Pointers(l) @@ Stack
      start == ArchOf(Registers0(t, l), cells, FALSE, FALSE)
      operand == IF i[2] \in {"IMP", "IMM", "REL", "IND"}
                   THEN << >>
                   ELSE Isa!EffectiveAddress(start, i[2]) :> t.v
  IN  [reg |-> Registers0(t, l), ram |-> operand @@ cells]

MCImages ==
  {Image(i, t, l) :
     i \in {j \in Instructions : j[1] \in Mnemonics}, t \in Samples, l \in Places}

Vector == (\hFFFE :> \h34) @@ (\hFFFF :> \h12)
=============================================================================

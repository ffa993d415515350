------------------------------ MODULE Microcode ------------------------------
(***************************************************************************)
(* The microprogram of microcode/microcode.yaml as the microcode compiler  *)
(* hands it to the controller: for every opcode of isa/instructions.yaml   *)
(* its variants, each a condition on the status flags and a sequence of    *)
(* steps, each step the set of controls it asserts.                        *)
(*                                                                         *)
(* A control is a pair of a component's path and the control's name; the   *)
(* path is shortened to its last names ("mar.low" is memory.mar.low).      *)
(***************************************************************************)
EXTENDS Sequences, Alu, InstructionSet

wr(c) == <<c, "write">>
rd(c) == <<c, "read">>
inc(c) == <<c, "increment">>
dec(c) == <<c, "decrement">>
set(f) == <<f, "set">>
clear(f) == <<f, "clear">>

(* The bits alu.opcode_bit_0 .. 3 that encode an ALU operation. *)
AluBit == <<"opcode_bit_0", "opcode_bit_1", "opcode_bit_2", "opcode_bit_3">>
alu(op) == {<<"alu", AluBit[i]>> : i \in {j \in 1 .. 4 : Bit(op, j - 1) = 1}}

-----------------------------------------------------------------------------
(***************************************************************************)
(* Operand fetch and addressing modes: each leaves the address in the MAR. *)
(***************************************************************************)

FetchOperand(readers) ==
  <<{wr("pc"), rd("mar")}, {wr("memory"), inc("pc")} \cup readers>>

Offset(index) == <<{wr(index), rd("mar.offset")}, {<<"mar", "add_offset">>}>>
ZeroPage == <<{<<"mar.high", "reset">>}>>

ZP == FetchOperand({rd("mar.low")}) \o ZeroPage

(* Mutant: the index carries out of the zero page. *)
ZPIndexedLeavesPage(index) == FetchOperand({rd("mar.low")}) \o Offset(index)

ZPIndexed(index) == FetchOperand({rd("mar.low")}) \o Offset(index) \o ZeroPage

(* Fetching the high byte moves the MAR, so the low byte waits in the ALU. *)
ABS == FetchOperand({rd("mar.low"), rd("alu.result")})
         \o FetchOperand({rd("mar.high")})
         \o <<{wr("alu.result"), rd("mar.low")}>>

(* The MAR takes the pointer it points to in the zero page. *)
Pointer == <<{wr("memory"), rd("alu.result")}, {inc("mar")}>> \o ZeroPage
             \o <<{wr("memory"), rd("mar.high")},
                  {wr("alu.result"), rd("mar.low")}>>

Address(mode) ==
  CASE mode = "ZP" -> ZP
    [] mode = "ZPX" -> ZPIndexed("x")
    [] mode = "ZPY" -> ZPIndexed("y")
    [] mode = "ABS" -> ABS
    [] mode = "ABX" -> ABS \o Offset("x")
    [] mode = "ABY" -> ABS \o Offset("y")
    [] mode = "IZX" -> ZPIndexed("x") \o Pointer
    [] mode = "IZY" -> ZP \o Pointer \o Offset("y")

(* The operand's value goes to the readers. *)
Operand(mode, readers) ==
  IF mode = "IMM" THEN FetchOperand(readers)
                  ELSE Address(mode) \o <<{wr("memory")} \cup readers>>

-----------------------------------------------------------------------------
(***************************************************************************)
(* Operations.                                                             *)
(***************************************************************************)

ZN == rd("status.analyzer")  \* the bus value sets Zero and Negative

(* Mutant: the operand is read twice. *)
LoadTwice(r, mode) == Operand(mode, {rd(r)}) \o <<{wr("memory"), rd(r), ZN}>>

Load(r, mode) == Operand(mode, {rd(r), ZN})
Store(r, mode) == Address(mode) \o <<{wr(r), rd("memory")}>>

Binary(op, mode) ==
  Operand(mode, {rd("alu.rhs")})
    \o <<{wr("a"), rd("alu.lhs")}, alu(op), {wr("alu.result"), rd("a"), ZN}>>

(* A comparison subtracts without borrow and drops the difference. *)
Compare(r, mode) ==
  Operand(mode, {rd("alu.rhs")})
    \o <<{wr(r), rd("alu.lhs")}, {set("status.carry")}, alu(SUB),
         {wr("alu.result"), ZN}>>

BitTest(mode) ==
  Operand(mode, {rd("alu.rhs")})
    \o <<{wr("a"), rd("alu.lhs")}, alu(BIT), {wr("alu.result"), ZN}>>

(* A unary operation on a register, and one on memory. *)
Unary(op, r) ==
  <<{wr(r), rd("alu.lhs")}, alu(op), {wr("alu.result"), rd(r), ZN}>>
Modify(op, mode) ==
  IF mode = "IMP" THEN Unary(op, "a") ELSE Address(mode) \o Unary(op, "memory")

Transfer(from, to) == <<{wr(from), rd(to), ZN}>>

Push(source) ==
  <<{wr("sp"), rd("mar.low"), <<"mar", "stack_page">>},
    {wr(source), rd("memory"), dec("sp")}>>
Pull(readers) ==
  <<{inc("sp")}, {wr("sp"), rd("mar.low"), <<"mar", "stack_page">>},
    {wr("memory")} \cup readers>>

(* The PC takes the word the MAR points to. *)
LoadPc == <<{wr("memory"), rd("pc.low")}, {inc("mar")},
            {wr("memory"), rd("pc.high")}>>
JumpToMar == <<{wr("mar"), rd("pc")}>>

JSR == ABS \o <<{wr("mar"), rd("tmp")}>> \o Push("pc.high") \o Push("pc.low")
         \o <<{wr("tmp"), rd("pc")}>>

(* Mutant: the return address is pulled in the wrong order. *)
RTSSwapped == Pull({rd("pc.high")}) \o Pull({rd("pc.low")})

RTS == Pull({rd("pc.low")}) \o Pull({rd("pc.high")})
RTI == Pull({rd("status")}) \o RTS

(* Mutant: interrupts stay enabled. *)
EnterUnmasked(break, after) ==
  Push("pc.high") \o Push("pc.low")
    \o <<Push("status")[1], break, Push("status")[2]>> \o after
    \o <<{<<"mar", "interrupt_vector">>}>> \o LoadPc

(* Interrupt entry: `break` is what is pushed of the Break flag. *)
Enter(break, after) ==
  <<{set("status.interrupt_disable")}>> \o Push("pc.high") \o Push("pc.low")
    \o <<Push("status")[1], break, Push("status")[2]>> \o after
    \o <<{<<"mar", "interrupt_vector">>}>> \o LoadPc
BRK == Enter({set("status.break")}, <<{clear("status.break")}>>)
IRQ == Enter({clear("status.break")}, <<>>)

-----------------------------------------------------------------------------
(***************************************************************************)
(* Variants: one, or two told apart by a flag.                             *)
(***************************************************************************)

Always(steps) == {[when |-> {}, steps |-> steps]}
IfFlag(f, v, steps, otherwise) ==
  {[when |-> {<<f, v>>}, steps |-> steps],
   [when |-> {<<f, ~v>>}, steps |-> otherwise]}

Branch(f, v) ==
  IfFlag(f, v,
         <<{wr("pc"), rd("mar")},
           {wr("memory"), inc("pc"), rd("pc.signed_offset"),
            <<"pc", "add_signed_offset">>}>>,
         FetchOperand({}))

JEQ == IfFlag("zero", TRUE, ABS \o JumpToMar,
              FetchOperand({rd("mar.low")}) \o FetchOperand({rd("mar.high")}))

LoadReg == [LDA |-> "a", LDX |-> "x", LDY |-> "y"]
StoreReg == [STA |-> "a", STX |-> "x", STY |-> "y"]
BinaryOp == [ADC |-> ADD, SBC |-> SUB, AND |-> AND, ORA |-> OR, EOR |-> XOR]
CompareReg == [CMP |-> "a", CPX |-> "x", CPY |-> "y"]
ModifyOp == [ASL |-> ASL, LSR |-> LSR, ROL |-> ROL, ROR |-> ROR,
             INC |-> INC, DEC |-> DEC]
RegisterOp == [INX |-> <<INC, "x">>, DEX |-> <<DEC, "x">>,
               INY |-> <<INC, "y">>, DEY |-> <<DEC, "y">>]
TransferRegs == [TAX |-> <<"a", "x">>, TXA |-> <<"x", "a">>,
                 TAY |-> <<"a", "y">>, TYA |-> <<"y", "a">>,
                 TSX |-> <<"sp", "x">>]
BranchOn == [BEQ |-> <<"zero", TRUE>>, BNE |-> <<"zero", FALSE>>,
             BCS |-> <<"carry", TRUE>>, BCC |-> <<"carry", FALSE>>,
             BMI |-> <<"negative", TRUE>>, BPL |-> <<"negative", FALSE>>,
             BVS |-> <<"overflow", TRUE>>, BVC |-> <<"overflow", FALSE>>]
Single ==
  [HLT |-> {<<"cpu", "halt">>}, CRS |-> {<<"cpu", "crash">>}, NOP |-> {},
   CLC |-> {clear("status.carry")}, SEC |-> {set("status.carry")},
   CLV |-> {clear("status.overflow")}, TXS |-> {wr("x"), rd("sp")}]
Stacked ==
  [PHA |-> Push("a"), PHP |-> Push("status"), PLA |-> Pull({rd("a"), ZN}),
   PLP |-> Pull({rd("status")}), JSR |-> JSR, RTS |-> RTS, RTI |-> RTI,
   BRK |-> BRK, IRQ |-> IRQ]

(* The variants microcode.yaml gives to instruction m in a mode. *)
Variants(m, mode) ==
  CASE m \in DOMAIN LoadReg -> Always(Load(LoadReg[m], mode))
    [] m \in DOMAIN StoreReg -> Always(Store(StoreReg[m], mode))
    [] m \in DOMAIN BinaryOp -> Always(Binary(BinaryOp[m], mode))
    [] m \in DOMAIN CompareReg -> Always(Compare(CompareReg[m], mode))
    [] m = "BIT" -> Always(BitTest(mode))
    [] m \in DOMAIN ModifyOp -> Always(Modify(ModifyOp[m], mode))
    [] m \in DOMAIN RegisterOp ->
         Always(Unary(RegisterOp[m][1], RegisterOp[m][2]))
    [] m \in DOMAIN TransferRegs ->
         Always(Transfer(TransferRegs[m][1], TransferRegs[m][2]))
    [] m \in DOMAIN BranchOn -> Branch(BranchOn[m][1], BranchOn[m][2])
    [] m \in DOMAIN Single -> Always(<<Single[m]>>)
    [] m \in DOMAIN Stacked -> Always(Stacked[m])
    [] m = "JEQ" -> JEQ
    [] m = "JMP" -> Always(ABS \o IF mode = "ABS" THEN JumpToMar ELSE LoadPc)

-----------------------------------------------------------------------------
(***************************************************************************)
(* What the compiler makes of it.  The optimizers that follow change       *)
(* nothing: no step is empty once it is sequenced, no two steps in a row   *)
(* are equal, and every step has a Process control, so none is merged.     *)
(***************************************************************************)

fetch_preamble ==
  <<{wr("pc"), rd("mar"), <<"controller", "instruction_start">>},
    {wr("memory"), rd("ir")}, {inc("pc")}>>

(* FetchTransformer, then SequenceTransformer: the step counter advances
   with every step and goes back to zero with the last. *)
Compile(steps) ==
  LET all == fetch_preamble \o steps
      ending(i) == IF i = Len(all) THEN <<"sc", "reset">> ELSE inc("sc")
  IN  [i \in 1 .. Len(all) |-> all[i] \cup {ending(i)}]

Program ==
  [op \in Opcodes |->
    {[when |-> v.when, steps |-> Compile(v.steps)] :
       v \in Variants(InstructionAt[op][1], InstructionAt[op][2])}]

Covers(v, flags) == \A c \in v.when : (c[1] \in flags) = c[2]

(* Mutant: the last step is not encoded. *)
HasEntryButLast(op, step, flags) ==
  op \in Opcodes /\ \E v \in Program[op] : Covers(v, flags) /\ step < Len(v.steps) - 1

(* Compiler::Encode makes an entry for opcode, step and set of raised flags. *)
HasEntry(op, step, flags) ==
  op \in Opcodes /\ \E v \in Program[op] : Covers(v, flags) /\ step < Len(v.steps)

(* InstructionMemory::Lookup.  The ROM holds the empty word where there is
   no entry. *)
Lookup(op, step, flags) ==
  IF HasEntry(op, step, flags)
    THEN (CHOOSE v \in Program[op] : Covers(v, flags)).steps[step + 1]
    ELSE {}

(* The ROM ends with the last entry, that of the crash opcode; reading past
   it throws. *)
PastEnd(op, step) == op = \hFF /\ step >= 4

-----------------------------------------------------------------------------
(* The words of the program. *)
Words ==
  UNION {{v.steps[k] : k \in 1 .. Len(v.steps)} : v \in UNION {Program[op] : op \in Opcodes}}

(* What can be read off microcode.yaml: every instruction begins with its fetch
   and with nothing else, counts its steps to the last and no further, and has
   at most one variant for a status; no word touches what only the tests and the
   debugger touch; and CRS crashes, as the only one, in its one step, and has the
   last opcode. *)
ASSUME ProgramAssumption ==
  \A op \in Opcodes : \A v \in Program[op] :
    /\ Len(v.steps) \in 3 .. 255
    /\ v.steps[1] = fetch_preamble[1] \cup {inc("sc")}
    /\ v.steps[2] = fetch_preamble[2] \cup {inc("sc")}
    /\ \A k \in 3 .. Len(v.steps) :
         {<<"controller", "instruction_start">>, rd("ir")} \cap v.steps[k] = {}
    /\ \A k \in 1 .. Len(v.steps) :
         v.steps[k] \cap {inc("sc"), <<"sc", "reset">>} =
           {IF k < Len(v.steps) THEN inc("sc") ELSE <<"sc", "reset">>}
    /\ \A u \in Program[op] : u = v \/ \E c \in v.when : <<c[1], ~c[2]>> \in u.when
ASSUME UntouchedAssumption ==
  \A w \in Words :
    {<<"ipc", "latch">>, <<"ipc", "reset">>, <<"ir", "reset">>, rd("ipc"), rd("sc"), dec("sc")}
      \cap w = {}
ASSUME CrashAssumption ==
  /\ Opcode(<<"CRS", "IMP">>) = \hFF
  /\ \A op \in Opcodes : \A v \in Program[op] : \A k \in 1 .. Len(v.steps) :
       <<"cpu", "crash">> \in v.steps[k] => op = \hFF
  /\ \A v \in Program[\hFF] :
       /\ Len(v.steps) = 4
       /\ v.steps[3] = fetch_preamble[3] \cup {inc("sc")}
       /\ v.steps[4] = {<<"cpu", "crash">>, <<"sc", "reset">>}
=============================================================================

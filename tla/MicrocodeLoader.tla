--------------------------- MODULE MicrocodeLoader ---------------------------
(***************************************************************************)
(* The compiled program on its way into the simulator.  Encode makes bit   *)
(* patterns of control words and statuses by the order in which the        *)
(* hardware description lists them; a Cpu is constructed with a program    *)
(* and with components of its own, which may be of another revision; its   *)
(* InstructionMemory takes the patterns apart again.  The decoder of       *)
(* microcode/src/debug prints a program.                                   *)
(***************************************************************************)
EXTENDS MicrocodeCompiler

CONSTANTS
  HdlOrder,     \* controls of the description the program is compiled for
  HdlBits,      \* and the bit index of each status bit
  Cpus,         \* what Cpu may be constructed from: controls and bits in the
                \* order of registration, and the controls of its own hdl
  MAX_CONTROLS  \* bits of a control word (128 in the code)

(* What the hardware description guarantees: its controls are controls, and
   its status register gives every status bit a bit of its own in a byte, beyond
   which the compiler's StatusEncoder throws.  Steps are counted in a byte. *)
ASSUME HdlAssumption ==
  /\ HdlOrder \in Seq(Control)
  /\ HdlBits \in [StatusBits -> 0 .. 7]
  /\ \A a, b \in StatusBits : HdlBits[a] = HdlBits[b] => a = b
ASSUME BoundsAssumption == MAX_CONTROLS \in Nat /\ MAX_STEPS \in 0 .. 256

VARIABLES
  program,  \* MicrocodeProgram: table, control_paths, status_bits; or << >>
  cpu,      \* the Cpu under construction, << >> before
  phase,    \* "compile", "construct", "load", "run" or, after a throw, "error"
  memory    \* the rom of InstructionMemory: its size and the burned words

loaderVars == <<program, cpu, phase, memory>>
allVars == <<vars, loaderVars>>

-----------------------------------------------------------------------------
(* ControlEncoder and InstructionEncoder of the compiler. *)

Index(order, control) == CHOOSE i \in DOMAIN order : order[i] = control

(* The word of a width whose bits at some exponents are set, put together from
   the highest bit down; and word >> n. *)
BitsOf(width, exponents) ==
  LET upper[n \in 0 .. width] ==
        IF n = 0 THEN 0
        ELSE 2 * upper[n - 1] + (IF width - n \in exponents THEN 1 ELSE 0)
  IN  upper[width]
ShiftRight(word, n) ==
  LET shifted[k \in 0 .. n] == IF k = 0 THEN word ELSE shifted[k - 1] \div 2
  IN  shifted[n]
HasBit(word, e) == ShiftRight(word, e) % 2 = 1

EncodeWord(controls) == BitsOf(MAX_CONTROLS, {Index(HdlOrder, c) - 1 : c \in controls})
EncodeBits(raised, bits) == BitsOf(8, {bits[b] : b \in raised})
EncodeKey(opcode, step, status) == opcode * 65536 + step * 256 + status
DecodeKey(key) ==
  [opcode |-> (key \div 65536) % 256, step |-> (key \div 256) % 256, status |-> key % 256]

EncodedTable ==
  LET encoded(key) == EncodeKey(key[1], key[2], EncodeBits(key[3], HdlBits))
  IN  [k \in {encoded(key) : key \in DOMAIN table} |->
         EncodeWord(table[CHOOSE key \in DOMAIN table : encoded(key) = k])]

LoaderInit ==
  /\ Init
  /\ program = << >>
  /\ cpu = << >>
  /\ phase = "compile"
  /\ memory = << >>

Compile ==
  /\ Next
  /\ UNCHANGED loaderVars

(* The rest of Compiler::Encode.  ControlEncoder refuses controls that are
   too many or unknown. *)
EncodeProgram ==
  /\ phase = "compile" /\ Compiled
  /\ IF Len(HdlOrder) > MAX_CONTROLS
        \/ ~(UNION Range(table) \subseteq Range(HdlOrder))
       THEN phase' = "error" /\ UNCHANGED program
       ELSE /\ phase' = "construct"
            /\ program' = [table |-> EncodedTable, control_paths |-> HdlOrder,
                           status_bits |-> HdlBits]
  /\ UNCHANGED <<vars, cpu, memory>>

-----------------------------------------------------------------------------
(* Cpu::Cpu. *)

(* BuildControlIndex: no path is registered twice.  ValidateAgainstHdl: the
   controls begin with those of the hdl, in its order. *)
ValidCpu(c) ==
  /\ \A i, j \in DOMAIN c.controls : c.controls[i] = c.controls[j] => i = j
  /\ Len(c.controls) >= Len(c.hdl)
  /\ \A i \in DOMAIN c.hdl : c.controls[i] = c.hdl[i]

ConstructCpu ==
  /\ phase = "construct"
  /\ cpu' \in Cpus
  /\ phase' = IF ValidCpu(cpu') THEN "load" ELSE "error"
  /\ UNCHANGED <<vars, program, memory>>

(* Mutant: only the number of controls is compared. *)
InitializeControlsBySize(c) ==
  /\ Len(program.control_paths) <= MAX_CONTROLS
  /\ Len(c.controls) = Len(program.control_paths)

(* ControlEncoder::Initialize and StatusEncoder::Initialize of the simulator. *)
InitializeControls(c) ==
  /\ Len(program.control_paths) <= MAX_CONTROLS
  /\ c.controls = program.control_paths
InitializeStatuses(c) ==
  \A b \in DOMAIN program.status_bits :
    b \in DOMAIN c.bits /\ c.bits[b] = program.status_bits[b]

(* Controller::LoadProgram: the rom ends behind the last entry, and what has
   no entry is 0. *)
LoadProgram ==
  /\ phase = "load"
  /\ IF ~InitializeControls(cpu) \/ ~InitializeStatuses(cpu)
       THEN phase' = "error" /\ UNCHANGED memory
       ELSE /\ phase' = "run"
            /\ memory' = [size |-> Max(DOMAIN program.table \cup {0}) + 1,
                          words |-> program.table]
  /\ UNCHANGED <<vars, program, cpu>>

LoaderNext ==
  \/ Compile
  \/ EncodeProgram
  \/ ConstructCpu
  \/ LoadProgram

LoaderSpec == LoaderInit /\ [][LoaderNext]_allVars

-----------------------------------------------------------------------------
(* Controller::TickControl: StatusEncoder::Encode and Lookup. *)
EncodeStatus(raised) ==
  EncodeBits(raised \cap DOMAIN program.status_bits, cpu.bits)

Fails == [ok |-> FALSE, controls |-> {}]
Lookup(opcode, step, raised) ==
  LET address == EncodeKey(opcode, step, EncodeStatus(raised))
      word == IF address \in DOMAIN memory.words THEN memory.words[address] ELSE 0
      count == Len(cpu.controls)
  IN  IF address >= memory.size THEN Fails
      ELSE IF count < MAX_CONTROLS /\ ShiftRight(word, count) # 0 THEN Fails
      ELSE [ok |-> TRUE,
            controls |-> {cpu.controls[i] : i \in {j \in 1 .. count : HasBit(word, j - 1)}}]

-----------------------------------------------------------------------------
(* MicrocodeDecoder.  A dump is a list of lines: headers for opcodes and
   statuses, and steps. *)

DecodeControlWord(word) ==
  {program.control_paths[i] :
     i \in {j \in DOMAIN program.control_paths : HasBit(word, j - 1)}}
DecodeStatusBits(status) ==
  IF status = 0 THEN {"default"}
  ELSE {b \in DOMAIN program.status_bits : HasBit(status, program.status_bits[b])}

Before(j, k) ==
  LET a == DecodeKey(j)  b == DecodeKey(k)
  IN  \/ a.opcode < b.opcode
      \/ a.opcode = b.opcode /\ a.status < b.status
      \/ a.opcode = b.opcode /\ a.status = b.status /\ a.step < b.step
Sorted(keys) ==
  [n \in 1 .. Cardinality(keys) |->
     CHOOSE k \in keys : Cardinality({j \in keys : Before(j, k)}) = n - 1]

NoHeader == 255
OpcodeLine(key) == [kind |-> "opcode", opcode |-> key.opcode]
StatusLine(key) == [kind |-> "status", name |-> DecodeStatusBits(key.status)]
StepLine(key) ==
  [kind |-> "step", step |-> key.step,
   controls |-> DecodeControlWord(program.table[EncodeKey(key.opcode, key.step, key.status)])]

(* Mutant: the variants of an instruction are run together. *)
DumpOnceHeaded(so_far, encoded_key) ==
  LET key == DecodeKey(encoded_key)
      opens == key.opcode # so_far.opcode
  IN  [lines |-> so_far.lines
                   \o (IF opens THEN <<OpcodeLine(key), StatusLine(key)>> ELSE << >>)
                   \o <<StepLine(key)>>,
       opcode |-> key.opcode, status |-> key.status]

(* The lines for one more key: a header where opcode or status change. *)
DumpKey(so_far, encoded_key) ==
  LET key == DecodeKey(encoded_key)
      opens == key.opcode # so_far.opcode
      status == IF opens THEN NoHeader ELSE so_far.status
  IN  [lines |-> so_far.lines
                   \o (IF opens THEN <<OpcodeLine(key)>> ELSE << >>)
                   \o (IF key.status # status THEN <<StatusLine(key)>> ELSE << >>)
                   \o <<StepLine(key)>>,
       opcode |-> key.opcode, status |-> key.status]

(* The loop over the sorted keys, with what has been printed before it. *)
DumpKeys(headed, keys) == Folded(DumpKey, headed, Sorted(keys)).lines

DumpProgram ==
  DumpKeys([lines |-> << >>, opcode |-> NoHeader, status |-> NoHeader], DOMAIN program.table)

(* The header comes first, also if there is nothing behind it. *)
DumpInstruction(opcode) ==
  DumpKeys([lines |-> <<[kind |-> "opcode", opcode |-> opcode]>>,
            opcode |-> opcode, status |-> NoHeader],
           {k \in DOMAIN program.table : DecodeKey(k).opcode = opcode})

-----------------------------------------------------------------------------
(***************************************************************************)
(* Properties.                                                             *)
(***************************************************************************)

(* A Cpu whose constructor did not throw asserts, for every opcode, step and
   status, exactly the controls the microcode names there, although it was
   given nothing but bit patterns and may be of another revision than the
   program. *)
ControlsArrive ==
  phase = "run" =>
    \A key \in DOMAIN table :
      Lookup(key[1], key[2], key[3]) = [ok |-> TRUE, controls |-> table[key]]

(* What a reader takes from a dump. *)
ReadDump(lines) ==
  LET last(i, kind) == Max({j \in 1 .. i : lines[j].kind = kind} \cup {0})
  IN  {<<IF last(i, "opcode") = 0 THEN -1 ELSE lines[last(i, "opcode")].opcode,
         lines[i].step,
         IF last(i, "status") = 0 THEN {} ELSE lines[last(i, "status")].name,
         lines[i].controls>> : i \in {j \in DOMAIN lines : lines[j].kind = "step"}}
Entry(key) ==
  <<key[1], key[2], IF key[3] = {} THEN {"default"} ELSE key[3], table[key]>>

(* The dump of a program, or of one instruction, read top to bottom, says what
   was compiled for every opcode, status and step.  255 stands for no header
   yet in the decoder and is an opcode too: only a program that has entries
   for no other opcode is printed without its header. *)
DumpReadsBack ==
  phase = "construct" =>
    /\ \/ {key[1] : key \in DOMAIN table} = {NoHeader}
       \/ ReadDump(DumpProgram) = {Entry(key) : key \in DOMAIN table}
    /\ \A opcode \in Expected :
         ReadDump(DumpInstruction(opcode)) =
           {Entry(key) : key \in {k \in DOMAIN table : k[1] = opcode}}
=============================================================================

--------------------------------- MODULE Cpu ---------------------------------
(***************************************************************************)
(* The simulated CPU of sim/src/cpu.cpp: registers, two buses, ALU, memory *)
(* and the controller, stepped through the five phases of a tick, with the *)
(* keyboard device as memory-mapped region and interrupt source.           *)
(*                                                                         *)
(* A phase is one step: all components are ticked in it.  TickProtocol     *)
(* shows that their order inside Write, Read and Clear does not matter for *)
(* validated microcode; where it does matter, in Process, the order of     *)
(* registration is kept.                                                   *)
(***************************************************************************)
EXTENDS Microcode

CONSTANTS
  Cartridge,   \* ROM contents, as a function on some of 0x8000 .. 0xFFFF
  Images,      \* register and RAM contents a run may start from
  NoValue,     \* a bus nobody has written this tick
  Keys, KeyBits, QUEUE_SIZE  \* see InputDevice

VARIABLES
  phase,        \* the phase to run next; "None" between two ticks
  asserted,     \* the auto-reset controls that are asserted
  data_bus, address_bus,
  reg,          \* every register, by component name
  inject,       \* inject_interrupt_ of the instruction register
  ram,          \* the RAM cells written so far; the others hold 0
  halted, crashed,
  fault,        \* a SimError has left Cpu::Tick
  queue, read_idx, write_idx, count, irq_enabled, key_state, irq_line, answer

busVars == <<data_bus, address_bus>>
deviceVars == <<queue, read_idx, write_idx, count, irq_enabled, key_state, answer>>
coreVars == <<phase, asserted, data_bus, address_bus, reg, inject, ram, halted,
              crashed, fault>>
vars == <<coreVars, deviceVars, irq_line>>

Device == INSTANCE InputDevice WITH NoKey <- 0

-----------------------------------------------------------------------------
(***************************************************************************)
(* Components and their wiring.                                            *)
(***************************************************************************)

ByteRegisters ==
  {"a", "x", "y", "sp", "status", "status.analyzer", "alu.lhs", "alu.rhs",
   "alu.result", "pc.signed_offset", "ir", "sc", "mar.offset"}
WordRegisters == {"tmp", "pc", "mar", "ipc"}
Registers == ByteRegisters \cup WordRegisters

OnAddressBus == {"tmp", "pc", "mar"}
OnDataBus == (ByteRegisters \ {"sc"})
               \cup {"pc.low", "pc.high", "mar.low", "mar.high", "memory"}

(* What the compiler's BusValidator has checked of every word: a bus has at most
   one writer, and one if anybody reads it. *)
ASSUME BusAssumption ==
  \A w \in Words : \A bus \in {OnDataBus, OnAddressBus} :
    /\ \A c, d \in bus : wr(c) \in w /\ wr(d) \in w => c = d
    /\ (\E c \in bus : rd(c) \in w) => \E c \in bus : wr(c) \in w

(* Images and cartridge hold what fits, an instruction is about to start, and
   the device counts its keys in a byte. *)
ASSUME ImagesAssumption ==
  \A image \in Images :
    /\ image.reg \in [Registers -> Word]
    /\ \A r \in ByteRegisters : image.reg[r] \in Byte
    /\ image.reg["sc"] = 0
    /\ \A m \in DOMAIN image.ram : image.ram[m] \in Byte
ASSUME CartridgeAssumption == \A m \in DOMAIN Cartridge : Cartridge[m] \in Byte
ASSUME DeviceAssumption == QUEUE_SIZE \in 1 .. 255 /\ Keys \subseteq Byte
ASSUME NoValueAssumption == NoValue \notin Word

Asserted(c, op) == <<c, op>> \in asserted
Writers(components) == {c \in components : Asserted(c, "write")}
Readers(components) == {c \in components : Asserted(c, "read")}

(* Status flags and their components, from bit 0 to bit 7. *)
FlagName == <<"carry", "zero", "interrupt_disable", "decimal", "break",
              "unused", "overflow", "negative">>
FlagPath == <<"status.carry", "status.zero", "status.interrupt_disable",
              "status.decimal", "status.break", "status.unused",
              "status.overflow", "status.negative">>
Flags(status) == {FlagName[i] : i \in {j \in 1 .. 8 : Bit(status, j - 1) = 1}}

(* An instruction has a variant for every status.  The status selects it anew at
   every step, so one that depends on a flag leaves the status alone. *)
StatusControls ==
  {rd("status"), rd("status.analyzer"), <<"status", "reset">>}
    \cup {<<FlagPath[i], op>> : i \in 1 .. 8, op \in {"set", "clear"}}
    \cup {<<"alu", AluBit[i]>> : i \in 1 .. 4}
ASSUME VariantsAssumption ==
  \A op \in Opcodes :
    /\ \/ \E v \in Program[op] : v.when = {}
       \/ \E u, v \in Program[op] : \E c \in u.when :
            c[2] \in BOOLEAN /\ u.when = {c} /\ v.when = {<<c[1], ~c[2]>>}
    /\ \A v \in Program[op] : v.when = {} \/ \A k \in 1 .. Len(v.steps) :
                                               v.steps[k] \cap StatusControls = {}

-----------------------------------------------------------------------------
(***************************************************************************)
(* Memory map.                                                             *)
(***************************************************************************)

IsRam(addr) == addr < \h2000
IsRom(addr) == addr >= \h8000
INPUT_DEVICE_BASE == \h4000
IsDevice(addr) == addr \in INPUT_DEVICE_BASE .. INPUT_DEVICE_BASE + 15

(* The value of a device register; reading DATA also pops, in TickWrite. *)
DeviceRead(offset) ==
  CASE offset = 0 -> AsBit(~Device!empty) + 2 * AsBit(Device!full)
                       + 128 * AsBit(Device!irq_pending)
    [] offset \in {2, 3} -> Device!Front
    [] offset = 4 -> count
    [] offset = 5 -> FromBits([i \in 0 .. 7 |-> AsBit(2 ^ i \in key_state)])
    [] OTHER -> 0

(* Memory::ReadAt, over the regions of BuildRegionFactories. *)
Stored(cells, addr) ==
  CASE IsRam(addr) -> IF addr \in DOMAIN cells THEN cells[addr] ELSE 0
    [] IsRom(addr) /\ addr \in DOMAIN Cartridge -> Cartridge[addr]
    [] OTHER -> 255
ReadAt(addr) == IF IsDevice(addr) THEN DeviceRead(addr - INPUT_DEVICE_BASE)
                                  ELSE Stored(ram, addr)

(* RAM after Memory::WriteAt. *)
RamWith(addr, v) == [m \in DOMAIN ram \cup {addr} |-> IF m = addr THEN v ELSE ram[m]]

-----------------------------------------------------------------------------
(***************************************************************************)
(* The five phases.                                                        *)
(***************************************************************************)

(* DemoRunner's ResetCpu on a new CPU: execution starts at the image's pc. *)
Init ==
  /\ phase = "None"
  /\ asserted = {}
  /\ data_bus = NoValue
  /\ address_bus = NoValue
  /\ inject = FALSE
  /\ \E image \in Images :
       /\ reg = image.reg
       /\ ram = image.ram
  /\ halted = FALSE
  /\ crashed = FALSE
  /\ fault = FALSE
  /\ Device!Init

(* InstructionRegister::value *)
IrValue == IF inject THEN 0 ELSE reg["ir"]

(* Control: the controller asserts the controls of the current microcode
   word; the device then refreshes the interrupt line. *)
TickControl ==
  /\ phase = "None"
  /\ ~halted
  /\ asserted' = Lookup(IrValue, reg["sc"], Flags(reg["status"]))
  /\ fault' = PastEnd(IrValue, reg["sc"])
  /\ IF fault' THEN UNCHANGED <<deviceVars, irq_line>> ELSE Device!TickControl
  /\ phase' = "Write"
  /\ UNCHANGED <<busVars, reg, inject, ram, halted, crashed>>

(* What component c puts on its bus. *)
Driven(c) ==
  CASE c = "memory" -> ReadAt(reg["mar"])
    [] c = "pc.low" -> low(reg["pc"])
    [] c = "pc.high" -> high(reg["pc"])
    [] c = "mar.low" -> low(reg["mar"])
    [] c = "mar.high" -> high(reg["mar"])
    [] OTHER -> reg[c]

(* Bus::Write throws for a second writer. *)
BusAfter(writers) == IF writers = {} THEN NoValue
                                     ELSE Driven(CHOOSE c \in writers : TRUE)
Contention(writers) == \E v, w \in writers : v # w

(* Write: a write of the memory reads the MAR's address, and so may pop. *)
TickWrite ==
  /\ phase = "Write"
  /\ data_bus' = BusAfter(Writers(OnDataBus))
  /\ address_bus' = BusAfter(Writers(OnAddressBus))
  /\ fault' = \/ Contention(Writers(OnDataBus))
              \/ Contention(Writers(OnAddressBus))
  /\ IF Asserted("memory", "write") /\ reg["mar"] = INPUT_DEVICE_BASE + 2
       THEN Device!ReadData
       ELSE UNCHANGED <<deviceVars, irq_line>>
  /\ phase' = "Read"
  /\ UNCHANGED <<asserted, reg, inject, ram, halted, crashed>>

(* A word register reads its own bus, or one of its byte ports does. *)
WordAfterRead(r, lo, hi) ==
  CASE Asserted(r, "read") -> address_bus
    [] Asserted(lo, "read") -> MakeWord(high(reg[r]), data_bus)
    [] Asserted(hi, "read") -> MakeWord(data_bus, low(reg[r]))
    [] OTHER -> reg[r]

(* StatusAnalyzer::TickRead, after StatusRegister's own read. *)
StatusAfterRead ==
  LET s == IF Asserted("status", "read") THEN data_bus ELSE reg["status"]
  IN  IF Asserted("status.analyzer", "read")
        THEN WithBit(WithBit(s, 1, data_bus = 0), 7, data_bus >= 128)
        ELSE s

AfterRead(r) ==
  CASE r = "pc" -> WordAfterRead("pc", "pc.low", "pc.high")
    [] r = "mar" -> WordAfterRead("mar", "mar.low", "mar.high")
    [] r = "status" -> StatusAfterRead
    [] OTHER -> IF ~Asserted(r, "read") THEN reg[r]
                ELSE IF r = "tmp" THEN address_bus ELSE data_bus

(* Read: a read of the memory stores the bus value at the MAR's address; a
   write to ROM or to no region throws, and so does reading an idle bus.
   A throw ends the run, so what it leaves half read is not told apart. *)
TickRead ==
  /\ phase = "Read"
  /\ LET stores == Asserted("memory", "read")
         addr == reg["mar"]
     IN  /\ fault' = \/ Readers(OnDataBus) # {} /\ data_bus = NoValue
                     \/ Readers(OnAddressBus) # {} /\ address_bus = NoValue
                     \/ stores /\ ~IsRam(addr) /\ ~IsDevice(addr)
         /\ ram' = IF stores /\ IsRam(addr) /\ ~fault'
                     THEN RamWith(addr, data_bus) ELSE ram
         /\ IF stores /\ addr = INPUT_DEVICE_BASE + 1 /\ ~fault'
              THEN Device!WriteControl(Bit(data_bus, 0) = 1)
              ELSE UNCHANGED <<deviceVars, irq_line>>
  /\ reg' = IF fault' THEN reg ELSE [r \in Registers |-> AfterRead(r)]
  /\ phase' = "Process"
  /\ UNCHANGED <<asserted, busVars, inject, halted, crashed>>

-----------------------------------------------------------------------------
(* Process, in the order of registration. *)

AluOpcode == FromBits([i \in 0 .. 7 |->
                        AsBit(i < 4 /\ Asserted("alu", AluBit[i + 1]))])

AluAfter ==
  Compute(AluOpcode,
          [lhs |-> reg["alu.lhs"], rhs |-> reg["alu.rhs"],
           result |-> reg["alu.result"],
           carry |-> "carry" \in Flags(reg["status"]),
           overflow |-> "overflow" \in Flags(reg["status"])])

(* Counter::TickProcess and LocalCounter::TickProcess *)
CounterAfter(r) ==
  CASE Asserted(r, "reset") -> 0
    [] Asserted(r, "increment") -> AsByte(reg[r] + 1)
    [] Asserted(r, "decrement") -> AsByte(reg[r] - 1)
    [] OTHER -> reg[r]

PortReset(lo, hi, w) ==
  MakeWord(IF Asserted(hi, "reset") THEN 0 ELSE high(w),
           IF Asserted(lo, "reset") THEN 0 ELSE low(w))

(* ProgramCounter::TickProcess: increment, then the branch offset. *)
PcAfter ==
  LET incremented == AsWord(reg["pc"] + AsBit(Asserted("pc", "increment")))
      branched == IF Asserted("pc", "add_signed_offset")
                    THEN AsWord(incremented + Signed(reg["pc.signed_offset"]))
                    ELSE incremented
  IN  PortReset("pc.low", "pc.high",
                IF Asserted("pc", "reset") THEN 0 ELSE branched)

(* The status register after the ALU, its own reset and the flag controls;
   when both are asserted, set wins over clear. *)
StatusAfter ==
  LET alu_flags == WithBit(WithBit(reg["status"], 0, AluAfter.carry),
                           6, AluAfter.overflow)
      s == IF Asserted("status", "reset") THEN 0 ELSE alu_flags
      flag(i) == IF Asserted(FlagPath[i + 1], "set") THEN 1
                 ELSE IF Asserted(FlagPath[i + 1], "clear") THEN 0 ELSE Bit(s, i)
  IN  FromBits([i \in 0 .. 7 |-> flag(i)])

(* MemoryAddressRegister::TickProcess, then the ports' resets. *)
MarAfter ==
  LET vector == IF Asserted("mar", "interrupt_vector") THEN \hFFFE ELSE reg["mar"]
      stack == IF Asserted("mar", "stack_page")
                 THEN MakeWord(1, low(vector)) ELSE vector
      next == AsWord(stack + AsBit(Asserted("mar", "increment")))
      sum == low(next) + reg["mar.offset"]
      indexed == IF Asserted("mar", "add_offset")
                   THEN MakeWord(AsByte(high(next) + AsBit(sum > 255)), AsByte(sum))
                   ELSE next
  IN  PortReset("mar.low", "mar.high", indexed)

InstructionStart == Asserted("controller", "instruction_start")

AfterProcess(r) ==
  CASE r \in {"sp", "sc"} -> CounterAfter(r)
    [] r = "pc" -> PcAfter
    [] r = "mar" -> MarAfter
    [] r = "status" -> StatusAfter
    [] r = "ipc" -> IF InstructionStart \/ Asserted("ipc", "latch")
                      THEN PcAfter ELSE reg["ipc"]
    [] Asserted(r, "reset") -> 0
    [] r = "alu.result" -> AluAfter.result
    [] OTHER -> reg[r]

(* The instruction register samples the interrupt line at the start of an
   instruction, unless interrupts are disabled; a reset takes precedence. *)
InjectAfter ==
  IF Asserted("ir", "reset") THEN FALSE
  ELSE IF InstructionStart
    THEN irq_line /\ "interrupt_disable" \notin Flags(StatusAfter)
    ELSE inject

(* Process: registers first, then the CPU looks at halt and crash. *)
TickProcess ==
  /\ phase = "Process"
  /\ reg' = [r \in Registers |-> AfterProcess(r)]
  /\ inject' = InjectAfter
  /\ crashed' = (crashed \/ Asserted("cpu", "crash"))
  /\ halted' = (halted \/ Asserted("cpu", "halt") \/ Asserted("cpu", "crash"))
  /\ phase' = "Clear"
  /\ UNCHANGED <<asserted, busVars, ram, fault, deviceVars, irq_line>>

(* Clear: controls and buses forget; the interrupt line is latched. *)
TickClear ==
  /\ phase = "Clear"
  /\ asserted' = {}
  /\ data_bus' = NoValue
  /\ address_bus' = NoValue
  /\ phase' = "None"
  /\ UNCHANGED <<reg, inject, ram, halted, crashed, fault, deviceVars, irq_line>>

Tick ==
  /\ ~fault
  /\ TickControl \/ TickWrite \/ TickRead \/ TickProcess \/ TickClear

(* DemoRunner::Run handles input events between two slices of ticks, and
   stops once the CPU has halted. *)
InjectKey(k) ==
  /\ phase = "None"
  /\ ~halted
  /\ ~fault
  /\ Device!inject_key(k)
  /\ UNCHANGED coreVars

Next == Tick \/ \E k \in Keys : InjectKey(k)

Spec == Init /\ [][Next]_vars

(* RunUntilHalt ticks until the CPU halts, slice after slice. *)
FairSpec == Spec /\ WF_vars(Tick)

-----------------------------------------------------------------------------
(***************************************************************************)
(* Properties.                                                             *)
(***************************************************************************)

(* Between two ticks, at the first step of an instruction. *)
AtBoundary == phase = "None" /\ reg["sc"] = 0

(* A program that reads DATA because of an interrupt or of a status bit it
   saw some ticks before never finds the queue empty. *)
NoEmptyRead ==
  phase = "Write" /\ Asserted("memory", "write")
    /\ reg["mar"] = INPUT_DEVICE_BASE + 2 => ~Device!empty

(* The oldest key of the queue does not stay there. *)
OldestKeyIsServed ==
  \A i \in Device!Slots :
    (read_idx = i /\ ~Device!empty) ~> (read_idx # i \/ Device!empty)

=============================================================================

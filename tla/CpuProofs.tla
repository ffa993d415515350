------------------------------ MODULE CpuProofs ------------------------------
(***************************************************************************)
(* The CPU for every cartridge, every image and every sequence of keys:    *)
(* registers and buses keep their widths, a tick throws only for a store   *)
(* to ROM or to no region, and a dump names the instruction that crashed.  *)
(***************************************************************************)
EXTENDS DemoRunner, TLAPS

(***************************************************************************)
(* The inductive invariant of the CPU.                                     *)
(***************************************************************************)

Start == <<"controller", "instruction_start">>
Crash == <<"cpu", "crash">>

(* The words of the fetch, and the one that crashes. *)
Fetch(k) == fetch_preamble[k] \cup {inc("sc")}
CrashWord == {Crash, <<"sc", "reset">>}

(* What a word at a step of an opcode's microcode may do. *)
WordAt(op, step, w) ==
  /\ w \in Words
  /\ step = 0 => w = Fetch(1)
  /\ step = 1 => w = Fetch(2)
  /\ step >= 2 => Start \notin w /\ rd("ir") \notin w
  /\ Crash \in w => op = 255 /\ step = 3
  /\ op = 255 /\ step >= 2 => \/ step = 2 /\ w = Fetch(3)
                              \/ step = 3 /\ w = CrashWord

RegistersFit ==
  /\ reg \in [Registers -> Word]
  /\ \A r \in ByteRegisters : reg[r] \in Byte
CellsFit == \A m \in DOMAIN ram : ram[m] \in Byte
BusesFit ==
  /\ data_bus \in Byte \cup {NoValue}
  /\ address_bus \in Word \cup {NoValue}
QueueFits ==
  /\ queue \in [0 .. QUEUE_SIZE - 1 -> Byte]
  /\ read_idx \in 0 .. QUEUE_SIZE - 1
  /\ write_idx \in 0 .. QUEUE_SIZE - 1
  /\ count \in 0 .. QUEUE_SIZE
FlagsFit ==
  /\ inject \in BOOLEAN /\ fault \in BOOLEAN
  /\ halted \in BOOLEAN /\ crashed \in BOOLEAN
  /\ irq_enabled \in BOOLEAN /\ irq_line \in BOOLEAN

(* Every register, bus, memory cell and queue slot holds a value of its width. *)
CpuTypeOK ==
  /\ phase \in {"None", "Write", "Read", "Process", "Clear"}
  /\ RegistersFit /\ CellsFit /\ BusesFit /\ QueueFits /\ FlagsFit

(* From Write to Process the word of the current step is asserted, or none. *)
Busy == phase \in {"Write", "Read", "Process"}
WordInv == Busy => asserted = {} \/ WordAt(IrValue, reg["sc"], asserted)

(* A bus that anybody is about to read has been written. *)
BusInv ==
  phase = "Read" =>
    /\ Readers(OnDataBus) # {} => data_bus # NoValue
    /\ Readers(OnAddressBus) # {} => address_bus # NoValue

(* The cells that crash the CPU when they are executed. *)
Crashes(addr) == IsDevice(addr) \/ Stored(ram, addr) = 255

(* The opcode of the instruction at ipc goes over the MAR and the data bus to
   the instruction register; there it stays to the end of the instruction. *)
FetchInv ==
  /\ reg["sc"] = 0 /\ asserted # {} =>
       /\ phase = "Read" => address_bus = reg["pc"]
       /\ phase = "Process" /\ ~fault => reg["mar"] = reg["pc"]
  /\ reg["sc"] = 1 =>
       /\ reg["mar"] = reg["ipc"]
       /\ phase = "Read" /\ asserted # {} /\ data_bus = 255 => Crashes(reg["ipc"])
       /\ phase = "Process" /\ asserted # {} /\ ~fault /\ reg["ir"] = 255 =>
            Crashes(reg["ipc"])
  /\ reg["sc"] >= 2 /\ IrValue = 255 => Crashes(reg["ipc"]) /\ reg["sc"] < 4

(* A CPU that has stopped stays in Clear or between two ticks. *)
StopInv ==
  /\ halted => phase \in {"Clear", "None"}
  /\ crashed => halted /\ ~fault /\ Crashes(reg["ipc"])

(* Cpu::Tick throws for nothing but a store to ROM or to no region: no word of
   the microcode drives a bus twice or reads an idle one, and none is looked up
   behind the end of the microcode ROM. *)
OnlyStrayStoresThrow ==
  fault => /\ phase = "Process" /\ Asserted("memory", "read")
           /\ ~IsRam(reg["mar"]) /\ ~IsDevice(reg["mar"])

(* From the end of its fetch to its last step an instruction runs through the
   variant that the status selects. *)
VariantInv ==
  IrValue \in Opcodes =>
    /\ Busy => asserted # {}
    /\ reg["sc"] >= 2 => \E v \in Program[IrValue] :
         /\ Covers(v, Flags(reg["status"]))
         /\ reg["sc"] < Len(v.steps)
         /\ Busy => asserted = v.steps[reg["sc"] + 1]

(* A CPU that idles executes an opcode that no instruction has. *)
OnlyUndefinedIdles == Busy /\ asserted = {} => IrValue \notin Opcodes

CpuInv == CpuTypeOK /\ WordInv /\ BusInv /\ FetchInv /\ StopInv /\ OnlyStrayStoresThrow

(* And the demo's. *)
TraceEndsAtIpc ==
  /\ trace \in Seq([address : Word, ir : Word])
  /\ trace # << >> => trace[Len(trace)].address = reg["ipc"]
  /\ options.trace_size = 0 => trace = << >>
LatchInv == reg["sc"] >= 1 \/ crashed => ipc_valid
LoopInv ==
  /\ options \in Options
  /\ at \in {"poll", "tick", "returned"}
  /\ at = "poll" => phase = "None" /\ ~halted /\ ~fault
  /\ at # "returned" => dump = << >>
  /\ at = "returned" =>
       \/ dump = << >> /\ ~(crashed /\ options.debug_on_crash)
       \/ dump = <<[address |-> reg["ipc"], trace |-> trace]>> /\ crashed
DemoInv == CpuInv /\ TraceEndsAtIpc /\ LatchInv /\ LoopInv
-----------------------------------------------------------------------------
(***************************************************************************)
(* Bytes, words and bits.                                                  *)
(***************************************************************************)

LEMMA BitsAreBits ==
  ASSUME NEW n \in Int
  PROVE  /\ Bit(n, 0) \in 0 .. 1 /\ Bit(n, 1) \in 0 .. 1 /\ Bit(n, 2) \in 0 .. 1
         /\ Bit(n, 3) \in 0 .. 1 /\ Bit(n, 4) \in 0 .. 1 /\ Bit(n, 5) \in 0 .. 1
         /\ Bit(n, 6) \in 0 .. 1 /\ Bit(n, 7) \in 0 .. 1
  BY SMT DEF Bit

(* A byte with one bit set or cleared. *)
LEMMA ByteWithBit ==
  ASSUME NEW n \in Byte, NEW on \in BOOLEAN
  PROVE  /\ WithBit(n, 0, on) \in Byte /\ WithBit(n, 1, on) \in Byte
         /\ WithBit(n, 6, on) \in Byte /\ WithBit(n, 7, on) \in Byte
  BY SMT DEF WithBit, Bit, Byte

LEMMA ByteOfBits ==
  ASSUME NEW f \in [0 .. 7 -> 0 .. 1]
  PROVE  FromBits(f) \in Byte
<1>1. /\ f[0] \in 0 .. 1 /\ f[1] \in 0 .. 1 /\ f[2] \in 0 .. 1 /\ f[3] \in 0 .. 1
      /\ f[4] \in 0 .. 1 /\ f[5] \in 0 .. 1 /\ f[6] \in 0 .. 1 /\ f[7] \in 0 .. 1
  OBVIOUS
<1> QED
  BY <1>1, SMT DEF FromBits, Byte

LEMMA WordParts ==
  ASSUME NEW w \in Word
  PROVE  /\ high(w) \in Byte /\ low(w) \in Byte
         /\ MakeWord(high(w), low(w)) = w
  BY SMT DEF high, low, MakeWord, Word, Byte

LEMMA Wraps ==
  ASSUME NEW n \in Int
  PROVE  AsByte(n) \in Byte /\ AsWord(n) \in Word
  BY SMT DEF AsByte, AsWord, Byte, Word

LEMMA IsWord ==
  ASSUME NEW n \in Int, 0 <= n, n <= 65535
  PROVE  n \in Word
<1>1. AsWord(n) = n
  BY SMTT(30) DEF AsWord
<1> QED
  BY <1>1, Wraps

LEMMA WordOfBytes ==
  ASSUME NEW hi \in Byte, NEW lo \in Byte
  PROVE  MakeWord(hi, lo) \in Word
<1>1. hi \in Int /\ lo \in Int /\ 0 <= hi /\ hi <= 255 /\ 0 <= lo /\ lo <= 255
  BY DEF Byte
<1>2. hi * 256 + lo \in Int /\ 0 <= hi * 256 + lo /\ hi * 256 + lo <= 65535
  BY <1>1
<1>3. hi * 256 + lo \in Word
  BY <1>2, IsWord
<1> QED
  BY <1>3 DEF MakeWord

LEMMA WordsStay ==
  ASSUME NEW w \in Word
  PROVE  AsWord(w) = w
  BY SMTT(30) DEF AsWord, Word

LEMMA BytesAreWords ==
  Byte \subseteq Word /\ Word \subseteq Int /\ 0 \in Byte /\ NoValue \notin Byte
<1>1. ASSUME NEW b \in Byte PROVE b \in Word
  BY DEF Byte, Word
<1>2. ASSUME NEW w \in Word PROVE w \in Int
  BY DEF Word
<1>3. 0 \in Byte
  BY DEF Byte
<1> QED
  BY <1>1, <1>2, <1>3, NoValueAssumption

LEMMA AsBitIsBit ==
  ASSUME NEW b \in BOOLEAN
  PROVE  AsBit(b) \in 0 .. 1
  BY DEF AsBit

-----------------------------------------------------------------------------
(***************************************************************************)
(* What the components put on the buses.                                   *)
(***************************************************************************)

LEMMA DeviceRegistersFit ==
  ASSUME QueueFits, FlagsFit, NEW offset
  PROVE  DeviceRead(offset) \in Byte
<1>1. Device!Front \in Byte
  BY BytesAreWords, DeviceAssumption DEF QueueFits, Device!Front
<1>2. count \in Byte
  BY DeviceAssumption DEF QueueFits, Byte
<1>3. /\ AsBit(~Device!empty) \in 0 .. 1 /\ AsBit(Device!full) \in 0 .. 1
      /\ AsBit(Device!irq_pending) \in 0 .. 1
  BY DEF AsBit
<1>4. AsBit(~Device!empty) + 2 * AsBit(Device!full) + 128 * AsBit(Device!irq_pending) \in Byte
  <2> DEFINE p == AsBit(~Device!empty)
             q == AsBit(Device!full)
             r == AsBit(Device!irq_pending)
  <2>1. p \in 0 .. 1 /\ q \in 0 .. 1 /\ r \in 0 .. 1
    BY <1>3
  <2> HIDE DEF p, q, r
  <2>2. p + 2 * q + 128 * r \in Byte
    BY <2>1 DEF Byte
  <2> QED
    BY <2>2 DEF p, q, r
<1>5. FromBits([i \in 0 .. 7 |-> AsBit(2 ^ i \in key_state)]) \in Byte
  <2>1. [i \in 0 .. 7 |-> AsBit(2 ^ i \in key_state)] \in [0 .. 7 -> 0 .. 1]
    BY DEF AsBit
  <2> QED
    BY <2>1, ByteOfBits
<1> QED
  BY <1>1, <1>2, <1>4, <1>5, BytesAreWords DEF DeviceRead

LEMMA StoredFits ==
  ASSUME CellsFit, NEW addr
  PROVE  Stored(ram, addr) \in Byte
<1>1. 0 \in Byte /\ 255 \in Byte
  BY DEF Byte
<1> QED
  BY <1>1, CartridgeAssumption DEF CellsFit, Stored

LEMMA ReadAtFits ==
  ASSUME CellsFit, QueueFits, FlagsFit, NEW addr
  PROVE  ReadAt(addr) \in Byte
  BY StoredFits, DeviceRegistersFit DEF ReadAt

LEMMA DrivenOnDataBus ==
  ASSUME RegistersFit, CellsFit, QueueFits, FlagsFit, NEW c \in OnDataBus
  PROVE  Driven(c) \in Byte
<1>1. CASE c \in ByteRegisters
  <2>1. c \notin {"memory", "pc.low", "pc.high", "mar.low", "mar.high"}
    BY <1>1 DEF ByteRegisters
  <2> QED
    BY <1>1, <2>1 DEF Driven, RegistersFit
<1>2. CASE c = "memory"
  BY <1>2, ReadAtFits DEF Driven
<1>3. CASE c \in {"pc.low", "pc.high", "mar.low", "mar.high"}
  <2>1. reg["pc"] \in Word /\ reg["mar"] \in Word
    BY DEF RegistersFit, Registers, WordRegisters
  <2> QED
    BY <1>3, <2>1, WordParts DEF Driven
<1> QED
  BY <1>1, <1>2, <1>3 DEF OnDataBus

LEMMA DrivenOnAddressBus ==
  ASSUME RegistersFit, NEW c \in OnAddressBus
  PROVE  Driven(c) = reg[c] /\ Driven(c) \in Word
  BY DEF Driven, RegistersFit, Registers, WordRegisters, OnAddressBus

(* Two writers of a bus are one, and a bus that is read is written. *)
LEMMA OneWriter ==
  ASSUME asserted \in Words \cup {{}}, NEW bus \in {OnDataBus, OnAddressBus}
  PROVE  /\ ~Contention(Writers(bus))
         /\ Readers(bus) # {} => Writers(bus) # {}
<1>1. CASE asserted = {}
  BY <1>1 DEF Contention, Writers, Readers, Asserted
<1>2. CASE asserted \in Words
  <2>1. /\ \A c, d \in bus : wr(c) \in asserted /\ wr(d) \in asserted => c = d
        /\ (\E c \in bus : rd(c) \in asserted) => \E c \in bus : wr(c) \in asserted
    BY <1>2, BusAssumption
  <2> QED
    BY <2>1 DEF Contention, Writers, Readers, Asserted, wr, rd
<1> QED
  BY <1>1, <1>2

(* What a bus shows after its writers. *)
LEMMA BusesAfter ==
  ASSUME RegistersFit, CellsFit, QueueFits, FlagsFit
  PROVE  /\ BusAfter(Writers(OnDataBus)) \in Byte \cup {NoValue}
         /\ Writers(OnDataBus) # {} => BusAfter(Writers(OnDataBus)) \in Byte
         /\ BusAfter(Writers(OnAddressBus)) \in Word \cup {NoValue}
         /\ Writers(OnAddressBus) # {} => BusAfter(Writers(OnAddressBus)) \in Word
<1>1. Writers(OnDataBus) \subseteq OnDataBus /\ Writers(OnAddressBus) \subseteq OnAddressBus
  BY DEF Writers
<1> QED
  BY <1>1, DrivenOnDataBus, DrivenOnAddressBus DEF BusAfter

-----------------------------------------------------------------------------
(***************************************************************************)
(* The words of the microprogram.                                          *)
(***************************************************************************)

(* Two variants of an opcode that both cover a status are the same one. *)
LEMMA OneVariant ==
  ASSUME NEW op \in Opcodes, NEW flags, NEW u \in Program[op], NEW v \in Program[op],
         Covers(u, flags), Covers(v, flags)
  PROVE  u = v
<1>1. u = v \/ \E c \in v.when : <<c[1], ~c[2]>> \in u.when
  BY ProgramAssumption
<1>2. ASSUME NEW c \in v.when, <<c[1], ~c[2]>> \in u.when
      PROVE  FALSE
  <2>1. (c[1] \in flags) = c[2]
    BY <1>2 DEF Covers
  <2>2. (c[1] \in flags) = ~c[2]
    <3> DEFINE d == <<c[1], ~c[2]>>
    <3>1. (d[1] \in flags) = d[2]
      BY <1>2 DEF Covers
    <3>2. d[1] = c[1] /\ d[2] = ~c[2]
      OBVIOUS
    <3> QED
      BY <3>1, <3>2
  <2> QED
    BY <2>1, <2>2
<1> QED
  BY <1>1, <1>2

(* What the instruction memory yields is a word that fits its step. *)
LEMMA LookupFits ==
  ASSUME NEW op, NEW step \in Nat, NEW flags, Lookup(op, step, flags) # {}
  PROVE  WordAt(op, step, Lookup(op, step, flags))
<1>1. HasEntry(op, step, flags)
  BY DEF Lookup
<1>2. PICK u \in Program[op] : Covers(u, flags) /\ step < Len(u.steps)
  BY <1>1 DEF HasEntry
<1> DEFINE v == CHOOSE x \in Program[op] : Covers(x, flags)
           w == u.steps[step + 1]
<1>3. op \in Opcodes
  BY <1>1 DEF HasEntry
<1>4. v = u
  <2>1. v \in Program[op] /\ Covers(v, flags)
    BY <1>2
  <2> HIDE DEF v
  <2> QED
    BY <1>2, <1>3, <2>1, OneVariant
<1>5. Lookup(op, step, flags) = w
  BY <1>1, <1>4 DEF Lookup
<1> HIDE DEF v
<1>6. /\ Len(u.steps) \in 3 .. 255
      /\ u.steps[1] = fetch_preamble[1] \cup {inc("sc")}
      /\ u.steps[2] = fetch_preamble[2] \cup {inc("sc")}
      /\ \A k \in 3 .. Len(u.steps) :
           {<<"controller", "instruction_start">>, rd("ir")} \cap u.steps[k] = {}
  BY <1>2, <1>3, ProgramAssumption
<1>7. step + 1 \in 1 .. Len(u.steps)
  BY <1>2, <1>6
<1>8. w \in Words
  BY <1>2, <1>3, <1>7 DEF Words
<1>9. step = 0 => w = Fetch(1)
  BY <1>6 DEF Fetch
<1>10. step = 1 => w = Fetch(2)
  BY <1>6 DEF Fetch
<1>11. step >= 2 => Start \notin w /\ rd("ir") \notin w
  <2> SUFFICES ASSUME step >= 2 PROVE Start \notin w /\ rd("ir") \notin w
    OBVIOUS
  <2>1. step + 1 \in 3 .. Len(u.steps)
    BY <1>7
  <2>2. {<<"controller", "instruction_start">>, rd("ir")} \cap w = {}
    BY <1>6, <2>1
  <2> HIDE DEF w
  <2> QED
    BY <2>2 DEF Start
<1>12. Crash \in w => op = 255
  BY <1>2, <1>3, <1>7, CrashAssumption DEF Crash
<1>13. op = 255 => Len(u.steps) = 4 /\ u.steps[3] = Fetch(3) /\ u.steps[4] = CrashWord
  BY <1>2, CrashAssumption DEF Fetch, CrashWord, Crash
<1>14. op = 255 /\ step >= 2 =>
         \/ step = 2 /\ w = Fetch(3)
         \/ step = 3 /\ w = CrashWord
  <2> SUFFICES ASSUME op = 255, step >= 2
               PROVE  \/ step = 2 /\ w = Fetch(3)
                      \/ step = 3 /\ w = CrashWord
    OBVIOUS
  <2>1. step = 2 \/ step = 3
    <3>1. step < 4
      BY <1>2, <1>13
    <3> QED
      BY <3>1
  <2>2. step = 2 => w = Fetch(3)
    BY <1>13
  <2>3. step = 3 => w = CrashWord
    BY <1>13
  <2> QED
    BY <2>1, <2>2, <2>3
<1>15. Crash \notin Fetch(1) /\ Crash \notin Fetch(2) /\ Crash \notin Fetch(3)
  BY DEF Crash, Fetch, fetch_preamble, wr, rd, inc
<1>16. op = 255 /\ Crash \in w => step = 3
  <2>1. step = 0 \/ step = 1 \/ step >= 2
    OBVIOUS
  <2> HIDE DEF w
  <2> QED
    BY <1>9, <1>10, <1>14, <1>15, <2>1
<1> HIDE DEF w
<1> QED
  BY <1>5, <1>8, <1>9, <1>10, <1>11, <1>12, <1>14, <1>16 DEF WordAt

-----------------------------------------------------------------------------
(***************************************************************************)
(* The phases, one after the other.                                        *)
(***************************************************************************)

(* What is asserted in a busy phase is one of the program's words, or none. *)
LEMMA AssertedWord ==
  ASSUME CpuInv, Busy
  PROVE  asserted \in Words \cup {{}}
  BY DEF CpuInv, WordInv, WordAt

LEMMA StepCounterIsByte ==
  ASSUME CpuInv
  PROVE  reg["sc"] \in Byte /\ reg["sc"] \in Nat
<1>1. reg["sc"] \in Byte
  BY DEF CpuInv, CpuTypeOK, RegistersFit, ByteRegisters
<1> QED
  BY <1>1 DEF Byte

LEMMA ControlStep ==
  ASSUME CpuInv, ~fault, TickControl
  PROVE  CpuInv'
<1> USE DEF TickControl
<1>1. ~halted /\ ~crashed
  BY DEF CpuInv, StopInv
<1>2. fault' = FALSE
  <2>1. ~PastEnd(IrValue, reg["sc"])
    BY StepCounterIsByte DEF PastEnd, CpuInv, FetchInv
  <2> QED
    BY <2>1 DEF PastEnd
<1>3. /\ UNCHANGED <<queue, read_idx, write_idx, count, irq_enabled>>
      /\ irq_line' \in BOOLEAN
  <2>1. Device!TickControl
    BY <1>2
  <2> QED
    BY <2>1 DEF Device!TickControl, Device!ringVars, Device!irq_pending, CpuInv, CpuTypeOK,
                FlagsFit
<1>4. CpuTypeOK'
  BY <1>2, <1>3 DEF CpuInv, CpuTypeOK, RegistersFit, CellsFit, BusesFit, QueueFits, FlagsFit,
                    busVars
<1>5. IrValue' = IrValue /\ reg' = reg
  BY DEF IrValue
<1>6. WordInv'
  <2>1. asserted' # {} => WordAt(IrValue, reg["sc"], asserted')
    BY LookupFits, StepCounterIsByte
  <2> QED
    BY <1>5, <2>1 DEF WordInv, WordAt
<1>7. BusInv' /\ OnlyStrayStoresThrow'
  BY <1>2 DEF BusInv, OnlyStrayStoresThrow
<1>8. FetchInv'
  BY <1>5 DEF CpuInv, FetchInv, Crashes, Stored
<1>9. StopInv'
  BY <1>1 DEF StopInv
<1> QED
  BY <1>4, <1>6, <1>7, <1>8, <1>9 DEF CpuInv

(* Pop leaves the queue's members in their ranges. *)
LEMMA PopFits ==
  ASSUME QueueFits, Device!ReadData
  PROVE  QueueFits' /\ UNCHANGED <<irq_enabled, irq_line>>
<1>1. QUEUE_SIZE \in 1 .. 255
  BY DeviceAssumption
<1>2. \A i \in 0 .. QUEUE_SIZE - 1 : Device!NextSlot(i) \in 0 .. QUEUE_SIZE - 1
  <2>1. ASSUME NEW i \in 0 .. QUEUE_SIZE - 1
        PROVE  (i + 1) % QUEUE_SIZE \in 0 .. QUEUE_SIZE - 1
    BY <1>1
  <2> QED
    BY <2>1 DEF Device!NextSlot
<1>3. read_idx' \in 0 .. QUEUE_SIZE - 1
  BY <1>2 DEF QueueFits, Device!ReadData
<1>4. count' \in 0 .. QUEUE_SIZE
  BY <1>1 DEF QueueFits, Device!ReadData, Device!empty
<1> QED
  BY <1>3, <1>4 DEF QueueFits, Device!ReadData

(* The opcode fetch puts the cell at ipc on the data bus. *)
LEMMA FetchedOpcode ==
  ASSUME CpuInv, phase = "Write", reg["sc"] = 1, asserted # {}
  PROVE  BusAfter(Writers(OnDataBus)) = ReadAt(reg["ipc"])
<1>1. asserted = Fetch(2)
  BY DEF CpuInv, WordInv, WordAt, Busy
<1>2. Writers(OnDataBus) = {"memory"}
  <2>1. "memory" \in OnDataBus
    BY DEF OnDataBus
  <2>2. \A c \in OnDataBus : <<c, "write">> \in asserted <=> c = "memory"
    BY <1>1 DEF Fetch, fetch_preamble, wr, rd, inc
  <2> QED
    BY <2>1, <2>2 DEF Writers, Asserted
<1>3. reg["mar"] = reg["ipc"]
  BY DEF CpuInv, FetchInv
<1> QED
  BY <1>2, <1>3 DEF BusAfter, Driven

(* At the start of an instruction the pc is on the address bus. *)
LEMMA FetchAddress ==
  ASSUME CpuInv, phase = "Write", reg["sc"] = 0, asserted # {}
  PROVE  BusAfter(Writers(OnAddressBus)) = reg["pc"]
<1>1. asserted = Fetch(1)
  BY DEF CpuInv, WordInv, WordAt, Busy
<1>2. Writers(OnAddressBus) = {"pc"}
  <2>1. "pc" \in OnAddressBus
    BY DEF OnAddressBus
  <2>2. \A c \in OnAddressBus : <<c, "write">> \in asserted <=> c = "pc"
    BY <1>1 DEF Fetch, fetch_preamble, wr, rd, inc
  <2> QED
    BY <2>1, <2>2 DEF Writers, Asserted
<1> QED
  BY <1>2 DEF BusAfter, Driven

LEMMA WriteStep ==
  ASSUME CpuInv, ~fault, TickWrite
  PROVE  CpuInv'
<1> USE DEF TickWrite
<1>1. /\ RegistersFit /\ CellsFit /\ BusesFit /\ QueueFits /\ FlagsFit
      /\ Busy /\ ~halted /\ ~crashed
  BY DEF CpuInv, CpuTypeOK, StopInv, Busy
<1>2. asserted \in Words \cup {{}}
  BY <1>1, AssertedWord
<1>3. fault' = FALSE
  BY <1>2, OneWriter
<1>4. QueueFits' /\ UNCHANGED <<irq_enabled, irq_line>>
  BY <1>1, PopFits DEF QueueFits, deviceVars
<1>5. BusesFit'
  BY <1>1, BusesAfter DEF BusesFit
<1>6. CpuTypeOK'
  BY <1>1, <1>3, <1>4, <1>5 DEF CpuTypeOK, RegistersFit, CellsFit, FlagsFit
<1>7. IrValue' = IrValue /\ reg' = reg /\ asserted' = asserted
  BY DEF IrValue
<1>8. WordInv'
  BY <1>1, <1>7 DEF CpuInv, WordInv, WordAt
<1>9. BusInv'
  <2>1. /\ Readers(OnDataBus)' = Readers(OnDataBus)
        /\ Readers(OnAddressBus)' = Readers(OnAddressBus)
    BY DEF Readers, Asserted
  <2>2. Readers(OnDataBus) # {} => data_bus' \in Byte
    BY <1>1, <1>2, OneWriter, BusesAfter
  <2>3. Readers(OnAddressBus) # {} => address_bus' \in Word
    BY <1>1, <1>2, OneWriter, BusesAfter
  <2> QED
    BY <2>1, <2>2, <2>3, BytesAreWords, NoValueAssumption DEF BusInv
<1>10. FetchInv'
  <2>1. /\ reg["sc"] = 0 /\ asserted # {} => address_bus' = reg["pc"]
        /\ reg["sc"] = 1 /\ asserted # {} => data_bus' = ReadAt(reg["ipc"])
    BY FetchAddress, FetchedOpcode
  <2>2. \A addr : Crashes(addr)' = Crashes(addr)
    BY DEF Crashes, Stored
  <2>3. reg["sc"] = 1 /\ asserted # {} /\ data_bus' = 255 => Crashes(reg["ipc"])
    BY <2>1 DEF ReadAt, Crashes
  <2> QED
    BY <1>7, <2>1, <2>2, <2>3 DEF CpuInv, FetchInv
<1>11. StopInv' /\ OnlyStrayStoresThrow'
  BY <1>1, <1>3 DEF StopInv, OnlyStrayStoresThrow
<1> QED
  BY <1>6, <1>8, <1>9, <1>10, <1>11 DEF CpuInv

(* Who reads a bus reads a value of its width. *)
LEMMA DataReaders ==
  ASSUME CpuInv, phase = "Read", NEW c \in OnDataBus, Asserted(c, "read")
  PROVE  data_bus \in Byte
<1>1. Readers(OnDataBus) # {}
  BY DEF Readers
<1> QED
  BY <1>1 DEF CpuInv, BusInv, CpuTypeOK, BusesFit

LEMMA AddressReaders ==
  ASSUME CpuInv, phase = "Read", NEW c \in OnAddressBus, Asserted(c, "read")
  PROVE  address_bus \in Word
<1>1. Readers(OnAddressBus) # {}
  BY DEF Readers
<1> QED
  BY <1>1 DEF CpuInv, BusInv, CpuTypeOK, BusesFit

(* What no word asserts. *)
LEMMA Untouched ==
  ASSUME CpuInv, Busy
  PROVE  /\ ~Asserted("ipc", "latch") /\ ~Asserted("ipc", "reset") /\ ~Asserted("ir", "reset")
         /\ ~Asserted("ipc", "read") /\ ~Asserted("sc", "read") /\ ~Asserted("sc", "decrement")
<1>1. asserted \in Words \cup {{}}
  BY AssertedWord
<1> QED
  BY <1>1, UntouchedAssumption DEF Asserted, rd, dec

LEMMA WordReads ==
  ASSUME CpuInv, phase = "Read", NEW r, NEW lo \in OnDataBus, NEW hi \in OnDataBus,
         r \in OnAddressBus, reg[r] \in Word
  PROVE  WordAfterRead(r, lo, hi) \in Word
<1>1. Asserted(r, "read") => address_bus \in Word
  BY AddressReaders
<1>2. Asserted(lo, "read") \/ Asserted(hi, "read") => data_bus \in Byte
  BY DataReaders
<1>3. high(reg[r]) \in Byte /\ low(reg[r]) \in Byte
  BY WordParts
<1> QED
  BY <1>1, <1>2, <1>3, WordOfBytes DEF WordAfterRead

LEMMA StatusReads ==
  ASSUME CpuInv, phase = "Read"
  PROVE  StatusAfterRead \in Byte
<1>1. "status" \in OnDataBus /\ "status.analyzer" \in OnDataBus /\ reg["status"] \in Byte
  BY DEF OnDataBus, ByteRegisters, CpuInv, CpuTypeOK, RegistersFit
<1> DEFINE s == IF Asserted("status", "read") THEN data_bus ELSE reg["status"]
           z == data_bus = 0
           n == data_bus >= 128
<1>2. s \in Byte
  BY <1>1, DataReaders
<1>3. ASSUME Asserted("status.analyzer", "read")
      PROVE  WithBit(WithBit(s, 1, z), 7, n) \in Byte
  <2>1. data_bus \in Byte
    BY <1>1, <1>3, DataReaders
  <2>2. z \in BOOLEAN /\ n \in BOOLEAN
    BY <2>1 DEF Byte
  <2> HIDE DEF s, z, n
  <2>3. WithBit(s, 1, z) \in Byte
    BY <1>2, <2>2, ByteWithBit
  <2> QED
    BY <2>2, <2>3, ByteWithBit
<1> QED
  BY <1>2, <1>3 DEF StatusAfterRead

LEMMA ReadsFit ==
  ASSUME CpuInv, phase = "Read", NEW r \in Registers
  PROVE  /\ AfterRead(r) \in Word
         /\ r \in ByteRegisters => AfterRead(r) \in Byte
<1>1. reg[r] \in Word /\ (r \in ByteRegisters => reg[r] \in Byte)
  BY DEF CpuInv, CpuTypeOK, RegistersFit
<1>2. CASE r \in {"pc", "mar"}
  <2>1. /\ r \in OnAddressBus /\ r \notin ByteRegisters
        /\ {"pc.low", "pc.high", "mar.low", "mar.high"} \subseteq OnDataBus
    BY <1>2 DEF OnDataBus, OnAddressBus, ByteRegisters
  <2> QED
    BY <1>1, <1>2, <2>1, WordReads DEF AfterRead
<1>3. CASE r = "status"
  BY <1>3, StatusReads, BytesAreWords DEF AfterRead
<1>4. CASE r = "tmp"
  <2>1. r \in OnAddressBus /\ r \notin ByteRegisters
    BY <1>4 DEF OnAddressBus, ByteRegisters
  <2> QED
    BY <1>1, <1>4, <2>1, AddressReaders DEF AfterRead
<1>5. CASE r \in {"ipc", "sc"}
  BY <1>1, <1>5, Untouched DEF AfterRead, Busy
<1>6. CASE r \in ByteRegisters \ {"status", "sc"}
  <2>1. r \in OnDataBus /\ r \notin {"pc", "mar", "status", "tmp"}
    BY <1>6 DEF OnDataBus, ByteRegisters
  <2> QED
    BY <1>1, <1>6, <2>1, DataReaders, BytesAreWords DEF AfterRead
<1> QED
  BY <1>2, <1>3, <1>4, <1>5, <1>6 DEF Registers, WordRegisters

(* What a read leaves of the registers a fetch goes through. *)
LEMMA FetchReads ==
  ASSUME CpuInv, phase = "Read"
  PROVE  /\ AfterRead("sc") = reg["sc"] /\ AfterRead("ipc") = reg["ipc"]
         /\ reg["sc"] # 1 \/ asserted = {} => AfterRead("ir") = reg["ir"]
         /\ reg["sc"] = 1 => AfterRead("mar") = reg["mar"]
         /\ reg["sc"] = 1 /\ asserted # {} => AfterRead("ir") = data_bus
         /\ reg["sc"] = 0 /\ asserted # {} =>
              AfterRead("mar") = address_bus /\ AfterRead("pc") = reg["pc"]
<1>1. Busy /\ ~Asserted("ipc", "read") /\ ~Asserted("sc", "read")
  BY Untouched DEF Busy
<1>2. asserted # {} => WordAt(IrValue, reg["sc"], asserted)
  BY <1>1 DEF CpuInv, WordInv
<1>3. AfterRead("sc") = reg["sc"] /\ AfterRead("ipc") = reg["ipc"]
  BY <1>1 DEF AfterRead
<1>4. reg["sc"] # 1 \/ asserted = {} => AfterRead("ir") = reg["ir"]
  <2>1. reg["sc"] = 0 \/ reg["sc"] = 1 \/ reg["sc"] >= 2
    BY StepCounterIsByte
  <2>2. rd("ir") \notin Fetch(1)
    BY DEF Fetch, fetch_preamble, rd, wr, inc
  <2> QED
    BY <1>2, <2>1, <2>2 DEF AfterRead, Asserted, WordAt, rd
<1>5. reg["sc"] = 1 => AfterRead("mar") = reg["mar"]
  <2>1. asserted = {} => AfterRead("mar") = reg["mar"]
    BY DEF AfterRead, WordAfterRead, Asserted
  <2>2. asserted = Fetch(2) => AfterRead("mar") = reg["mar"]
    BY DEF AfterRead, WordAfterRead, Asserted, Fetch, fetch_preamble, rd, wr, inc
  <2> QED
    BY <1>2, <2>1, <2>2 DEF WordAt
<1>6. reg["sc"] = 1 /\ asserted # {} => AfterRead("ir") = data_bus
  <2>1. rd("ir") \in Fetch(2)
    BY DEF Fetch, fetch_preamble, rd, wr, inc
  <2> QED
    BY <1>2, <2>1 DEF AfterRead, Asserted, WordAt, rd
<1>7. reg["sc"] = 0 /\ asserted # {} =>
        AfterRead("mar") = address_bus /\ AfterRead("pc") = reg["pc"]
  <2>1. /\ rd("mar") \in Fetch(1) /\ rd("pc") \notin Fetch(1)
        /\ rd("pc.low") \notin Fetch(1) /\ rd("pc.high") \notin Fetch(1)
        /\ rd("mar.low") \notin Fetch(1) /\ rd("mar.high") \notin Fetch(1)
    BY DEF Fetch, fetch_preamble, rd, wr, inc
  <2>2. reg["sc"] = 0 /\ asserted # {} =>
          /\ Asserted("mar", "read") /\ ~Asserted("pc", "read")
          /\ ~Asserted("pc.low", "read") /\ ~Asserted("pc.high", "read")
          /\ ~Asserted("mar.low", "read") /\ ~Asserted("mar.high", "read")
    BY <1>2, <2>1 DEF Asserted, WordAt, rd
  <2>3. AfterRead("mar") = WordAfterRead("mar", "mar.low", "mar.high")
    BY DEF AfterRead
  <2>4. AfterRead("pc") = WordAfterRead("pc", "pc.low", "pc.high")
    BY DEF AfterRead
  <2> QED
    BY <2>2, <2>3, <2>4 DEF WordAfterRead
<1> QED
  BY <1>3, <1>4, <1>5, <1>6, <1>7

(* A word that crashes, or is about to, stores nothing; nor does the fetch. *)
LEMMA StoresNothing ==
  ASSUME CpuInv, Busy, reg["sc"] = 1 \/ (reg["sc"] >= 2 /\ IrValue = 255)
  PROVE  ~Asserted("memory", "read")
<1>1. asserted \in {{}, Fetch(2), Fetch(3), CrashWord}
  BY DEF CpuInv, WordInv, WordAt
<1>2. rd("memory") \notin Fetch(2) /\ rd("memory") \notin Fetch(3) /\ rd("memory") \notin CrashWord
  BY DEF Fetch, fetch_preamble, CrashWord, Crash, rd, wr, inc
<1> QED
  BY <1>1, <1>2 DEF Asserted, rd

LEMMA ReadStep ==
  ASSUME CpuInv, ~fault, TickRead
  PROVE  CpuInv'
<1> DEFINE stores == Asserted("memory", "read")
           addr == reg["mar"]
<1>1. /\ phase = "Read" /\ phase' = "Process" /\ Busy
      /\ RegistersFit /\ CellsFit /\ BusesFit /\ QueueFits /\ FlagsFit
      /\ ~halted /\ ~crashed
      /\ UNCHANGED <<asserted, data_bus, address_bus, inject, halted, crashed>>
      /\ reg' = IF fault' THEN reg ELSE [r \in Registers |-> AfterRead(r)]
      /\ ram' = IF stores /\ IsRam(addr) /\ ~fault' THEN RamWith(addr, data_bus) ELSE ram
  BY DEF CpuInv, CpuTypeOK, StopInv, Busy, TickRead, busVars
<1>2. fault' \in BOOLEAN /\ (fault' <=> stores /\ ~IsRam(addr) /\ ~IsDevice(addr))
  <2>1. ~(Readers(OnDataBus) # {} /\ data_bus = NoValue)
    BY <1>1 DEF CpuInv, BusInv
  <2>2. ~(Readers(OnAddressBus) # {} /\ address_bus = NoValue)
    BY <1>1 DEF CpuInv, BusInv
  <2> QED
    BY <2>1, <2>2 DEF TickRead
<1>3. /\ QueueFits' /\ irq_enabled' \in BOOLEAN /\ irq_line' \in BOOLEAN
  BY <1>1 DEF TickRead, QueueFits, FlagsFit, deviceVars, Device!WriteControl, Device!ringVars
<1>4. CellsFit'
  <2>1. CASE ram' = ram
    BY <1>1, <2>1 DEF CellsFit
  <2>2. CASE stores /\ ram' = RamWith(addr, data_bus)
    <3>1. data_bus \in Byte
      BY <1>1, <2>2, DataReaders DEF OnDataBus
    <3> QED
      BY <1>1, <2>2, <3>1 DEF CellsFit, RamWith
  <2> QED
    BY <1>1, <2>1, <2>2
<1>5. RegistersFit'
  BY <1>1, ReadsFit DEF RegistersFit, ByteRegisters, Registers
<1>6. CpuTypeOK'
  BY <1>1, <1>2, <1>3, <1>4, <1>5 DEF CpuTypeOK, BusesFit, FlagsFit
<1>7. /\ reg'["sc"] = reg["sc"] /\ reg'["ipc"] = reg["ipc"]
      /\ reg["sc"] # 1 \/ asserted = {} => IrValue' = IrValue
      /\ reg["sc"] = 1 => reg'["mar"] = reg["mar"]
      /\ reg["sc"] = 1 /\ asserted # {} /\ ~fault' => reg'["ir"] = data_bus
      /\ reg["sc"] = 0 /\ asserted # {} /\ ~fault' =>
           reg'["mar"] = address_bus /\ reg'["pc"] = reg["pc"]
  <2>1. {"sc", "ipc", "ir", "mar", "pc"} \subseteq Registers
    BY DEF Registers, ByteRegisters, WordRegisters
  <2>2. CASE fault'
    BY <1>1, <2>2 DEF IrValue
  <2>3. CASE ~fault'
    <3>1. \A r \in Registers : reg'[r] = AfterRead(r)
      BY <1>1, <2>3
    <3> QED
      BY <1>1, <2>1, <2>3, <3>1, FetchReads DEF IrValue
  <2> QED
    BY <2>2, <2>3
<1>8. WordInv'
  <2>1. asserted = {} \/ WordAt(IrValue, reg["sc"], asserted)
    BY <1>1 DEF CpuInv, WordInv
  <2>2. WordAt(IrValue, 1, asserted) => WordAt(IrValue', 1, asserted)
    <3>1. Crash \notin Fetch(2)
      BY DEF Crash, Fetch, fetch_preamble, wr, rd, inc
    <3> QED
      BY <3>1 DEF WordAt
  <2>3. asserted = {} \/ WordAt(IrValue', reg["sc"], asserted)
    BY <1>7, <2>1, <2>2
  <2> QED
    BY <1>1, <1>7, <2>3 DEF WordInv
<1>9. BusInv' /\ StopInv' /\ OnlyStrayStoresThrow'
  BY <1>1, <1>2 DEF BusInv, StopInv, OnlyStrayStoresThrow, Asserted
<1>10. FetchInv'
  <2>1. reg["sc"] = 1 \/ (reg["sc"] >= 2 /\ IrValue = 255) =>
          \A a : Crashes(a)' = Crashes(a)
    <3>1. reg["sc"] = 1 \/ (reg["sc"] >= 2 /\ IrValue = 255) => ram' = ram
      BY <1>1, StoresNothing
    <3> QED
      BY <3>1 DEF Crashes, Stored
  <2>2. reg["sc"] = 0 /\ asserted # {} /\ ~fault' => reg'["mar"] = reg'["pc"]
    BY <1>1, <1>7 DEF CpuInv, FetchInv
  <2>3. reg["sc"] = 1 =>
          /\ reg'["mar"] = reg["ipc"]
          /\ asserted # {} /\ ~fault' /\ reg'["ir"] = 255 => Crashes(reg["ipc"])
    BY <1>1, <1>7 DEF CpuInv, FetchInv
  <2>4. reg["sc"] >= 2 /\ IrValue' = 255 =>
          IrValue = 255 /\ Crashes(reg["ipc"]) /\ reg["sc"] < 4
    BY <1>1, <1>7 DEF CpuInv, FetchInv
  <2>5. reg["sc"] = 1 /\ asserted # {} /\ ~fault' /\ reg'["ir"] = 255 => Crashes(reg["ipc"])'
    BY <1>7, <2>1, <2>3
  <2>6. reg["sc"] >= 2 /\ IrValue' = 255 => Crashes(reg["ipc"])' /\ reg["sc"] < 4
    BY <1>7, <2>1, <2>4
  <2> QED
    BY <1>1, <1>7, <2>2, <2>3, <2>5, <2>6 DEF FetchInv
<1> QED
  BY <1>6, <1>8, <1>9, <1>10 DEF CpuInv

-----------------------------------------------------------------------------
(***************************************************************************)
(* The ALU, the counters and the address registers keep their widths.      *)
(***************************************************************************)

LEMMA ByteIsItsBits ==
  ASSUME NEW n \in Byte
  PROVE  n = Bit(n, 0) + 2 * Bit(n, 1) + 4 * Bit(n, 2) + 8 * Bit(n, 3) + 16 * Bit(n, 4)
               + 32 * Bit(n, 5) + 64 * Bit(n, 6) + 128 * Bit(n, 7)
  BY SMTT(60) DEF Bit, Byte

(* Column by column, neither the union nor the difference carries. *)
LEMMA Column ==
  ASSUME NEW a \in 0 .. 1, NEW b \in 0 .. 1
  PROVE  /\ a * b \in 0 .. 1 /\ a + b - a * b \in 0 .. 1 /\ a + b - 2 * (a * b) \in 0 .. 1
<1>1. a = 0 \/ a = 1
  OBVIOUS
<1>2. CASE a = 0
  <2>1. a * b = 0
    BY <1>2
  <2> QED
    BY <1>2, <2>1
<1>3. CASE a = 1
  <2>1. a * b = b
    BY <1>3
  <2> QED
    BY <1>3, <2>1
<1> QED
  BY <1>1, <1>2, <1>3

BitSum(u, a, b, p) == \A i \in 0 .. 7 : u[i] = a[i] + b[i] - p[i]

LEMMA BitsAdd ==
  ASSUME NEW a \in [0 .. 7 -> Int], NEW b \in [0 .. 7 -> Int], NEW p \in [0 .. 7 -> Int],
         NEW u \in [0 .. 7 -> Int], BitSum(u, a, b, p)
  PROVE  FromBits(u) = FromBits(a) + FromBits(b) - FromBits(p)
<1>1. \A i \in {0, 1, 2, 3, 4, 5, 6, 7} :
        a[i] \in Int /\ b[i] \in Int /\ p[i] \in Int /\ u[i] = a[i] + b[i] - p[i]
  BY DEF BitSum
<1>2. /\ u[0] = a[0] + b[0] - p[0] /\ u[1] = a[1] + b[1] - p[1]
      /\ u[2] = a[2] + b[2] - p[2] /\ u[3] = a[3] + b[3] - p[3]
      /\ u[4] = a[4] + b[4] - p[4] /\ u[5] = a[5] + b[5] - p[5]
      /\ u[6] = a[6] + b[6] - p[6] /\ u[7] = a[7] + b[7] - p[7]
  BY <1>1
<1>3. \A i \in {0, 1, 2, 3, 4, 5, 6, 7} : a[i] \in Int /\ b[i] \in Int /\ p[i] \in Int
  BY <1>1
<1>4. /\ a[0] \in Int /\ b[0] \in Int /\ p[0] \in Int /\ a[1] \in Int /\ b[1] \in Int /\ p[1] \in Int
      /\ a[2] \in Int /\ b[2] \in Int /\ p[2] \in Int /\ a[3] \in Int /\ b[3] \in Int /\ p[3] \in Int
      /\ a[4] \in Int /\ b[4] \in Int /\ p[4] \in Int /\ a[5] \in Int /\ b[5] \in Int /\ p[5] \in Int
      /\ a[6] \in Int /\ b[6] \in Int /\ p[6] \in Int /\ a[7] \in Int /\ b[7] \in Int /\ p[7] \in Int
  BY <1>3
<1> QED
  BY <1>2, <1>4, SMTT(30) DEF FromBits

LEMMA BitwiseSums ==
  ASSUME NEW a \in [0 .. 7 -> 0 .. 1], NEW b \in [0 .. 7 -> 0 .. 1], NEW p \in [0 .. 7 -> Int],
         \A i \in 0 .. 7 : p[i] = a[i] * b[i]
  PROVE  /\ FromBits(p) \in Byte
         /\ FromBits(a) + FromBits(b) - FromBits(p) \in Byte
         /\ FromBits(a) + FromBits(b) - 2 * FromBits(p) \in Byte
<1>1. ASSUME NEW i \in 0 .. 7
      PROVE  p[i] \in 0 .. 1 /\ a[i] + b[i] - p[i] \in 0 .. 1 /\ a[i] + b[i] - 2 * p[i] \in 0 .. 1
  BY Column
<1>2. PICK u \in [0 .. 7 -> 0 .. 1] : \A i \in 0 .. 7 : u[i] = a[i] + b[i] - p[i]
  <2>1. [i \in 0 .. 7 |-> a[i] + b[i] - p[i]] \in [0 .. 7 -> 0 .. 1]
    BY <1>1
  <2> QED
    BY <2>1
<1>3. PICK x \in [0 .. 7 -> 0 .. 1] : \A i \in 0 .. 7 : x[i] = a[i] + b[i] - 2 * p[i]
  <2>1. [i \in 0 .. 7 |-> a[i] + b[i] - 2 * p[i]] \in [0 .. 7 -> 0 .. 1]
    BY <1>1
  <2> QED
    BY <2>1
<1>4. PICK z \in [0 .. 7 -> 0 .. 1] : \A i \in 0 .. 7 : z[i] = 0
  <2>1. [i \in 0 .. 7 |-> 0] \in [0 .. 7 -> 0 .. 1]
    OBVIOUS
  <2> QED
    BY <2>1
<1>5. p \in [0 .. 7 -> 0 .. 1]
  BY <1>1
<1>6. \A f \in [0 .. 7 -> 0 .. 1] : f \in [0 .. 7 -> Int] /\ FromBits(f) \in Byte
  BY ByteOfBits
<1>7. FromBits(u) = FromBits(a) + FromBits(b) - FromBits(p)
  <2>1. a \in [0 .. 7 -> Int] /\ b \in [0 .. 7 -> Int] /\ u \in [0 .. 7 -> Int]
    BY <1>6
  <2>2. BitSum(u, a, b, p)
    BY <1>2 DEF BitSum
  <2> QED
    BY <1>5, <1>6, <2>1, <2>2, BitsAdd, SMT
<1>8. FromBits(x) = FromBits(u) + FromBits(z) - FromBits(p)
  <2>1. ASSUME NEW i \in 0 .. 7 PROVE x[i] = u[i] + z[i] - p[i]
    <3>1. a[i] \in Int /\ b[i] \in Int /\ p[i] \in Int
      OBVIOUS
    <3>2. u[i] = a[i] + b[i] - p[i]
      BY <1>2
    <3>3. x[i] = a[i] + b[i] - 2 * p[i]
      BY <1>3
    <3>4. z[i] = 0
      BY <1>4
    <3> QED
      BY <3>1, <3>2, <3>3, <3>4
  <2>2. BitSum(x, u, z, p)
    BY <2>1 DEF BitSum
  <2>3. u \in [0 .. 7 -> Int] /\ z \in [0 .. 7 -> Int] /\ x \in [0 .. 7 -> Int]
    BY <1>6
  <2> QED
    BY <1>5, <1>6, <2>2, <2>3, BitsAdd, SMT
<1>9. FromBits(z) = 0
  BY <1>4 DEF FromBits
<1>10. /\ FromBits(u) \in Byte /\ FromBits(x) \in Byte /\ FromBits(p) \in Byte
       /\ FromBits(a) \in Int /\ FromBits(b) \in Int /\ FromBits(p) \in Int
  <2>1. /\ FromBits(u) \in Byte /\ FromBits(x) \in Byte /\ FromBits(p) \in Byte
        /\ FromBits(a) \in Byte /\ FromBits(b) \in Byte
    BY <1>5, <1>6
  <2> QED
    BY <2>1, BytesAreWords
<1>11. FromBits(x) = FromBits(a) + FromBits(b) - 2 * FromBits(p)
  BY <1>7, <1>8, <1>9, <1>10
<1> QED
  BY <1>7, <1>10, <1>11

LEMMA BitwiseFits ==
  ASSUME NEW m \in Byte, NEW n \in Byte
  PROVE  BitAnd(m, n) \in Byte /\ BitOr(m, n) \in Byte /\ BitXor(m, n) \in Byte
<1>1. ASSUME NEW i \in 0 .. 7 PROVE Bit(m, i) \in 0 .. 1 /\ Bit(n, i) \in 0 .. 1
  <2>1. i \in {0, 1, 2, 3, 4, 5, 6, 7}
    OBVIOUS
  <2>2. m \in Int /\ n \in Int
    BY DEF Byte
  <2> QED
    BY <2>1, <2>2, BitsAreBits
<1>2. PICK a \in [0 .. 7 -> 0 .. 1] : \A i \in 0 .. 7 : a[i] = Bit(m, i)
  <2>1. [i \in 0 .. 7 |-> Bit(m, i)] \in [0 .. 7 -> 0 .. 1]
    BY <1>1
  <2> QED
    BY <2>1
<1>3. PICK b \in [0 .. 7 -> 0 .. 1] : \A i \in 0 .. 7 : b[i] = Bit(n, i)
  <2>1. [i \in 0 .. 7 |-> Bit(n, i)] \in [0 .. 7 -> 0 .. 1]
    BY <1>1
  <2> QED
    BY <2>1
<1>4. PICK p : p = [i \in 0 .. 7 |-> Bit(m, i) * Bit(n, i)]
  OBVIOUS
<1>5. p \in [0 .. 7 -> Int] /\ \A i \in 0 .. 7 : p[i] = a[i] * b[i]
  BY <1>1, <1>2, <1>3, <1>4
<1>6. m = FromBits(a) /\ n = FromBits(b)
  <2>1. \A i \in {0, 1, 2, 3, 4, 5, 6, 7} : a[i] = Bit(m, i) /\ b[i] = Bit(n, i)
    BY <1>2, <1>3
  <2> QED
    BY <2>1, ByteIsItsBits DEF FromBits
<1>7. BitAnd(m, n) = FromBits(p)
  BY <1>4 DEF BitAnd
<1> QED
  BY <1>5, <1>6, <1>7, BitwiseSums DEF BitOr, BitXor

AluStates == [lhs : Byte, rhs : Byte, result : Byte, carry : BOOLEAN, overflow : BOOLEAN]

LEMMA SumFits ==
  ASSUME NEW s \in AluStates
  PROVE  Add(s) \in AluStates /\ Subtract(s) \in AluStates
<1>1. /\ s.lhs \in Int /\ s.rhs \in Int /\ AsBit(s.carry) \in Int
  BY DEF AluStates, Byte, AsBit
<1>2. /\ AsByte(s.lhs + s.rhs + AsBit(s.carry)) \in Byte
      /\ AsByte(s.lhs - (s.rhs + 1 - AsBit(s.carry))) \in Byte
  BY <1>1, Wraps
<1>3. \A r \in Byte : \A c, o \in BOOLEAN :
        /\ [s EXCEPT !.result = r, !.carry = c, !.overflow = o] \in AluStates
        /\ [s EXCEPT !.result = r, !.carry = c] \in AluStates
  BY DEF AluStates
<1>4. Add(s) \in AluStates
  <2> DEFINE sum == s.lhs + s.rhs + AsBit(s.carry)
             r == AsByte(sum)
             c == sum > 255
             o == /\ Negative(s.lhs) = Negative(s.rhs)
                  /\ Negative(s.lhs) # Negative(AsByte(sum))
  <2>1. Add(s) = [s EXCEPT !.result = r, !.carry = c, !.overflow = o]
    BY DEF Add
  <2>2. r \in Byte /\ c \in BOOLEAN /\ o \in BOOLEAN
    BY <1>2
  <2> HIDE DEF r, c, o
  <2>3. [s EXCEPT !.result = r, !.carry = c, !.overflow = o] \in AluStates
    BY <1>3, <2>2
  <2> QED
    BY <2>1, <2>3
<1>5. Subtract(s) \in AluStates
  <2> DEFINE subtrahend == s.rhs + 1 - AsBit(s.carry)
             r == AsByte(s.lhs - subtrahend)
             c == s.lhs >= subtrahend
  <2>1. Subtract(s) = [s EXCEPT !.result = r, !.carry = c]
    BY DEF Subtract
  <2>2. r \in Byte /\ c \in BOOLEAN
    BY <1>2
  <2> HIDE DEF r, c
  <2>3. [s EXCEPT !.result = r, !.carry = c] \in AluStates
    BY <1>3, <2>2
  <2> QED
    BY <2>1, <2>3
<1> QED
  BY <1>4, <1>5

LEMMA ShiftsFit ==
  ASSUME NEW b \in Byte, NEW c \in BOOLEAN
  PROVE  /\ AsByte(2 * b) \in Byte /\ AsByte(2 * b) + AsBit(c) \in Byte
         /\ b \div 2 \in Byte /\ (b \div 2) + 128 * AsBit(c) \in Byte
  BY SMT DEF AsByte, AsBit, Byte

LEMMA ComputeFits ==
  ASSUME NEW s \in AluStates, NEW op
  PROVE  Compute(op, s) \in AluStates
<1>1. s.lhs \in Byte /\ s.rhs \in Byte /\ s.carry \in BOOLEAN
  BY DEF AluStates
<1>2. /\ AsByte(s.lhs + 1) \in Byte /\ AsByte(s.lhs - 1) \in Byte
  <2>1. s.lhs + 1 \in Int /\ s.lhs - 1 \in Int
    BY <1>1 DEF Byte
  <2> QED
    BY <2>1, Wraps
<1>3. \A r \in Byte : Only(s, r) \in AluStates /\ Logic(s, r) \in AluStates
  BY DEF Only, Logic, AluStates
<1>4. \A r \in Byte : \A out : Shift(s, r, out) \in AluStates
  BY DEF Shift, AluStates
<1>5. /\ Only(s, AsByte(s.lhs + 1)) \in AluStates /\ Only(s, AsByte(s.lhs - 1)) \in AluStates
      /\ Only(s, BitAnd(s.lhs, s.rhs)) \in AluStates
      /\ Logic(s, BitAnd(s.lhs, s.rhs)) \in AluStates /\ Logic(s, BitOr(s.lhs, s.rhs)) \in AluStates
      /\ Logic(s, BitXor(s.lhs, s.rhs)) \in AluStates
  BY <1>1, <1>2, <1>3, BitwiseFits
<1>6. \A out : /\ Shift(s, AsByte(2 * s.lhs), out) \in AluStates
               /\ Shift(s, s.lhs \div 2, out) \in AluStates
               /\ Shift(s, AsByte(2 * s.lhs) + AsBit(s.carry), out) \in AluStates
               /\ Shift(s, (s.lhs \div 2) + 128 * AsBit(s.carry), out) \in AluStates
  BY <1>1, <1>4, ShiftsFit
<1> QED
  BY <1>5, <1>6, SumFits DEF Compute

LEMMA AluAfterFits ==
  ASSUME CpuTypeOK
  PROVE  AluAfter \in AluStates
<1>1. reg["alu.lhs"] \in Byte /\ reg["alu.rhs"] \in Byte /\ reg["alu.result"] \in Byte
  BY DEF CpuTypeOK, RegistersFit, ByteRegisters
<1> DEFINE s == [lhs |-> reg["alu.lhs"], rhs |-> reg["alu.rhs"],
                 result |-> reg["alu.result"],
                 carry |-> "carry" \in Flags(reg["status"]),
                 overflow |-> "overflow" \in Flags(reg["status"])]
<1>2. s \in AluStates
  BY <1>1 DEF AluStates
<1>3. AluAfter = Compute(AluOpcode, s)
  BY DEF AluAfter
<1> HIDE DEF s
<1> QED
  BY <1>2, <1>3, ComputeFits

LEMMA CounterFits ==
  ASSUME NEW r, reg[r] \in Byte
  PROVE  CounterAfter(r) \in Byte
<1>1. reg[r] + 1 \in Int /\ reg[r] - 1 \in Int /\ 0 \in Byte
  BY DEF Byte
<1>2. AsByte(reg[r] + 1) \in Byte /\ AsByte(reg[r] - 1) \in Byte
  BY <1>1, Wraps
<1> QED
  BY <1>1, <1>2 DEF CounterAfter

LEMMA PortResetFits ==
  ASSUME NEW lo, NEW hi, NEW w \in Word
  PROVE  /\ PortReset(lo, hi, w) \in Word
         /\ ~Asserted(lo, "reset") /\ ~Asserted(hi, "reset") => PortReset(lo, hi, w) = w
<1> DEFINE h == IF Asserted(hi, "reset") THEN 0 ELSE high(w)
           l == IF Asserted(lo, "reset") THEN 0 ELSE low(w)
<1>1. h \in Byte /\ l \in Byte
  BY WordParts, BytesAreWords
<1>2. PortReset(lo, hi, w) = MakeWord(h, l)
  BY DEF PortReset
<1>3. ~Asserted(lo, "reset") /\ ~Asserted(hi, "reset") => MakeWord(h, l) = w
  BY WordParts
<1> HIDE DEF h, l
<1>4. MakeWord(h, l) \in Word
  BY <1>1, WordOfBytes
<1> QED
  BY <1>2, <1>3, <1>4

LEMMA PcFits ==
  ASSUME CpuTypeOK
  PROVE  /\ PcAfter \in Word
         /\ (\A c \in {"pc", "pc.low", "pc.high"}, op \in {"increment", "add_signed_offset", "reset"} :
               ~Asserted(c, op)) => PcAfter = reg["pc"]
<1>1. reg["pc"] \in Word /\ reg["pc.signed_offset"] \in Byte
  BY DEF CpuTypeOK, RegistersFit, Registers, ByteRegisters, WordRegisters
<1> DEFINE offset == Signed(reg["pc.signed_offset"])
           step == AsBit(Asserted("pc", "increment"))
           incremented == AsWord(reg["pc"] + step)
           branched == IF Asserted("pc", "add_signed_offset") THEN AsWord(incremented + offset)
                                                              ELSE incremented
           last == IF Asserted("pc", "reset") THEN 0 ELSE branched
<1>2. offset \in Int /\ step \in Int
  BY <1>1 DEF Signed, AsBit, Byte
<1>3. reg["pc"] + step \in Int
  <2>1. reg["pc"] \in Int
    BY <1>1, BytesAreWords
  <2> QED
    BY <2>1 DEF AsBit
<1>4. incremented \in Word
  BY <1>3, Wraps
<1>5. AsWord(incremented + offset) \in Word
  <2> HIDE DEF incremented, offset
  <2>1. incremented + offset \in Int
    BY <1>2, <1>4, BytesAreWords
  <2> QED
    BY <2>1, Wraps
<1>6. last \in Word
  BY <1>4, <1>5, BytesAreWords
<1>7. PcAfter = PortReset("pc.low", "pc.high", last)
  BY DEF PcAfter
<1>8. ASSUME \A c \in {"pc", "pc.low", "pc.high"}, op \in {"increment", "add_signed_offset", "reset"} :
               ~Asserted(c, op)
      PROVE  PcAfter = reg["pc"]
  <2>1. last = incremented /\ step = 0
    BY <1>8 DEF AsBit
  <2>2. incremented = reg["pc"]
    <3>1. reg["pc"] + step = reg["pc"]
      <4>1. reg["pc"] \in Int
        BY <1>1, BytesAreWords
      <4> QED
        BY <2>1, <4>1
    <3> QED
      BY <1>1, <3>1, WordsStay
  <2> HIDE DEF last, incremented
  <2> QED
    BY <1>6, <1>7, <1>8, <2>1, <2>2, PortResetFits
<1> HIDE DEF last
<1> QED
  BY <1>6, <1>7, <1>8, PortResetFits

LEMMA MarFits ==
  ASSUME CpuTypeOK
  PROVE  /\ MarAfter \in Word
         /\ (\A c \in {"mar", "mar.low", "mar.high"},
               op \in {"interrupt_vector", "stack_page", "increment", "add_offset", "reset"} :
               ~Asserted(c, op)) => MarAfter = reg["mar"]
<1>1. reg["mar"] \in Word /\ reg["mar.offset"] \in Byte
  BY DEF CpuTypeOK, RegistersFit, Registers, ByteRegisters, WordRegisters
<1> DEFINE vector == IF Asserted("mar", "interrupt_vector") THEN \hFFFE ELSE reg["mar"]
           stack == IF Asserted("mar", "stack_page") THEN MakeWord(1, low(vector)) ELSE vector
           step == AsBit(Asserted("mar", "increment"))
           next == AsWord(stack + step)
           sum == low(next) + reg["mar.offset"]
           carry == AsBit(sum > 255)
           offset == MakeWord(AsByte(high(next) + carry), AsByte(sum))
           indexed == IF Asserted("mar", "add_offset") THEN offset ELSE next
<1>2. vector \in Word
  <2>1. 65534 \in Word
    BY IsWord
  <2> QED
    BY <1>1, <2>1
<1>3. stack \in Word
  <2> HIDE DEF vector
  <2>1. low(vector) \in Byte /\ 1 \in Byte
    BY <1>2, WordParts DEF Byte
  <2>2. MakeWord(1, low(vector)) \in Word
    BY <2>1, WordOfBytes
  <2> QED
    BY <1>2, <2>2
<1>4. next \in Word
  <2> HIDE DEF stack
  <2>1. stack + step \in Int
    BY <1>3, BytesAreWords DEF AsBit
  <2> QED
    BY <2>1, Wraps
<1>5. offset \in Word
  <2> HIDE DEF next
  <2>1. high(next) \in Int /\ sum \in Int /\ carry \in Int
    <3>1. high(next) \in Int /\ low(next) \in Int
      BY <1>4, WordParts, BytesAreWords
    <3>2. reg["mar.offset"] \in Int
      BY <1>1, BytesAreWords
    <3> QED
      BY <3>1, <3>2 DEF AsBit
  <2> HIDE DEF sum, carry
  <2>2. high(next) + carry \in Int
    BY <2>1
  <2>3. AsByte(high(next) + carry) \in Byte /\ AsByte(sum) \in Byte
    BY <2>1, <2>2, Wraps
  <2> QED
    BY <2>3, WordOfBytes
<1>6. indexed \in Word
  <2> HIDE DEF next, offset
  <2> QED
    BY <1>4, <1>5
<1>7. MarAfter = PortReset("mar.low", "mar.high", indexed)
  BY DEF MarAfter
<1>8. ASSUME \A c \in {"mar", "mar.low", "mar.high"},
               op \in {"interrupt_vector", "stack_page", "increment", "add_offset", "reset"} :
               ~Asserted(c, op)
      PROVE  MarAfter = reg["mar"]
  <2>1. indexed = next /\ stack = reg["mar"] /\ step = 0
    BY <1>8 DEF AsBit
  <2>2. next = reg["mar"]
    <3>1. reg["mar"] + 0 = reg["mar"]
      <4>1. reg["mar"] \in Int
        BY <1>1, BytesAreWords
      <4> QED
        BY <4>1
    <3>2. next = AsWord(reg["mar"] + 0)
      BY <2>1
    <3> QED
      BY <1>1, <3>1, <3>2, WordsStay
  <2>3. ~Asserted("mar.low", "reset") /\ ~Asserted("mar.high", "reset")
    BY <1>8
  <2> HIDE DEF indexed, next
  <2> QED
    BY <1>6, <1>7, <2>1, <2>2, <2>3, PortResetFits
<1> HIDE DEF indexed
<1> QED
  BY <1>6, <1>7, <1>8, PortResetFits

LEMMA StatusFits ==
  ASSUME CpuTypeOK
  PROVE  StatusAfter \in Byte
<1> DEFINE alu_flags == WithBit(WithBit(reg["status"], 0, AluAfter.carry), 6, AluAfter.overflow)
           s == IF Asserted("status", "reset") THEN 0 ELSE alu_flags
           flag(i) == IF Asserted(FlagPath[i + 1], "set") THEN 1
                      ELSE IF Asserted(FlagPath[i + 1], "clear") THEN 0 ELSE Bit(s, i)
<1>1. alu_flags \in Byte
  <2>1. AluAfter.carry \in BOOLEAN /\ AluAfter.overflow \in BOOLEAN
    BY AluAfterFits DEF AluStates
  <2>2. reg["status"] \in Byte
    BY DEF CpuTypeOK, RegistersFit, ByteRegisters
  <2>3. WithBit(reg["status"], 0, AluAfter.carry) \in Byte
    BY <2>1, <2>2, ByteWithBit
  <2> QED
    BY <2>1, <2>3, ByteWithBit
<1>2. s \in Int
  <2> HIDE DEF alu_flags
  <2> QED
    BY <1>1, BytesAreWords
<1>3. StatusAfter = FromBits([i \in 0 .. 7 |-> flag(i)])
  BY DEF StatusAfter
<1> HIDE DEF s
<1>4. ASSUME NEW i \in 0 .. 7 PROVE flag(i) \in 0 .. 1
  <2>1. i \in {0, 1, 2, 3, 4, 5, 6, 7}
    OBVIOUS
  <2>2. Bit(s, i) \in 0 .. 1
    BY <1>2, <2>1, BitsAreBits
  <2> QED
    BY <2>2
<1> HIDE DEF flag
<1>5. [i \in 0 .. 7 |-> flag(i)] \in [0 .. 7 -> 0 .. 1]
  BY <1>4
<1> QED
  BY <1>3, <1>5, ByteOfBits

LEMMA ProcessFits ==
  ASSUME CpuTypeOK, NEW r \in Registers
  PROVE  /\ AfterProcess(r) \in Word
         /\ r \in ByteRegisters => AfterProcess(r) \in Byte
<1>1. reg[r] \in Word /\ (r \in ByteRegisters => reg[r] \in Byte)
  BY DEF CpuTypeOK, RegistersFit
<1>2. PcAfter \in Word /\ MarAfter \in Word /\ StatusAfter \in Byte
  BY PcFits, MarFits, StatusFits
<1>3. AluAfter.result \in Byte
  BY AluAfterFits DEF AluStates
<1>4. r \in {"sp", "sc"} => CounterAfter(r) \in Byte
  BY <1>1, CounterFits DEF ByteRegisters
<1>5. {"pc", "mar", "ipc"} \cap ByteRegisters = {}
  BY DEF ByteRegisters
<1>6. CASE r \in {"sp", "sc"}
  <2>1. AfterProcess(r) \in {CounterAfter(r), 0}
    BY <1>6 DEF AfterProcess
  <2> QED
    BY <1>4, <1>6, <2>1, BytesAreWords
<1>7. CASE r \in {"pc", "mar", "ipc"}
  <2>1. AfterProcess(r) \in {PcAfter, MarAfter, reg[r], 0}
    BY <1>7 DEF AfterProcess
  <2> QED
    BY <1>1, <1>2, <1>5, <1>7, <2>1, BytesAreWords
<1>8. CASE r \notin {"sp", "sc"} /\ r \notin {"pc", "mar", "ipc"}
  <2>1. AfterProcess(r) \in {StatusAfter, reg[r], 0, AluAfter.result}
    BY <1>8 DEF AfterProcess
  <2> QED
    BY <1>1, <1>2, <1>3, <2>1, BytesAreWords
<1> QED
  BY <1>6, <1>7, <1>8

(* What the processing of a word leaves of the registers a fetch goes through. *)
LEMMA FetchProcesses ==
  ASSUME CpuInv, phase = "Process"
  PROVE  /\ reg["sc"] = 0 /\ asserted # {} =>
              /\ InstructionStart
              /\ AfterProcess("sc") = 1
              /\ AfterProcess("mar") = reg["mar"] /\ AfterProcess("ipc") = reg["pc"]
         /\ reg["sc"] = 1 /\ asserted # {} => AfterProcess("sc") = 2
         /\ reg["sc"] # 0 \/ asserted = {} =>
              /\ ~InstructionStart
              /\ AfterProcess("ipc") = reg["ipc"] /\ AfterProcess("ir") = reg["ir"]
              /\ InjectAfter = inject
         /\ asserted = {} =>
              AfterProcess("sc") = reg["sc"] /\ AfterProcess("mar") = reg["mar"]
         /\ reg["sc"] >= 2 =>
              /\ AfterProcess("sc") # 1
              /\ IrValue = 255 /\ AfterProcess("sc") >= 2 => AfterProcess("sc") < 4
<1>1. /\ Busy /\ CpuTypeOK
      /\ ~Asserted("ipc", "latch") /\ ~Asserted("ipc", "reset") /\ ~Asserted("ir", "reset")
      /\ ~Asserted("sc", "decrement")
  BY Untouched DEF Busy, CpuInv
<1>2. asserted # {} => WordAt(IrValue, reg["sc"], asserted)
  BY <1>1 DEF CpuInv, WordInv
<1>3. reg["sc"] \in Nat /\ reg["sc"] \in Byte
  BY StepCounterIsByte
<1>4. asserted = {} => \A c, op : ~Asserted(c, op)
  BY DEF Asserted
<1>5. AsByte(1) = 1 /\ AsByte(2) = 2 /\ AsByte(3) = 3
  BY DEF AsByte
<1>6. /\ ~Asserted("sc", "increment") /\ ~Asserted("sc", "reset") => AfterProcess("sc") = reg["sc"]
      /\ Asserted("sc", "increment") /\ ~Asserted("sc", "reset") =>
           AfterProcess("sc") = AsByte(reg["sc"] + 1)
      /\ AfterProcess("sc") \in {reg["sc"], 0, AsByte(reg["sc"] + 1)}
  BY <1>1 DEF AfterProcess, CounterAfter
<1>7. ASSUME asserted = {}
      PROVE  AfterProcess("sc") = reg["sc"] /\ AfterProcess("mar") = reg["mar"]
  <2>1. AfterProcess("mar") = MarAfter
    BY <1>4, <1>7 DEF AfterProcess
  <2> QED
    BY <1>1, <1>4, <1>6, <1>7, <2>1, MarFits
<1>8. ASSUME reg["sc"] = 0, asserted # {}
      PROVE  /\ InstructionStart
             /\ AfterProcess("sc") = 1
             /\ AfterProcess("mar") = reg["mar"] /\ AfterProcess("ipc") = reg["pc"]
  <2>1. asserted = Fetch(1)
    BY <1>2, <1>8 DEF WordAt
  <2>2. asserted = {<<"pc", "write">>, <<"mar", "read">>, <<"controller", "instruction_start">>,
                    <<"sc", "increment">>}
    BY <2>1 DEF Fetch, fetch_preamble, wr, rd, inc
  <2>3. /\ InstructionStart /\ Asserted("sc", "increment") /\ ~Asserted("sc", "reset")
        /\ ~Asserted("mar", "reset")
    BY <2>2 DEF InstructionStart, Asserted
  <2>4. AfterProcess("mar") = MarAfter /\ AfterProcess("ipc") = PcAfter
    BY <1>1, <2>3 DEF AfterProcess
  <2>5. MarAfter = reg["mar"]
    <3>1. \A c \in {"mar", "mar.low", "mar.high"},
             op \in {"interrupt_vector", "stack_page", "increment", "add_offset", "reset"} :
             ~Asserted(c, op)
      BY <2>2 DEF Asserted
    <3> QED
      BY <1>1, <3>1, MarFits
  <2>6. PcAfter = reg["pc"]
    <3>1. \A c \in {"pc", "pc.low", "pc.high"}, op \in {"increment", "add_signed_offset", "reset"} :
             ~Asserted(c, op)
      BY <2>2 DEF Asserted
    <3> QED
      BY <1>1, <3>1, PcFits
  <2>7. AfterProcess("sc") = 1
    <3>1. reg["sc"] + 1 = 1
      BY <1>8
    <3> QED
      BY <1>5, <1>6, <2>3, <3>1
  <2> QED
    BY <2>3, <2>4, <2>5, <2>6, <2>7
<1>9. ASSUME reg["sc"] # 0 \/ asserted = {}
      PROVE  /\ ~InstructionStart
             /\ AfterProcess("ipc") = reg["ipc"] /\ AfterProcess("ir") = reg["ir"]
             /\ InjectAfter = inject
  <2>1. ~InstructionStart
    <3>1. Start \notin Fetch(2)
      BY DEF Start, Fetch, fetch_preamble, wr, rd, inc
    <3>2. reg["sc"] = 0 \/ reg["sc"] = 1 \/ reg["sc"] >= 2
      BY <1>3
    <3> QED
      BY <1>2, <1>9, <3>1, <3>2 DEF WordAt, Start, InstructionStart, Asserted
  <2> QED
    BY <1>1, <2>1 DEF AfterProcess, InjectAfter
<1>10. ASSUME reg["sc"] = 1, asserted # {}
       PROVE  AfterProcess("sc") = 2
  <2>1. asserted = Fetch(2)
    BY <1>2, <1>10 DEF WordAt
  <2>2. Asserted("sc", "increment") /\ ~Asserted("sc", "reset")
    BY <2>1 DEF Asserted, Fetch, fetch_preamble, wr, rd, inc
  <2>3. reg["sc"] + 1 = 2
    BY <1>10
  <2> QED
    BY <1>5, <1>6, <2>2, <2>3
<1>11. ASSUME reg["sc"] >= 2
       PROVE  AfterProcess("sc") # 1
  <2>1. AsByte(reg["sc"] + 1) # 1
    BY <1>3, <1>11, SMT DEF AsByte, Byte
  <2> QED
    BY <1>6, <1>11, <2>1
<1>12. ASSUME reg["sc"] >= 2, IrValue = 255, AfterProcess("sc") >= 2
       PROVE  AfterProcess("sc") < 4
  <2>1. reg["sc"] < 4
    BY <1>12 DEF CpuInv, FetchInv
  <2>2. CASE asserted = {}
    BY <1>7, <2>1, <2>2
  <2>3. CASE reg["sc"] = 2 /\ asserted = Fetch(3)
    <3>1. Asserted("sc", "increment") /\ ~Asserted("sc", "reset")
      BY <2>3 DEF Asserted, Fetch, fetch_preamble, wr, rd, inc
    <3>2. reg["sc"] + 1 = 3
      BY <2>3
    <3> QED
      BY <1>5, <1>6, <3>1, <3>2
  <2>4. CASE reg["sc"] = 3 /\ asserted = CrashWord
    <3>1. ~Asserted("sc", "increment") /\ Asserted("sc", "reset")
      BY <2>4 DEF Asserted, CrashWord, Crash
    <3>2. AfterProcess("sc") = 0
      BY <1>1, <3>1 DEF AfterProcess, CounterAfter
    <3> QED
      BY <3>2
  <2> QED
    BY <1>2, <1>12, <2>2, <2>3, <2>4 DEF WordAt
<1> QED
  BY <1>7, <1>8, <1>9, <1>10, <1>11, <1>12

LEMMA ProcessStep ==
  ASSUME CpuInv, ~fault, TickProcess
  PROVE  CpuInv'
<1>1. /\ phase = "Process" /\ phase' = "Clear" /\ Busy
      /\ CpuTypeOK /\ ~halted /\ ~crashed
      /\ UNCHANGED <<asserted, data_bus, address_bus, ram, fault, queue, read_idx, write_idx,
                     count, irq_enabled, irq_line>>
      /\ reg' = [r \in Registers |-> AfterProcess(r)]
      /\ inject' = InjectAfter
      /\ crashed' = (crashed \/ Asserted("cpu", "crash"))
      /\ halted' = (halted \/ Asserted("cpu", "halt") \/ Asserted("cpu", "crash"))
  BY DEF CpuInv, CpuTypeOK, FlagsFit, StopInv, Busy, TickProcess, busVars, deviceVars
<1>2. RegistersFit'
  BY <1>1, ProcessFits DEF RegistersFit, ByteRegisters, Registers
<1>3. inject' \in BOOLEAN
  BY <1>1 DEF InjectAfter, CpuTypeOK, FlagsFit
<1>4. crashed' \in BOOLEAN /\ halted' \in BOOLEAN
  BY <1>1 DEF Asserted
<1>5. CpuTypeOK'
  BY <1>1, <1>2, <1>3, <1>4 DEF CpuTypeOK, CellsFit, BusesFit, QueueFits, FlagsFit
<1>6. WordInv' /\ BusInv' /\ OnlyStrayStoresThrow'
  BY <1>1 DEF WordInv, BusInv, OnlyStrayStoresThrow, Busy
<1>7. \A r \in {"sc", "ipc", "ir", "mar"} : reg'[r] = AfterProcess(r)
  BY <1>1 DEF Registers, ByteRegisters, WordRegisters
<1>8. \A a : Crashes(a)' = Crashes(a)
  BY <1>1 DEF Crashes, Stored
<1>9. reg["sc"] = 0 \/ reg["sc"] = 1 \/ reg["sc"] >= 2
  BY <1>1, StepCounterIsByte
<1>10. reg["sc"] # 0 \/ asserted = {} => reg'["ipc"] = reg["ipc"] /\ IrValue' = IrValue
  BY <1>1, <1>7, FetchProcesses DEF IrValue
<1>11. reg'["sc"] = 1 => reg'["mar"] = reg'["ipc"]
  <2>1. CASE asserted = {}
    BY <1>1, <1>7, <1>10, <2>1, FetchProcesses DEF CpuInv, FetchInv
  <2>2. CASE reg["sc"] = 0 /\ asserted # {}
    <3>1. reg["mar"] = reg["pc"]
      BY <1>1, <2>2 DEF CpuInv, FetchInv
    <3> QED
      BY <1>1, <1>7, <2>2, <3>1, FetchProcesses
  <2>3. CASE reg["sc"] # 0 /\ asserted # {}
    BY <1>1, <1>7, <1>9, <2>3, FetchProcesses
  <2> QED
    BY <2>1, <2>2, <2>3
<1>12. reg'["sc"] >= 2 /\ IrValue' = 255 => Crashes(reg'["ipc"]) /\ reg'["sc"] < 4
  <2> SUFFICES ASSUME reg'["sc"] >= 2, IrValue' = 255
               PROVE  Crashes(reg'["ipc"]) /\ reg'["sc"] < 4
    OBVIOUS
  <2>1. CASE reg["sc"] = 0
    <3>1. reg'["sc"] = 0 \/ reg'["sc"] = 1
      BY <1>1, <1>7, <2>1, FetchProcesses
    <3> QED
      BY <3>1
  <2>2. CASE reg["sc"] = 1
    <3>1. asserted # {} /\ reg'["sc"] = 2
      BY <1>1, <1>7, <2>2, FetchProcesses
    <3>2. reg["ir"] = 255
      BY <1>10, <2>2 DEF IrValue
    <3>3. Crashes(reg["ipc"])
      BY <1>1, <2>2, <3>1, <3>2 DEF CpuInv, FetchInv
    <3> QED
      BY <1>10, <2>2, <3>1, <3>3
  <2>3. CASE reg["sc"] >= 2
    <3>1. IrValue = 255 /\ reg'["ipc"] = reg["ipc"]
      BY <1>10, <2>3
    <3>2. Crashes(reg["ipc"])
      BY <2>3, <3>1 DEF CpuInv, FetchInv
    <3>3. reg'["sc"] < 4
      BY <1>1, <1>7, <2>3, <3>1, FetchProcesses
    <3> QED
      BY <3>1, <3>2, <3>3
  <2> QED
    BY <1>9, <2>1, <2>2, <2>3
<1>13. FetchInv'
  BY <1>1, <1>8, <1>11, <1>12 DEF FetchInv
<1>14. StopInv'
  <2>1. ASSUME crashed'
        PROVE  halted' /\ ~fault' /\ Crashes(reg'["ipc"])
    <3>1. Crash \in asserted
      BY <1>1, <2>1 DEF Asserted, Crash
    <3>2. IrValue = 255 /\ reg["sc"] = 3
      BY <1>1, <3>1 DEF CpuInv, WordInv, WordAt
    <3>3. Crashes(reg["ipc"]) /\ reg'["ipc"] = reg["ipc"]
      BY <1>10, <3>2 DEF CpuInv, FetchInv
    <3> QED
      BY <1>1, <2>1, <3>3
  <2> QED
    BY <1>1, <1>8, <2>1 DEF StopInv
<1> QED
  BY <1>5, <1>6, <1>13, <1>14 DEF CpuInv

LEMMA ClearStep ==
  ASSUME CpuInv, ~fault, TickClear
  PROVE  CpuInv'
<1> USE DEF TickClear, deviceVars
<1>1. CpuTypeOK'
  BY DEF CpuInv, CpuTypeOK, RegistersFit, CellsFit, BusesFit, QueueFits, FlagsFit
<1>2. WordInv' /\ BusInv' /\ OnlyStrayStoresThrow'
  BY DEF WordInv, BusInv, OnlyStrayStoresThrow, Busy
<1>3. FetchInv'
  BY DEF CpuInv, FetchInv, Crashes, Stored, IrValue
<1>4. StopInv'
  BY DEF CpuInv, StopInv, Crashes, Stored
<1> QED
  BY <1>1, <1>2, <1>3, <1>4 DEF CpuInv

LEMMA TickSteps ==
  ASSUME CpuInv, Tick
  PROVE  CpuInv'
  BY ControlStep, WriteStep, ReadStep, ProcessStep, ClearStep DEF Tick

-----------------------------------------------------------------------------
(***************************************************************************)
(* The CPU of every run.                                                   *)
(***************************************************************************)

(* A key goes into the queue, and nowhere else. *)
LEMMA EnqueueFits ==
  ASSUME QueueFits, NEW k \in Byte, Device!Enqueue(k)
  PROVE  QueueFits'
<1>1. QUEUE_SIZE \in 1 .. 255
  BY DeviceAssumption
<1>2. write_idx' \in 0 .. QUEUE_SIZE - 1
  <2>1. ASSUME NEW i \in 0 .. QUEUE_SIZE - 1
        PROVE  (i + 1) % QUEUE_SIZE \in 0 .. QUEUE_SIZE - 1
    BY <1>1
  <2> QED
    BY <2>1 DEF Device!Enqueue, Device!NextSlot, QueueFits
<1>3. count' \in 0 .. QUEUE_SIZE
  BY <1>1 DEF Device!Enqueue, Device!full, QueueFits
<1>4. queue' \in [0 .. QUEUE_SIZE - 1 -> Byte]
  BY DEF Device!Enqueue, QueueFits
<1> QED
  BY <1>2, <1>3, <1>4 DEF Device!Enqueue, QueueFits

(* Whatever changes only the queue and the held keys keeps the invariant. *)
LEMMA CoreStays ==
  ASSUME CpuInv, UNCHANGED coreVars, QueueFits', irq_enabled' \in BOOLEAN, irq_line' \in BOOLEAN
  PROVE  CpuInv'
<1> USE DEF coreVars
<1>1. CpuTypeOK'
  BY DEF CpuInv, CpuTypeOK, RegistersFit, CellsFit, BusesFit, FlagsFit
<1>2. WordInv' /\ BusInv' /\ OnlyStrayStoresThrow'
  BY DEF CpuInv, WordInv, WordAt, BusInv, OnlyStrayStoresThrow, Busy, IrValue, Readers, Asserted
<1>3. FetchInv' /\ StopInv'
  BY DEF CpuInv, FetchInv, StopInv, Crashes, Stored, IrValue
<1> QED
  BY <1>1, <1>2, <1>3 DEF CpuInv

LEMMA InjectSteps ==
  ASSUME CpuInv, NEW k \in Keys, InjectKey(k)
  PROVE  CpuInv'
<1>1. k \in Byte
  BY DeviceAssumption
<1>2. Device!Enqueue(k) /\ UNCHANGED <<coreVars, irq_enabled, irq_line>>
  BY DEF InjectKey, Device!inject_key
<1>3. QueueFits /\ irq_enabled \in BOOLEAN /\ irq_line \in BOOLEAN
  BY DEF CpuInv, CpuTypeOK, FlagsFit
<1> QED
  BY <1>1, <1>2, <1>3, EnqueueFits, CoreStays

LEMMA CpuStarts ==
  ASSUME Init
  PROVE  CpuInv
<1>1. PICK image \in Images : reg = image.reg /\ ram = image.ram
  BY DEF Init
<1>2. reg["sc"] = 0 /\ RegistersFit /\ CellsFit
  BY <1>1, ImagesAssumption DEF RegistersFit, CellsFit
<1>3. QueueFits /\ irq_enabled = FALSE /\ irq_line = FALSE
  <2>1. 0 \in 0 .. QUEUE_SIZE - 1 /\ 0 \in 0 .. QUEUE_SIZE
    BY DeviceAssumption
  <2>2. queue \in [0 .. QUEUE_SIZE - 1 -> Byte]
    BY BytesAreWords DEF Init, Device!Init, Device!Slots
  <2> QED
    BY <2>1, <2>2 DEF Init, Device!Init, QueueFits
<1>4. CpuTypeOK
  BY <1>2, <1>3 DEF Init, CpuTypeOK, BusesFit, FlagsFit
<1>5. WordInv /\ BusInv /\ StopInv /\ OnlyStrayStoresThrow
  BY DEF Init, WordInv, BusInv, StopInv, OnlyStrayStoresThrow, Busy
<1>6. FetchInv
  BY <1>2 DEF Init, FetchInv
<1> QED
  BY <1>4, <1>5, <1>6 DEF CpuInv

LEMMA CpuSteps ==
  ASSUME CpuInv, [Next]_vars
  PROVE  CpuInv'
<1>1. CASE Tick
  BY <1>1, TickSteps
<1>2. CASE \E k \in Keys : InjectKey(k)
  BY <1>2, InjectSteps
<1>3. CASE UNCHANGED vars
  BY <1>3, CoreStays DEF vars, deviceVars, CpuInv, CpuTypeOK, FlagsFit, QueueFits
<1> QED
  BY <1>1, <1>2, <1>3 DEF Next

LEMMA CpuInvariant == Spec => []CpuInv
<1>1. Init => CpuInv
  BY CpuStarts
<1>2. CpuInv /\ [Next]_vars => CpuInv'
  BY CpuSteps
<1> QED
  BY <1>1, <1>2, PTL DEF Spec

-----------------------------------------------------------------------------
(***************************************************************************)
(* An instruction runs through one variant.                                *)
(***************************************************************************)

(* Every status has a variant. *)
LEMMA SomeVariant ==
  ASSUME NEW op \in Opcodes, NEW flags
  PROVE  \E v \in Program[op] : Covers(v, flags)
<1>1. CASE \E v \in Program[op] : v.when = {}
  BY <1>1 DEF Covers
<1>2. CASE \E u, v \in Program[op] : \E c \in u.when :
             c[2] \in BOOLEAN /\ u.when = {c} /\ v.when = {<<c[1], ~c[2]>>}
  <2>1. PICK u \in Program[op], v \in Program[op] : \E c \in u.when :
          c[2] \in BOOLEAN /\ u.when = {c} /\ v.when = {<<c[1], ~c[2]>>}
    BY <1>2
  <2>2. PICK c \in u.when : c[2] \in BOOLEAN /\ u.when = {c} /\ v.when = {<<c[1], ~c[2]>>}
    BY <2>1
  <2>3. CASE (c[1] \in flags) = c[2]
    BY <2>2, <2>3 DEF Covers
  <2>4. CASE (c[1] \in flags) # c[2]
    <3> DEFINE d == <<c[1], ~c[2]>>
    <3>1. (d[1] \in flags) = d[2]
      BY <2>2, <2>4
    <3> QED
      BY <2>2, <3>1 DEF Covers
  <2> QED
    BY <2>3, <2>4
<1> QED
  BY <1>1, <1>2, VariantsAssumption

(* The word of a step, when a variant covers the status and has the step. *)
LEMMA LookupFinds ==
  ASSUME NEW op \in Opcodes, NEW step \in Nat, NEW flags, NEW v \in Program[op],
         Covers(v, flags), step < Len(v.steps)
  PROVE  Lookup(op, step, flags) = v.steps[step + 1] /\ Lookup(op, step, flags) # {}
<1>1. HasEntry(op, step, flags)
  BY DEF HasEntry
<1>2. (CHOOSE x \in Program[op] : Covers(x, flags)) = v
  <2> DEFINE w == CHOOSE x \in Program[op] : Covers(x, flags)
  <2>1. w \in Program[op] /\ Covers(w, flags)
    OBVIOUS
  <2> HIDE DEF w
  <2>2. w = v
    BY <2>1, OneVariant
  <2> QED
    BY <2>2 DEF w
<1>3. Lookup(op, step, flags) = v.steps[step + 1]
  BY <1>1, <1>2 DEF Lookup
<1>4. step + 1 \in 1 .. Len(v.steps)
  BY ProgramAssumption
<1>5. \A k \in 1 .. Len(v.steps) : v.steps[k] # {}
  <2>1. \A k \in 1 .. Len(v.steps) :
          v.steps[k] \cap {inc("sc"), <<"sc", "reset">>} =
            {IF k < Len(v.steps) THEN inc("sc") ELSE <<"sc", "reset">>}
    BY ProgramAssumption
  <2> QED
    BY <2>1
<1> QED
  BY <1>3, <1>4, <1>5

(* A word that leaves the status alone does. *)
StatusKept == asserted \cap StatusControls = {}

LEMMA StatusStays ==
  ASSUME CpuTypeOK, StatusKept
  PROVE  StatusAfterRead = reg["status"] /\ StatusAfter = reg["status"]
<1>1. /\ ~Asserted("status", "read") /\ ~Asserted("status.analyzer", "read")
      /\ ~Asserted("status", "reset")
      /\ \A i \in 1 .. 8 : ~Asserted(FlagPath[i], "set") /\ ~Asserted(FlagPath[i], "clear")
      /\ \A i \in 1 .. 4 : ~Asserted("alu", AluBit[i])
  BY DEF StatusKept, StatusControls, Asserted, rd
<1>2. reg["status"] \in Byte
  BY DEF CpuTypeOK, RegistersFit, ByteRegisters
<1>3. AluOpcode = 0
  <2> DEFINE f == [i \in 0 .. 7 |-> AsBit(i < 4 /\ Asserted("alu", AluBit[i + 1]))]
  <2>1. ASSUME NEW i \in 0 .. 7 PROVE f[i] = 0
    <3>1. i < 4 => i + 1 \in 1 .. 4
      OBVIOUS
    <3>2. ~(i < 4 /\ Asserted("alu", AluBit[i + 1]))
      BY <1>1, <3>1
    <3> QED
      BY <3>2 DEF AsBit
  <2>2. \A i \in 0 .. 7 : f[i] = 0
    BY <2>1
  <2>3. AluOpcode = FromBits(f)
    BY DEF AluOpcode
  <2> HIDE DEF f
  <2> QED
    BY <2>2, <2>3 DEF FromBits
<1>4. /\ AluAfter.carry = ("carry" \in Flags(reg["status"]))
      /\ AluAfter.overflow = ("overflow" \in Flags(reg["status"]))
  BY <1>3 DEF AluAfter, Compute, ADD, SUB, INC, AND, OR, XOR, ASL, LSR, ROL, ROR, DEC, BIT
<1>5. /\ "carry" \in Flags(reg["status"]) <=> Bit(reg["status"], 0) = 1
      /\ "overflow" \in Flags(reg["status"]) <=> Bit(reg["status"], 6) = 1
  <2>1. /\ FlagName[1] = "carry" /\ FlagName[7] = "overflow"
        /\ \A i \in 1 .. 8 : /\ FlagName[i] = "carry" => i = 1
                             /\ FlagName[i] = "overflow" => i = 7
    <3>1. \A i \in 1 .. 8 : i \in {1, 2, 3, 4, 5, 6, 7, 8}
      OBVIOUS
    <3> QED
      BY <3>1 DEF FlagName
  <2>2. 1 \in 1 .. 8 /\ 7 \in 1 .. 8 /\ 1 - 1 = 0 /\ 7 - 1 = 6
    OBVIOUS
  <2> QED
    BY <2>1, <2>2 DEF Flags
<1>6. ASSUME NEW n \in Byte, NEW c \in BOOLEAN, NEW o \in BOOLEAN,
             c <=> Bit(n, 0) = 1, o <=> Bit(n, 6) = 1
      PROVE  WithBit(WithBit(n, 0, c), 6, o) = n
  <2>1. Bit(n, 0) \in 0 .. 1 /\ Bit(n, 6) \in 0 .. 1 /\ n \in Int
    BY BitsAreBits DEF Byte
  <2>2. WithBit(n, 0, c) = n
    BY <1>6, <2>1 DEF WithBit
  <2>3. WithBit(n, 6, o) = n
    BY <1>6, <2>1 DEF WithBit
  <2> QED
    BY <2>2, <2>3
<1>7. WithBit(WithBit(reg["status"], 0, AluAfter.carry), 6, AluAfter.overflow) = reg["status"]
  <2>1. AluAfter.carry \in BOOLEAN /\ AluAfter.overflow \in BOOLEAN
    BY AluAfterFits DEF AluStates
  <2>2. AluAfter.carry <=> Bit(reg["status"], 0) = 1
    BY <1>4, <1>5
  <2>3. AluAfter.overflow <=> Bit(reg["status"], 6) = 1
    BY <1>4, <1>5
  <2> QED
    BY <1>2, <1>6, <2>1, <2>2, <2>3
<1>8. StatusAfter = FromBits([i \in 0 .. 7 |-> Bit(reg["status"], i)])
  <2>1. ASSUME NEW i \in 0 .. 7
        PROVE  ~Asserted(FlagPath[i + 1], "set") /\ ~Asserted(FlagPath[i + 1], "clear")
    BY <1>1
  <2> QED
    BY <1>1, <1>7, <2>1 DEF StatusAfter
<1>9. FromBits([i \in 0 .. 7 |-> Bit(reg["status"], i)]) = reg["status"]
  BY <1>2, ByteIsItsBits DEF FromBits
<1>10. StatusAfterRead = reg["status"]
  BY <1>1 DEF StatusAfterRead
<1> QED
  BY <1>8, <1>9, <1>10

(* The variant that is running goes on covering the status. *)
LEMMA VariantStays ==
  ASSUME CpuTypeOK, IrValue \in Opcodes, reg["sc"] \in Nat, NEW v \in Program[IrValue],
         Covers(v, Flags(reg["status"])), reg["sc"] < Len(v.steps),
         asserted = v.steps[reg["sc"] + 1]
  PROVE  Covers(v, Flags(StatusAfterRead)) /\ Covers(v, Flags(StatusAfter))
<1>1. CASE v.when = {}
  BY <1>1 DEF Covers
<1>2. CASE v.when # {}
  <2>1. reg["sc"] + 1 \in 1 .. Len(v.steps)
    BY ProgramAssumption
  <2>2. StatusKept
    BY <1>2, <2>1, VariantsAssumption DEF StatusKept
  <2> QED
    BY <2>2, StatusStays
<1> QED
  BY <1>1, <1>2

(* The step counter goes to the variant's next step, or back. *)
LEMMA StepsCounted ==
  ASSUME CpuInv, phase = "Process", IrValue \in Opcodes, NEW v \in Program[IrValue],
         reg["sc"] < Len(v.steps), asserted = v.steps[reg["sc"] + 1]
  PROVE  AfterProcess("sc") = 0 \/ (AfterProcess("sc") = reg["sc"] + 1
                                      /\ AfterProcess("sc") < Len(v.steps))
<1>1. reg["sc"] \in Nat /\ Len(v.steps) \in 3 .. 255 /\ ~Asserted("sc", "decrement")
  BY StepCounterIsByte, Untouched, ProgramAssumption DEF Busy
<1> DEFINE k == reg["sc"] + 1
<1>2. k \in 1 .. Len(v.steps)
  BY <1>1
<1>3. asserted \cap {inc("sc"), <<"sc", "reset">>} =
        {IF k < Len(v.steps) THEN inc("sc") ELSE <<"sc", "reset">>}
  <2>1. \A j \in 1 .. Len(v.steps) :
          v.steps[j] \cap {inc("sc"), <<"sc", "reset">>} =
            {IF j < Len(v.steps) THEN inc("sc") ELSE <<"sc", "reset">>}
    BY ProgramAssumption
  <2> QED
    BY <1>2, <2>1
<1>4. inc("sc") # <<"sc", "reset">>
  BY DEF inc
<1>5. CASE k < Len(v.steps)
  <2>1. Asserted("sc", "increment") /\ ~Asserted("sc", "reset")
    BY <1>3, <1>4, <1>5 DEF Asserted, inc
  <2>2. AfterProcess("sc") = AsByte(k)
    BY <1>1, <2>1 DEF AfterProcess, CounterAfter
  <2>3. AsByte(k) = k
    <3>1. k \in Nat /\ k < 256
      <4>1. \A m \in 3 .. 255, n \in Nat : n + 1 < m => n + 1 \in Nat /\ n + 1 < 256
        OBVIOUS
      <4> QED
        BY <1>1, <1>5, <4>1, Zenon
    <3>2. \A n \in Nat : n < 256 => AsByte(n) = n
      BY SMT DEF AsByte
    <3> HIDE DEF k
    <3> QED
      BY <3>1, <3>2
  <2> QED
    BY <1>5, <2>2, <2>3
<1>6. CASE ~(k < Len(v.steps))
  <2>1. ~Asserted("sc", "increment") /\ Asserted("sc", "reset")
    BY <1>3, <1>4, <1>6 DEF Asserted, inc
  <2> QED
    BY <1>1, <2>1 DEF AfterProcess, CounterAfter
<1> QED
  BY <1>5, <1>6

LEMMA VariantControl ==
  ASSUME CpuInv, VariantInv, TickControl
  PROVE  VariantInv'
<1> SUFFICES ASSUME IrValue \in Opcodes
             PROVE  /\ asserted' # {}
                    /\ reg["sc"] >= 2 => \E v \in Program[IrValue] :
                         /\ Covers(v, Flags(reg["status"]))
                         /\ reg["sc"] < Len(v.steps)
                         /\ asserted' = v.steps[reg["sc"] + 1]
  <2>1. reg' = reg /\ IrValue' = IrValue
    BY DEF TickControl, IrValue
  <2> QED
    BY <2>1 DEF VariantInv
<1>1. reg["sc"] \in Nat
  BY StepCounterIsByte
<1>2. PICK v \in Program[IrValue] : Covers(v, Flags(reg["status"])) /\ reg["sc"] < Len(v.steps)
  <2>1. CASE reg["sc"] >= 2
    BY <2>1 DEF VariantInv
  <2>2. CASE reg["sc"] < 2
    <3>1. PICK v \in Program[IrValue] : Covers(v, Flags(reg["status"]))
      BY SomeVariant
    <3>2. Len(v.steps) \in 3 .. 255
      BY ProgramAssumption
    <3>3. reg["sc"] < Len(v.steps)
      <4>1. \A m \in 3 .. 255, n \in Nat : n < 2 => n < m
        OBVIOUS
      <4> QED
        BY <1>1, <2>2, <3>2, <4>1, Zenon
    <3> QED
      BY <3>1, <3>3
  <2> QED
    BY <1>1, <2>1, <2>2
<1>3. asserted' = Lookup(IrValue, reg["sc"], Flags(reg["status"]))
  BY DEF TickControl
<1> QED
  BY <1>1, <1>2, <1>3, LookupFinds

LEMMA VariantRead ==
  ASSUME CpuInv, VariantInv, TickRead
  PROVE  VariantInv'
<1>1. /\ phase = "Read" /\ Busy /\ asserted' = asserted /\ inject' = inject /\ CpuTypeOK
      /\ reg' = reg \/ (reg' = [r \in Registers |-> AfterRead(r)])
  BY DEF TickRead, Busy, CpuInv
<1>2. reg["sc"] \in Nat
  BY StepCounterIsByte
<1>3. /\ reg'["sc"] = reg["sc"]
      /\ reg'["status"] \in {reg["status"], StatusAfterRead}
      /\ reg["sc"] # 1 \/ asserted = {} => IrValue' = IrValue
  <2>1. {"sc", "status", "ir"} \subseteq Registers
    BY DEF Registers, ByteRegisters
  <2>2. AfterRead("status") = StatusAfterRead
    BY DEF AfterRead
  <2> QED
    BY <1>1, <2>1, <2>2, FetchReads DEF IrValue
<1>4. IrValue' \in Opcodes => asserted # {}
  BY <1>1, <1>3 DEF VariantInv
<1>5. ASSUME IrValue' \in Opcodes, reg["sc"] >= 2
      PROVE  \E v \in Program[IrValue'] :
               /\ Covers(v, Flags(reg["status"]))'
               /\ reg'["sc"] < Len(v.steps)
               /\ asserted' = v.steps[reg'["sc"] + 1]
  <2>1. IrValue' = IrValue
    BY <1>2, <1>3, <1>5
  <2>2. PICK v \in Program[IrValue] : /\ Covers(v, Flags(reg["status"]))
                                      /\ reg["sc"] < Len(v.steps)
                                      /\ asserted = v.steps[reg["sc"] + 1]
    BY <1>1, <1>5, <2>1 DEF VariantInv
  <2>3. Covers(v, Flags(StatusAfterRead))
    BY <1>1, <1>2, <1>5, <2>1, <2>2, VariantStays
  <2>4. Covers(v, Flags(reg'["status"]))
    BY <1>3, <2>2, <2>3
  <2> QED
    BY <1>1, <1>3, <2>1, <2>2, <2>4
<1> QED
  BY <1>1, <1>3, <1>4, <1>5 DEF VariantInv

LEMMA VariantProcess ==
  ASSUME CpuInv, VariantInv, TickProcess
  PROVE  VariantInv'
<1>1. /\ phase = "Process" /\ Busy /\ ~Busy' /\ CpuTypeOK
      /\ reg' = [r \in Registers |-> AfterProcess(r)] /\ inject' = InjectAfter
  BY DEF TickProcess, Busy, CpuInv
<1>2. reg["sc"] \in Nat
  BY StepCounterIsByte
<1>3. /\ reg'["sc"] = AfterProcess("sc") /\ reg'["status"] = AfterProcess("status")
      /\ reg["sc"] # 0 \/ asserted = {} => IrValue' = IrValue
  <2>1. {"sc", "status", "ir"} \subseteq Registers
    BY DEF Registers, ByteRegisters
  <2> QED
    BY <1>1, <2>1, FetchProcesses DEF IrValue
<1>4. ASSUME IrValue' \in Opcodes, reg'["sc"] >= 2
      PROVE  \E v \in Program[IrValue'] :
               Covers(v, Flags(reg["status"]))' /\ reg'["sc"] < Len(v.steps)
  <2>1. CASE reg["sc"] >= 2
    <3>1. IrValue' = IrValue
      BY <1>2, <1>3, <2>1
    <3>2. PICK v \in Program[IrValue] : /\ Covers(v, Flags(reg["status"]))
                                        /\ reg["sc"] < Len(v.steps)
                                        /\ asserted = v.steps[reg["sc"] + 1]
      BY <1>1, <1>4, <2>1, <3>1 DEF VariantInv
    <3>3. IrValue \in Opcodes
      BY <1>4, <3>1
    <3>4. Covers(v, Flags(StatusAfter))
      BY <1>1, <1>2, <3>2, <3>3, VariantStays
    <3>5. reg'["sc"] < Len(v.steps)
      <4>1. reg'["sc"] = 0 \/ reg'["sc"] < Len(v.steps)
        BY <1>1, <1>3, <3>2, <3>3, StepsCounted
      <4> QED
        BY <1>4, <4>1
    <3>6. Covers(v, Flags(reg'["status"]))
      <4>1. CASE v.when = {}
        BY <4>1 DEF Covers
      <4>2. CASE v.when # {}
        <5>1. reg["sc"] + 1 \in 1 .. Len(v.steps)
          BY <1>2, <3>2, <3>3, ProgramAssumption
        <5>2. StatusKept
          BY <3>2, <3>3, <4>2, <5>1, VariantsAssumption DEF StatusKept
        <5>3. ~Asserted("status", "reset")
          BY <5>2 DEF StatusKept, StatusControls, Asserted
        <5>4. AfterProcess("status") = StatusAfter
          BY <5>3 DEF AfterProcess
        <5> QED
          BY <1>3, <3>4, <5>4
      <4> QED
        BY <4>1, <4>2
    <3> QED
      BY <3>1, <3>2, <3>5, <3>6
  <2>2. CASE reg["sc"] = 1
    <3>1. reg'["sc"] = 2
      BY <1>1, <1>3, <1>4, <2>2, FetchProcesses
    <3>2. PICK v \in Program[IrValue'] : Covers(v, Flags(reg["status"]))'
      BY <1>4, SomeVariant
    <3>3. reg'["sc"] < Len(v.steps)
      <4>1. Len(v.steps) \in 3 .. 255
        BY <1>4, ProgramAssumption
      <4>2. \A m \in 3 .. 255 : 2 < m
        OBVIOUS
      <4> QED
        BY <3>1, <4>1, <4>2, Zenon
    <3> QED
      BY <3>2, <3>3
  <2>3. CASE reg["sc"] = 0
    BY <1>1, <1>3, <1>4, <2>3, FetchProcesses
  <2> QED
    BY <1>2, <2>1, <2>2, <2>3
<1> QED
  BY <1>1, <1>4 DEF VariantInv

LEMMA VariantSteps ==
  ASSUME CpuInv, VariantInv, [Next]_vars
  PROVE  VariantInv'
<1>1. CASE TickControl
  BY <1>1, VariantControl
<1>2. CASE TickWrite
  BY <1>2 DEF TickWrite, VariantInv, IrValue, Busy
<1>3. CASE TickRead
  BY <1>3, VariantRead
<1>4. CASE TickProcess
  BY <1>4, VariantProcess
<1>5. CASE TickClear
  BY <1>5 DEF TickClear, VariantInv, IrValue, Busy
<1>6. CASE \E k \in Keys : InjectKey(k)
  BY <1>6 DEF InjectKey, coreVars, VariantInv, IrValue, Busy
<1>7. CASE UNCHANGED vars
  BY <1>7 DEF vars, coreVars, VariantInv, IrValue, Busy
<1> QED
  BY <1>1, <1>2, <1>3, <1>4, <1>5, <1>6, <1>7 DEF Next, Tick

-----------------------------------------------------------------------------
(***************************************************************************)
(* The demo: slices of ticks, with events handled between them.            *)
(***************************************************************************)

LEMMA KeyCodesFit ==
  ASSUME NEW key
  PROVE  MapKey(key) \in Byte
<1>1. key \in {SDLK_SPACE, SDLK_RETURN, SDLK_ESCAPE} => key \in Byte
  BY SMT DEF SDLK_SPACE, SDLK_RETURN, SDLK_ESCAPE, Byte
<1>2. key \in SDLK_0 .. SDLK_0 + 9 => 48 + (key - SDLK_0) \in Byte
  BY SMT DEF SDLK_0, Byte
<1>3. key \in SDLK_a .. SDLK_a + 25 => 65 + (key - SDLK_a) \in Byte
  BY SMT DEF SDLK_a, Byte
<1>4. {0, 1, 2, 3, 4} \subseteq Byte
  BY SMT DEF Byte
<1> QED
  BY <1>1, <1>2, <1>3, <1>4, SMT DEF MapKey

(* An event changes the queue and the held keys only. *)
LEMMA PollKeepsCpu ==
  ASSUME CpuInv, Poll
  PROVE  CpuInv' /\ UNCHANGED coreVars
<1>1. QueueFits /\ irq_enabled \in BOOLEAN /\ irq_line \in BOOLEAN
  BY DEF CpuInv, CpuTypeOK, FlagsFit
<1>2. ASSUME NEW key \in Keyboard, NEW repeat \in BOOLEAN, KeyDown(key, repeat)
      PROVE  CpuInv' /\ UNCHANGED coreVars
  <2>1. UNCHANGED <<coreVars, irq_enabled, irq_line>>
    BY <1>2 DEF KeyDown
  <2>2. Device!Enqueue(MapKey(key)) \/ UNCHANGED <<queue, read_idx, write_idx, count>>
    BY <1>2 DEF KeyDown
  <2>3. QueueFits'
    <3>1. UNCHANGED <<queue, read_idx, write_idx, count>> => QueueFits'
      BY <1>1 DEF QueueFits
    <3> QED
      BY <1>1, <2>2, <3>1, KeyCodesFit, EnqueueFits
  <2> QED
    BY <1>1, <2>1, <2>3, CoreStays
<1>3. ASSUME NEW key \in Keyboard, KeyUp(key)
      PROVE  CpuInv' /\ UNCHANGED coreVars
  <2>1. UNCHANGED <<coreVars, irq_enabled, irq_line, queue, read_idx, write_idx, count>>
    BY <1>3 DEF KeyUp
  <2>2. QueueFits'
    BY <1>1, <2>1 DEF QueueFits
  <2> QED
    BY <1>1, <2>1, <2>2, CoreStays
<1>4. ASSUME NEW quit \in BOOLEAN, EndPoll(quit)
      PROVE  CpuInv' /\ UNCHANGED coreVars
  <2>1. UNCHANGED <<coreVars, irq_enabled, irq_line, queue, read_idx, write_idx, count>>
    BY <1>4 DEF EndPoll, vars, deviceVars
  <2>2. QueueFits'
    BY <1>1, <2>1 DEF QueueFits
  <2> QED
    BY <1>1, <2>1, <2>2, CoreStays
<1> QED
  BY <1>2, <1>3, <1>4 DEF Poll

LEMMA DemoKeepsCpu ==
  ASSUME CpuInv, [DemoNext]_demoVars
  PROVE  CpuInv'
<1>1. CASE Poll
  BY <1>1, PollKeepsCpu
<1>2. CASE SliceTick
  BY <1>2, TickSteps DEF SliceTick
<1>3. CASE UNCHANGED vars
  BY <1>3, CpuSteps
<1> QED
  BY <1>1, <1>2, <1>3 DEF DemoNext, Slice, EndFrame, Escape, demoVars

(* An instruction that starts is recorded with the address just latched. *)
LEMMA TickKeepsTrace ==
  ASSUME DemoInv, SliceTick
  PROVE  TraceEndsAtIpc'
<1> DEFINE Entry == [address : Word, ir : Word]
<1>1. CpuInv /\ CpuInv' /\ Tick /\ trace \in Seq(Entry) /\ options' = options
      /\ options.trace_size \in Nat
  BY TickSteps, OptionsAssumption DEF DemoInv, TraceEndsAtIpc, LoopInv, SliceTick
<1>2. CASE phase = "Process" /\ InstructionStart
  <2> DEFINE e == [address |-> reg'["ipc"], ir |-> IF inject' THEN 0 ELSE reg'["ir"]]
  <2>1. e \in Entry
    <3>1. /\ reg'["ipc"] \in Word /\ reg'["ir"] \in Word
      BY <1>1 DEF CpuInv, CpuTypeOK, RegistersFit, Registers, ByteRegisters, WordRegisters
    <3> QED
      BY <3>1, BytesAreWords
  <2>2. trace' = Record(trace, options.trace_size, e)
    BY <1>2 DEF SliceTick, TraceAfter
  <2> HIDE DEF e
  <2>3. CASE options.trace_size = 0
    <3>1. trace' = trace /\ trace = << >>
      BY <2>2, <2>3 DEF Record, DemoInv, TraceEndsAtIpc
    <3> QED
      BY <1>1, <3>1 DEF TraceEndsAtIpc
  <2>4. CASE options.trace_size # 0
    <3> DEFINE kept == IF Len(trace) >= options.trace_size THEN Tail(trace) ELSE trace
    <3>1. trace' = Append(kept, e)
      BY <2>2, <2>4 DEF Record
    <3>2. kept \in Seq(Entry)
      <4>1. Len(trace) >= options.trace_size => trace # << >>
        BY <1>1, <2>4
      <4> QED
        BY <1>1, <4>1
    <3> HIDE DEF kept, Entry
    <3>3. trace' \in Seq(Entry) /\ trace'[Len(trace')] = e
      BY <2>1, <3>1, <3>2
    <3>4. e.address = reg'["ipc"]
      BY DEF e
    <3> QED
      BY <1>1, <2>4, <3>3, <3>4 DEF TraceEndsAtIpc, Entry
  <2> QED
    BY <2>3, <2>4
<1>3. CASE ~(phase = "Process" /\ InstructionStart)
  <2>1. trace' = trace
    BY <1>3 DEF SliceTick, TraceAfter
  <2>2. reg'["ipc"] = reg["ipc"]
    <3>1. CASE TickProcess
      <4>1. phase = "Process" /\ reg'["ipc"] = AfterProcess("ipc")
        BY <3>1 DEF TickProcess, Registers, WordRegisters
      <4>2. reg["sc"] # 0 \/ asserted = {}
        BY <1>1, <1>3, <4>1, FetchProcesses
      <4> QED
        BY <1>1, <4>1, <4>2, FetchProcesses
    <3>2. CASE TickRead
      <4>1. phase = "Read" /\ (reg' = reg \/ reg'["ipc"] = AfterRead("ipc"))
        BY <3>2 DEF TickRead, Registers, WordRegisters
      <4> QED
        BY <1>1, <4>1, FetchReads
    <3> QED
      BY <1>1, <3>1, <3>2 DEF Tick, TickControl, TickWrite, TickClear
  <2> QED
    BY <1>1, <2>1, <2>2 DEF DemoInv, TraceEndsAtIpc
<1> QED
  BY <1>2, <1>3

(* A CPU in the middle of an instruction has latched its address. *)
LEMMA TickKeepsLatch ==
  ASSUME DemoInv, SliceTick
  PROVE  LatchInv'
<1>1. CpuInv /\ Tick /\ ~fault
  BY DEF DemoInv, SliceTick, Tick
<1>2. SUFFICES ASSUME ~ipc_valid'
               PROVE  reg'["sc"] = 0 /\ ~crashed'
  BY DEF LatchInv
<1>3. ~ipc_valid /\ ~(phase = "Process" /\ InstructionStart)
  BY <1>2 DEF SliceTick
<1>4. reg["sc"] = 0 /\ ~crashed
  BY <1>1, <1>3, StepCounterIsByte DEF DemoInv, LatchInv
<1>5. CASE TickProcess
  <2>1. phase = "Process" /\ reg'["sc"] = AfterProcess("sc")
        /\ crashed' = (crashed \/ Asserted("cpu", "crash"))
    BY <1>5 DEF TickProcess, Registers, ByteRegisters
  <2>2. asserted = {}
    BY <1>1, <1>3, <1>4, <2>1, FetchProcesses
  <2>3. reg'["sc"] = 0
    BY <1>1, <1>4, <2>1, <2>2, FetchProcesses
  <2>4. ~crashed'
    BY <1>4, <2>1, <2>2 DEF Asserted
  <2> QED
    BY <2>3, <2>4
<1>6. CASE TickRead
  <2>1. phase = "Read" /\ (reg' = reg \/ reg'["sc"] = AfterRead("sc")) /\ crashed' = crashed
    BY <1>6 DEF TickRead, Registers, ByteRegisters
  <2>2. reg'["sc"] = 0
    BY <1>1, <1>4, <2>1, FetchReads
  <2> QED
    BY <1>4, <2>1, <2>2
<1>7. CASE TickControl \/ TickWrite \/ TickClear
  <2>1. UNCHANGED <<reg, crashed>>
    BY <1>7 DEF TickControl, TickWrite, TickClear
  <2> QED
    BY <1>4, <2>1
<1> QED
  BY <1>1, <1>5, <1>6, <1>7 DEF Tick

LEMMA DemoStarts ==
  ASSUME DemoInit
  PROVE  DemoInv
<1>1. CpuInv
  BY CpuStarts DEF DemoInit
<1>2. TraceEndsAtIpc
  BY DEF DemoInit, TraceEndsAtIpc
<1>3. LatchInv
  <2>1. reg["sc"] = 0 /\ ~crashed
    BY ImagesAssumption DEF DemoInit, Init
  <2> QED
    BY <2>1 DEF LatchInv
<1>4. LoopInv
  BY DEF DemoInit, Init, LoopInv
<1> QED
  BY <1>1, <1>2, <1>3, <1>4 DEF DemoInv

LEMMA DemoSteps ==
  ASSUME DemoInv, [DemoNext]_demoVars
  PROVE  DemoInv'
<1>1. CpuInv'
  BY DemoKeepsCpu DEF DemoInv
<1>2. CASE Poll
  <2>1. UNCHANGED <<coreVars, options, trace, ipc_valid, dump>>
        /\ at = "poll" /\ at' \in {"poll", "tick"}
    BY <1>2, PollKeepsCpu DEF DemoInv, Poll, KeyDown, KeyUp, EndPoll, loopVars
  <2>2. TraceEndsAtIpc' /\ LatchInv'
    BY <2>1 DEF DemoInv, TraceEndsAtIpc, LatchInv, coreVars
  <2>3. LoopInv'
    BY <2>1 DEF DemoInv, LoopInv, coreVars
  <2> QED
    BY <1>1, <2>2, <2>3 DEF DemoInv
<1>3. CASE SliceTick
  <2>1. LoopInv'
    BY <1>3 DEF DemoInv, LoopInv, SliceTick
  <2> QED
    BY <1>1, <1>3, <2>1, TickKeepsTrace, TickKeepsLatch DEF DemoInv
<1>4. CASE EndFrame
  <2>1. TraceEndsAtIpc' /\ LatchInv'
    BY <1>4 DEF EndFrame, DemoInv, TraceEndsAtIpc, LatchInv, vars, coreVars
  <2>2. at = "tick" /\ dump = << >> /\ options' = options /\ options \in Options
        /\ phase' = "None" /\ ~fault' /\ reg' = reg /\ trace' = trace
        /\ halted' = halted /\ crashed' = crashed /\ (crashed => halted)
        /\ at' \in {"poll", "returned"} /\ (at' = "poll" => ~halted)
    BY <1>4 DEF EndFrame, DemoInv, LoopInv, CpuInv, StopInv, vars, coreVars
  <2>3. CASE crashed /\ options.debug_on_crash
    <3>1. dump' = <<[address |-> reg["ipc"], trace |-> trace]>>
      <4>1. ipc_valid
        BY <2>3 DEF DemoInv, LatchInv
      <4>2. dump' = Append(<< >>, [address |-> reg["ipc"], trace |-> trace])
        BY <1>4, <2>2, <2>3, <4>1 DEF EndFrame, FormatDebugDump, instruction_address
      <4> QED
        BY <4>2
    <3>2. at' = "returned" /\ crashed' /\ dump' = <<[address |-> reg'["ipc"], trace |-> trace']>>
      BY <2>2, <2>3, <3>1
    <3>3. LoopInv'
      BY <2>2, <3>2 DEF LoopInv
    <3> QED
      BY <1>1, <2>1, <3>3 DEF DemoInv
  <2>4. CASE ~(crashed /\ options.debug_on_crash)
    <3>1. dump' = << >>
      BY <1>4, <2>2, <2>4 DEF EndFrame
    <3>2. ~(crashed' /\ options'.debug_on_crash) /\ (at' = "poll" => ~halted')
      BY <2>2, <2>4
    <3>3. LoopInv'
      BY <2>2, <3>1, <3>2 DEF LoopInv
    <3> QED
      BY <1>1, <2>1, <3>3 DEF DemoInv
  <2> QED
    BY <1>1, <2>1, <2>3, <2>4 DEF DemoInv
<1>5. CASE Escape
  <2>1. TraceEndsAtIpc' /\ LatchInv'
    BY <1>5 DEF Escape, DemoInv, TraceEndsAtIpc, LatchInv, vars, coreVars
  <2>2. LoopInv'
    BY <1>5 DEF Escape, DemoInv, LoopInv, CpuInv, StopInv, vars, coreVars
  <2> QED
    BY <1>1, <2>1, <2>2 DEF DemoInv
<1>6. CASE UNCHANGED demoVars
  <2>1. TraceEndsAtIpc' /\ LatchInv' /\ LoopInv'
    BY <1>6 DEF demoVars, vars, coreVars, loopVars, DemoInv, TraceEndsAtIpc, LatchInv, LoopInv
  <2> QED
    BY <1>1, <2>1 DEF DemoInv
<1> QED
  BY <1>2, <1>3, <1>4, <1>5, <1>6 DEF DemoNext, Slice

LEMMA DemoInvariant == DemoSpec => []DemoInv
<1>1. DemoInit => DemoInv
  BY DemoStarts
<1>2. DemoInv /\ [DemoNext]_demoVars => DemoInv'
  BY DemoSteps
<1> QED
  BY <1>1, <1>2, PTL DEF DemoSpec

-----------------------------------------------------------------------------
(***************************************************************************)
(* The theorems.                                                           *)
(***************************************************************************)

(* TickRead, TickProcess and the run loop: whatever program runs and whatever
   keys are pressed, every register, bus, memory cell and queue slot holds a
   value of its width, and the queue's indices stay inside the ring. *)
THEOREM CpuTypes == Spec => []CpuTypeOK
<1>1. CpuInv => CpuTypeOK
  BY DEF CpuInv
<1> QED
  BY <1>1, CpuInvariant, PTL

(* Cpu::Tick: no microcode word drives a bus twice, reads an idle bus or is
   looked up behind the end of the ROM; a program can make a tick throw only by
   storing to ROM or to an address without a region. *)
THEOREM OnlyStoresThrow == Spec => []OnlyStrayStoresThrow
<1>1. CpuInv => OnlyStrayStoresThrow
  BY DEF CpuInv
<1> QED
  BY <1>1, CpuInvariant, PTL

(* InstructionMemory::Lookup, which selects the variant anew at every step from
   the status of that moment: an instruction runs through one variant to its
   last step, and only an opcode that no instruction has leaves the CPU idle. *)
THEOREM InstructionsRunWhole == Spec => [](VariantInv /\ OnlyUndefinedIdles)
<1>1. Init => VariantInv
  BY ImagesAssumption DEF Init, VariantInv, Busy
<1>2. CpuInv /\ VariantInv /\ [Next]_vars => VariantInv'
  BY VariantSteps
<1>3. VariantInv => OnlyUndefinedIdles
  BY DEF VariantInv, OnlyUndefinedIdles
<1> QED
  BY <1>1, <1>2, <1>3, CpuInvariant, PTL DEF Spec

(* DemoRunner::TickCpu and FormatDebugDump: for every cartridge, every trace
   depth and every sequence of events, a crash leaves exactly one dump, and it
   names an instruction that crashes, as does the last entry of its trace. *)
THEOREM DumpsNameCulprit == DemoSpec => []DumpNamesCulprit
<1>1. DemoInv => DumpNamesCulprit
  <2> SUFFICES ASSUME DemoInv PROVE DumpNamesCulprit
    OBVIOUS
  <2>1. Opcode(<<"CRS", "IMP">>) = 255
    BY CrashAssumption
  <2>2. CASE dump = << >>
    <3>1. ~(at = "returned" /\ crashed /\ options.debug_on_crash)
      BY <2>2 DEF DemoInv, LoopInv
    <3>2. Len(dump) = 0
      BY <2>2
    <3> QED
      BY <2>2, <3>1, <3>2 DEF DumpNamesCulprit
  <2>3. CASE dump # << >>
    <3>1. dump = <<[address |-> reg["ipc"], trace |-> trace]>> /\ crashed
      BY <2>3 DEF DemoInv, LoopInv
    <3>2. Len(dump) = 1 /\ dump[1].address = reg["ipc"] /\ dump[1].trace = trace
      BY <3>1
    <3>3. IsDevice(reg["ipc"]) \/ Stored(ram, reg["ipc"]) = 255
      BY <3>1 DEF DemoInv, CpuInv, StopInv, Crashes
    <3>4. trace # << >> => trace[Len(trace)].address = reg["ipc"]
      BY DEF DemoInv, TraceEndsAtIpc
    <3>5. \A i \in 1 .. Len(dump) : i = 1
      BY <3>2
    <3> QED
      BY <2>1, <3>2, <3>3, <3>4, <3>5 DEF DumpNamesCulprit
  <2> QED
    BY <2>2, <2>3
<1> QED
  BY <1>1, DemoInvariant, PTL
=============================================================================

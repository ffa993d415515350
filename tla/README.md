# Verification of the IRATA2 simulator

IRATA2 is an 8-bit computer simulated at the level of control signals: a
microcoded CPU ticks through five phases, moves values between registers over
two buses, and talks to memory-mapped devices, one of which interrupts it.
This directory holds TLA+ models of the parts in which that can go wrong, the
TLC configurations that check them, and proofs that TLAPS checks.

## 1. Inventory

| Component | State | Operations | Hard part | What makes it correct |
|---|---|---|---|---|
| Input device (`sim/src/io/input_device.cpp`) | ring `queue_`, two indices, `count_`, `irq_enabled_`, `key_state_`, the CPU's latched `irq_line_` | `inject_key`, `set_key_down/up` (frontend), register reads and writes (program), `TickControl` (clock) | reading DATA pops; the line is refreshed once per tick only | a bounded FIFO that drops new keys; the line follows the queue |
| Tick protocol (`component.h`, `control.h`, `bus.h`, `component_with_bus.h`, `Cpu::Tick`) | phase, asserted controls, bus values | Control, Write, Read, Process, Clear | registration order; buses throw on two writers or none | validated microcode never throws, transfers are exact, nothing survives a tick |
| ALU (`sim/src/alu/alu.cpp`) | lhs, rhs, result; carry and overflow flags | ADD .. ROR | carry and borrow at byte boundaries | chained operations are exact |
| Registers (`program_counter.h`, `counter.h`, `memory_address_register.cpp`, `status_register.h`) | PC, MAR, SP, A, X, Y, TMP, status, operand registers | bus reads, increments, offsets, resets | wraparound, page crossings, leftovers of the last instruction | instructions depend on architectural state only |
| Controller (`sim/src/controller/*`, `instruction_register.h`) | IR, SC, IPC, `inject_interrupt_` | `TickControl` lookup, IRQ sampling at `instruction_start` | missing entries; an interrupt between any two instructions | every instruction ends; no instruction is torn |
| Memory map (`sim/src/memory/*`, `BuildRegionFactories`) | the regions, RAM | construction, `ReadAt`, `WriteAt` | overlapping, misaligned and oversized regions, sizes lost in 32 bits; writes outside RAM throw in mid-tick | an accepted layout hides no cell, RAM keeps what is written, no program of the runs faults |
| Microcode (`microcode/microcode.yaml`) | none (data) | step lists of 153 instructions | page and flag cases of each addressing mode | it implements the instruction set |
| Microcode compiler (`microcode/src/compiler/*`) | the IR being transformed | transformers, validators, optimizers, encoder | which steps may be merged or dropped; status expansion | encoding keeps the meaning |
| Instruction set (`isa/instructions.yaml`) | none (data) | 153 instructions | declared flags | reference of the CPU |
| Demo runner (`frontend/src/demo_runner.cpp`) | running, cycles of the slice, trace, dump | events, then a slice of ticks | slices cut interrupts anywhere; quit, halt, crash and exceptions end the loop at different places | keys reach the program; the trace and the dump tell what happened |
| Vector graphics coprocessor (`vector_graphics_coprocessor.cpp`, `vgc_backend.cpp`) | command registers, the line being drawn | latching, EXEC, CONTROL, `draw_line` | a loop without a bound whose exit needs both coordinates at once | every line is drawn whole, on course, and ends |
| Include processor (`assembler/src/include_processor.cpp`) | nested calls, `include_stack_` | include, copy, return | cycles, files included twice | in-place expansion; includes end |
| Assembler (`assembler/src/assembler.cpp`) | cursor, items, `symbols`, `constants`, the image, debug records | `FirstPass`, `Encode` | forward references, ends of cartridge and address space, overlapping `.org` | the image disassembles to the source; labels and source map agree with it |
| Lexer and parser (`lexer.cpp`, `parser.cpp`) | index, line, column, tokens, statements | `NextToken`, `Parse` | X and Y are names and registers; positions in comments, strings, numbers | the grammar is accepted, nothing is lost, positions are right |
| Build files (`assembler/src/main.cpp`, `cartridge.cpp` of both sides, `debug_symbols.cpp`) | cartridge and symbol file | write, load | a write that stops, a kill between two files, a reader in between; two implementations of JSON strings | a part that lies still is never taken for a whole; a finished build loads |
| Disassembler (`sim/src/disassembler.cpp`) | position, label map | `Disassemble` | data taken for code, labels inside instructions | the listing assembles to the same cartridge |
| Microcode loader and dump (`controller/*_encoder.cpp`, `instruction_memory.cpp`, `microcode/src/debug/decoder.cpp`) | bit patterns by position | encode, check, burn, print | a program of another revision | the controls that were named are asserted |
| Trace and dump (`debug_trace.h`, `debug_dump.cpp`) | a ring of entries | record, format | recorded in mid-tick | the trace is the path of the program, the dump names the culprit |
| HDL (`hdl/`) | none (static tree) | - | - | - |

Interactions: `DemoRunner::Run` polls events, calls the input device, then
runs a slice of ticks (`RunUntilHalt(max_cycles)`). In each tick the
controller looks up a control word by opcode, step and flags, asserts its
controls, and the components act on them phase by phase. The device sits
behind the memory map for the program and refreshes the interrupt line in the
Control phase; the instruction register samples that line in the Process phase
of an instruction's first step.

There are no threads. What is concurrent is the frontend against the program:
events fall between any two ticks, that is anywhere inside an instruction.
A `SimError` ends the run. What is persisted are the two files of a build, the
cartridge and its debug symbols, which the assembler replaces one after the other
while other tools may read them. `PROJECT.json` lists the hazards with their
lines.

## 2. Modules

| Module | Models | Notes |
|---|---|---|
| `KeyFifo` | what the device promises | abstract specification |
| `InputDevice` | `InputDevice`, one action per operation | parameters: keys, queue size, key bits |
| `TickProtocol` | the tick for any components, buses and valid control words | ticks the components of a phase one by one in any order |
| `TickProtocolProofs` | - | theorems about `TickProtocol` |
| `Bytes` | `base::Byte`, `base::Word`, bit operations | arithmetic modulo 2^8 and 2^16 |
| `Alu` | `Alu::TickProcess` | one operator per group of operation codes |
| `WideArithmetic` | 16-bit chains of ALU operations | state machine over `Alu` |
| `AluProofs` | - | theorems about `WideArithmetic` |
| `InstructionSet` | `instructions.yaml` | opcodes by mnemonic and addressing mode |
| `Microcode` | `microcode.yaml`, the transformers, encoder and lookup | step lists by addressing mode and operation |
| `Cpu` | the CPU tick by tick, with memory map and device | a step per phase; instantiates `InputDevice` |
| `Isa` | what each instruction does to the architectural state | abstract specification |
| `CpuIsa` | composition: `Cpu` with the architectural state it shows at instruction boundaries | instantiates `Isa` |
| `MicrocodeCompiler` | `Compiler::Compile`, pass by pass, over any small instruction set | transformers and optimizers rewrite step lists, validators are predicates |
| `MicrocodeLoader` | composition: `MicrocodeCompiler`, the encoders, the checks and the decoding of a `Cpu` that may be of another revision, the decoder's dumps | extends `MicrocodeCompiler` |
| `MicrocodeProofs` | - | theorems about `MicrocodeCompiler` and `MicrocodeLoader` |
| `DemoRunner` | composition: `DemoRunner::Run` over `Cpu`, with trace and crash dump | extends `Cpu`; ticks phase by phase |
| `CpuProofs` | - | theorems about `Cpu` and `DemoRunner` |
| `LineDrawing` | `ImageBackend::draw_line`, an iteration per step | the call's result is the set of its pixels |
| `VectorGraphics` | the coprocessor's registers and commands | extends `LineDrawing` |
| `MemoryMap` | `Memory`, `Region` and their constructors, routing, RAM | a region per step |
| `Devices` | composition: a ticking machine of memory map, keyboard and graphics | extends `InputDevice`, `VectorGraphics`, `MemoryMap`; the CPU is any program that loads or stores once per tick |
| `DevicesProofs` | - | theorems about `LineDrawing` and `InputDevice`, and about `Devices`, from those about its parts |
| `Lexer` | `Lexer::Lex`, a token per step | a letter may stand for a word |
| `Parser` | `Parser::Parse`, a statement per step | extends `Lexer` |
| `CartridgeFile` | header and bytes, written and loaded | |
| `DebugJson` | `EncodeDebugJson`, the simulator's JSON parser and `LoadDebugSymbols` | over tokens; strings keep their escapes |
| `Disassembler` | `Disassemble`, lines as the statements they parse to | |
| `Toolchain` | composition: assembler main, the two files, a reader, and the listing assembled again | extends `AssembleFile`, `CartridgeFile`, `DebugJson`, `Disassembler` |
| `IncludeProcessor` | `ProcessProgram` and its recursion | a frame per call |
| `AssembleFile` | composition: `AssembleFile` and `Assemble`, from the root file to the cartridge | extends `Assembler` and `Parser`, instantiates `IncludeProcessor`; the root is given as statements or as text |
| `Assembler` | `FirstPass` and `Encode` over parsed statements | an operand that cannot be resolved has no value: `Resolve` is a set of at most one number |
| `AssemblerProofs` | - | theorems about `Assembler` |
| `AssembleFileProofs` | - | theorems about `AssembleFile`, and about the lexer and the include processor in it; extends `AssemblerProofs` |
| `NaturalNumbers` | - | least elements and induction, for the proofs |
| `MC*` | instances for TLC | programs, images, operands |

How state corresponds: a variable has the member's name without the trailing
underscore. In `Cpu`, `reg` is a function from component names (`"pc"`,
`"alu.lhs"`, ...) to values, `asserted` the set of asserted auto-reset
controls as pairs of component and control, `ram` the cells written so far,
`inject` is `inject_interrupt_`, and `fault` says that a `SimError` left
`Cpu::Tick`. `asserted` in `TickProtocol` is the same set, for arbitrary
components. Key codes are model values in `InputDevice` and small numbers in
`Cpu`, where programs can look at them.

A phase is one step of `Cpu`. `TickProtocol` justifies that: for validated
control words the order of components inside Write, Read and Clear changes
nothing. In Process the order does matter (flags set by the ALU and then by
the status controls, the sampled I flag, IPC after PC), and `Cpu` keeps the
order in which `cpu.cpp` registers the components.

`Microcode` holds the shipped program, with the transformers and the encoder but
without the optimizers, which change nothing in it: after sequencing no step is
empty, no two neighbouring steps are equal, and every step has a Process control
(`sc.increment` or `sc.reset`), so none strictly precedes its neighbour in phase.
`MicrocodeCompiler` has all passes; `Meaning` there interprets control words on a few
registers, to compare what was written with what was compiled.

`AssembleFile` does not instantiate `Assembler` but extends it: between parsing and
the end its steps are those of `Assemble`, and what it adds (the lexer, the parser,
the include processor) ends in `BeginFirstPass`, which takes the merged statements.
`BeginFirstPass` asks for a program of well-formed statements (`IsProgram`), the type
of the syntax tree; `AssemblingEnds` shows that what the parser and the include
processor hand over always is one.

`Toolchain` keeps a file as the build it comes from and how much of it was
written (all, or the part before some place); the bytes or tokens are made when it
is read. `WriteFile` is two actions and more: opening, which truncates the file
(`OpenCartridge`, `OpenDebugInfo`), and every write that makes more of it
(`MoreOf`), before the file is closed as it is then (`MayClose`), as nobody asks the
stream whether it took everything. A reader, which stands for the simulator, the
inspector and the disassembler alike, reads the cartridge and then the symbols, at
any time, in steps that writes may come between: it measures the cartridge, fills
the measured size in one or more reads, with zeros where the file has become
shorter, and reads the symbols up to the end that they have then. Two ghosts,
`found` and `calm`, say whether the file changed in between: it never returns to
what it was. When everything went well, the reader's disassembly takes the place of
the source and is assembled again.

Operators whose comment begins with "Mutant" are deliberate mistakes: each
replaces one definition and must make one property fail, which shows that the
property depends on the code. They are not part of any specification.

## 3. Runs

| Run | Module, config | Checks | Bounds and why they are enough |
|---|---|---|---|
| `devices` | `MCDevices` | `IInv`, `ImplementsFifo`, `PendingKeyRaisesIrq`; `EveryCellIsReached`, `RamKeepsWrites`; `OnCourse`, `Approaches`, `LineIsWhole` | one machine per device, driven with all its operations, and the demo's with all devices; a further 315 layouts of RAM, cartridge and an extra region, most of which are refused, and 16 with RAM as large as the address space or larger. `UintRange` is 2^18 there, not 2^32, as TLC computes in 32 bits: 0x40000 stands for 4 GiB. 3 slots and 3 keys show all fill levels, wraps and orders; lines between coordinates of 0 to 7 in both directions, steep, flat and degenerate. The theorems hold for every queue size and every line |
| `datapath` | `MCDatapath` | `NoBusError`, `TransferComplete`; `SumsAreExact`, `ShiftsAreExact`, `AddOverflowIsExact` | `subject` chooses between two systems that share no state. Ticks: two registers on one bus, one on another, every valid control word, two values; the theorems hold for any number. ALU: all pairs of words whose bytes are 0, 1, 127, 128, 254, 255, all initial flags; the theorems hold for all words |
| `isa` | `MCIsa` | `ImplementsIsa`, `EveryInstructionCompletes` | each of 153 instructions from five operand samples (sign, zero, carry, full and empty flags, stack pointer at both ends) and two places (without and with page crossings in fetch, index and pointer), with other instructions' leftovers in the internal registers; one instruction per behaviour, as the leftovers stand for what came before |
| `irq` | `MCIrq` | `NoEmptyRead`, `StackBalanced`, `StaysOnTrack` | an echo program with a stack-using main loop, keys injected between any two ticks, a queue of 2 so that full and non-empty differ |
| `demo` | `MCDemo` | `KeysAreServed`, `QuitEndsRun`, `TraceIsPath`, `DumpNamesCulprit` | a handler that returns, crashes or stores astray, depending on the key; slices of two and three cycles, which cut every instruction at every place, a frame rate that leaves no cycle, and refused options; a trace of three entries, which an interrupt fills |
| `microcode_compiler` | `MCMicrocodeCompiler` | `MeaningKept`, `WalksEnd`, `ControlsArrive`, `DumpReadsBack` | one instruction of up to three steps over a transfer, an increment, a flag, conflicting and floating controls and sequence controls the author wrote, or of two variants over two status bits, with three preambles; invalid sets are among them, and fail their validator; simulators with the same, reordered, missing and additional controls and status bits |
| `assembler` | `MCAssembleFile` | `ProgramIsExpansion`, `NoFalseAlarm`, `AssemblingEnds`, `ImageMatchesSource`, `LabelsReachCode`, `ItemsFit`, `SourceMapNamesWriter`; `TokensCoverText`, `ParserAcceptsGrammar`, `OperandsMeanWhatIsWritten`; `BuildArrivesWhole`, `SymbolsBelongToCartridge`, `DisassemblyReassembles` | all programs of up to three of 30 statements, at the start and the end of the address space, with cartridges that end before, at and behind it (behind it, only programs that begin with a label, `.equ` or `.org`); branches over 125 to 128 bytes in both directions; all trees of three files with up to three statements in the root, with repeated, missing and unparsable files; programs of three statements in five bytes that are written, loaded, disassembled and assembled again; four programs written with every failure of either write and a reader at every moment, between its steps too; 42,704 texts: all of up to three characters or words, strings and comments of up to five, numbers of up to four digits, the operands of an instruction up to five tokens, directives. Literals wrap at 2^32 in the code and at 256 here, so that they do |
| `rti_address` | `MCIrq` / `MCRti` | `RtiReturnsToMain` | violated, finding 1 |
| `masked_keys` | `MCIrq` / `MCMasked` | `OldestKeyIsServed` | violated, finding 2 |
| `sbc_overflow` | `MCIsa` / `MCSbc` | `SbcOverflow` | violated, finding 3 |
| `circular_includes` | `MCAssembleFile` / `MCCircular` | `CircularIncludesDetected` | violated, finding 4 |
| `empty_steps` | `MCMicrocodeCompiler` / `MCEmptySteps` | `EmptyStepsGo` | violated, finding 5 |

Deadlock is checked except where a behaviour is meant to end: after the last
instruction of `MCIsa`'s runs, when the microcode compiler or the assembler is done
or has thrown, when the demo has returned, and when an exception has stopped the
machine of `Devices`.

Fairness. `Devices!DevSpec` is weakly fair to the Control phase, to the access of
a tick and to the drawing loop: all three are one thread that waits for nobody.
`Cpu!FairSpec` and `CpuIsa!IsaSpec` are weakly fair to the tick: `RunUntilHalt` is a
loop that ticks until the CPU halts. Nothing is assumed of the user: keys may come
or not. `DemoRunner` assumes that a slice goes on (`SliceGoesOn`, weak fairness
written out, as a step is possible wherever a slice is) and that the event queue
runs dry some time (`EndPoll(FALSE)`): SDL hands over the events there are, and the
user types more slowly than the loop polls. `Toolchain!AssemblerGoesOn` is weak
fairness of the assembler, a single thread, up to its return; for the lexer and the
parser it is written out in the same way. Nothing is assumed of the writes and the
reader.

### What the runs show to differ from the documents

1. The fetch preamble increments the PC before an injected IRQ pushes it, so
   RTI resumes one byte past the start of the interrupted instruction
   (`docs/projects/interrupts.md:125` expects a return to the main program).
   The handler of `irq` and `demo` therefore subtracts one from the saved
   address.
2. IRQ sets I before pushing the status, RTI restores it set, and there is no
   CLI (only PLP or a doctored frame clears I): after one interrupt keys stay queued
   (`docs/projects/demo-surface.md:57`). The same handler clears I in its
   frame.
3. SBC lists V as affected (`isa/instructions.yaml:146`); the ALU's SUB never
   touches it.
4. `assembler/README.md:96` says that circular includes are detected; the path
   leaves the include stack before the included file is processed, so they recurse
   without end.
5. `microcode/README.md:126` says that an empty step "will be optimized away";
   `SequenceTransformer` runs first and puts `sc.increment` or `sc.reset` into every
   step, so `EmptyStepOptimizer` finds none. For the same reason
   `StepMergingOptimizer` merges no steps of an instruction, in spite of
   `step_merging_optimizer.h:9` and `microcode/README.md:298`.

The models follow the code in some smaller points, too, where a comment or a
document says something else, and no run asks about them:

- logical operations clear C and V, and shifts clear V, which `instructions.yaml`
  does not list for them;
- `instruction_memory.h:59` says a missing microcode entry throws; it reads as the
  empty control word, and the CPU repeats the step for ever;
- `duplicate_step_optimizer.h:11` says that a repeated step adds no behaviour; an
  increment does (`MeaningKept` excepts repeated steps and says nothing of this;
  the shipped microcode has none);
- where `.org` goes back over code, `pc_to_source` names the statement that was
  overwritten (`cartridge.cpp:112`); `SourceMapNamesWriter` accepts either writer;
- `.equ` refuses the name of a label (`assembler.cpp:231`), but a label does not
  refuse the name of a constant, which then hides it;
- `assembler/README.md:552` promises line and column in errors: tokens of one
  character are placed where they end, so that an error at an unexpected newline
  names the next line (`TokensCoverText` states both cases);
- number literals of more than 32 bits are cut off without an error
  (`lexer.cpp:67`);
- outside the documented operand forms the parser accepts some more: of `(p,X),Y`
  it forgets the X, `(p),X` it takes for `(p,X)`, and parentheses may be nested
  (`OperandsMeanWhatIsWritten` is about the documented forms);
- a listing does not assemble to the same cartridge where an absolute operand
  below 256 has no label (it is read back as zero page), where a label lies inside
  an instruction or outside the cartridge (it is used and not declared);
  `DisassemblyReassembles` names these exceptions. Cartridges that reach the ends of the
  address space are not disassembled in the run;
- `sim/src/cartridge.cpp:42` does not look how much it has read, and line 69 compares
  the header with the size measured before: a cartridge the assembler truncates or
  rewrites in between is accepted with zeros at its end, or mixed of two builds, and
  symbols may be mixed in the same way. The model does this too; `BuildArrivesWhole`
  is about files that do not change while they are read;
- nothing connects a cartridge with its symbols: a simulator started while the
  assembler runs, or after it was killed, may show another build's lines
  (`SymbolsBelongToCartridge` has the condition under which it does not);
- the microcode decoder uses 255 for "no header yet": a program for that opcode
  alone is dumped without its header. The YAML dump has the same lines in another
  layout;
- the `ir` of a trace entry is the opcode of the instruction before it
  (`cpu.cpp:501`), as the entry is recorded before the fetch;
- `docs/projects/demo-surface.md:361` asks for a dump "on halt/error"; only a crash
  is dumped. Lines 120 and 134 give the bits of the graphics CONTROL register in
  older orders, the code follows line 158;
- above 100000 frames per second a frame has no cycle and the demo's program never
  runs;
- `assembler/README.md:77` says that constants may stand for any number; `.org` takes
  literals only.

`Isa` describes what the code does in these points, so that `ImplementsIsa`
compares the microcode with the behaviour its other users rely on.

## 4. Proofs

Checked by TLAPS 1.4.5 with Z3, Zenon and LS4.

**TickProtocolProofs**, from the assumptions on the constants (each component
has a bus, `NoValue` is no value, every control word of the program is valid):
`ValidatedMicrocodeHasNoBusError`, `TransfersComplete` and
`TicksLeaveNothingBehind`. The inductive invariant `IInv` says for each phase
what the components already ticked have established: in Write, that a bus holds a
value exactly when its one writer has been ticked; in Read, that the bus still
holds the writer's value and readers already ticked hold it too (a register that
writes and reads its bus reads back its own value); in Clear, that only what is
still to be ticked has anything left. Order never enters the argument, so the
result holds for every registration order.

**AluProofs**, from `WideAssumption` and `StartsAssumption` (operands are words,
flags are Booleans), so for all 16-bit words and all initial flags:

- `ChainedSumsAreExact`. The inductive invariant `SumsInv` adds to the result what
  the carry flag means between the two operations. It covers the case in which
  operand plus borrow is 256.
- `AddOverflowExact`: the overflow flag of the high byte says whether the signed sum
  of the words fits. The lemmas relate the sign bits of three bytes to the signed
  value of the words they are the high bytes of.
- `ChainedShiftsAreExact`: the inductive invariant `ShiftsInv` says for a shift what
  bit is in the carry between the two bytes, and for a rotation by `n` places that
  the nine bits of operand and carry, read as a number, are the original ones
  rotated `n` times; nine such steps are the identity.

**DevicesProofs**, about lines: `LineStaysOnCourse` (`InBox` and `HalfPixel`) and
`LineApproaches`, for every pair of points with byte coordinates. The loop's
`error` is an accumulator whose meaning the code does not state: `ErrorInv` says
that it is the signed distance from the ideal line, plus what the next step along
each axis adds. From it follows which of the two tests can hold: that the longer
axis advances in every iteration, that the shorter one advances exactly when the
distance would exceed half a pixel, and that neither passes the target. `InBox`
and `HalfPixel` need each other: within half a pixel of the line the shorter axis
cannot run ahead of the longer, and inside the box the products stay comparable.
`LineDrawnWhole` rests on `WholeInv`: while a line is drawn it has as many pixels
as places the longer axis has left behind, all among those places and the first at
the start; when the loop is left, the place reached is the target.
`LineApproaches` gives the loop its variant; that it ends is then a matter of
fairness, and TLC checks it as part of `PendingKeyRaisesIrq`, since a tick waits
for its lines.

About the input device alone, from `QueueSizeAssumption` (the queue
has at least one slot) and for every set of keys:

- `RingIsSound` and `RingImplementsFifo`. The inductive invariant is `IInv`: types,
  the agreement of both indices with the count modulo the size, and keys in all
  occupied slots. The count alone tells full from empty when the indices are equal,
  so none of the three parts is inductive without the others. The refinement maps
  the ring to the sequence `Contents` of its occupied segment; lemmas on `Segment`
  say that a store behind the segment appends to it and that advancing the read
  index takes its tail, also around the wrap.

And about the composed machine, for every set of layouts, program and
input that its assumptions describe (`LayoutsAssumption`: a layout is a list of
regions with a kind, a word as offset and any natural number as size;
`WidthsAssumption`: the numbers of a `uint32_t` are a power of two above 2^16 that
a `size_t` holds; `ProbesAssumption`: addresses are words;
`ProgramAssumption`: a program stores bytes at word addresses and the frontend types
keys):

- `MemoryIsReached` and `RamIsKept`, from `MapInv`: the sizes of the
  regions made so far are powers of two and their offsets aligned to them, in a
  running machine the regions are pairwise apart, and RAM holds what was last stored
  at each address. A size up to 2^16 divides the address space, so that such a region
  ends in it; a larger one can only be aligned at 0, where it overlaps every other
  region that answers at all (`RegionEnds`; `PowersDivide` says that a power of two
  divides the larger ones). `Region` accepts both, and neither it nor `Memory`
  compares a size with the address space. That an address belongs
  to at most one region follows from the check of all pairs at construction and
  makes the order of the search irrelevant; that the offset in a region is the
  remainder of the address follows from the alignment, and only then do two
  addresses of a region have two cells.
- `KeyboardInMachine`: the machine, driven by any program, implements the
  specification of the keyboard alone, and so inherits `RingIsSound` and
  `RingImplementsFifo`: every step of the machine is a step of the device or leaves
  it alone.
- `LinesInMachine`: the same for lines, with `VgcInv` (the latches hold bytes, so that
  the end points of a line are points) and the fact that nothing touches a line while
  it is drawn.

**AssemblerProofs**, for every program of well-formed statements, every origin and
every cartridge size (`OpcodesDiffer`, that no two instructions share an opcode, is a
closed fact about `instructions.yaml` that TLC evaluates): `ProgramFits`,
`LabelsAreReached`, `ImageIsSource` and `SourceMapIsRight`. The inductive invariant
`AssemblerInv` has five parts. `StateInv` keeps types and the cursor inside the
address space; `ItemsInv` says that an item stands for a statement already seen and
has the size its statement has now, with the symbols of the first pass only partly
known: this holds because the addressing mode is chosen by what is known for good
(`SelectedMode`). `LabelsInv` says that a label has the cursor as its address as long
as nothing was emitted behind it, and the first item's address from then on, which
makes forward and backward references alike. `RomInv` says which bytes of the
cartridge every item encoded so far still owns and that all others are fill; where
`.org` goes back, later items take bytes from earlier ones, so it must speak of both.
`RecordsInv` says that each record names an item that wrote its address. The check
of sizes in the code compares an offset, not a size; `RomInv` shows that the checks
in the loop are enough.

**AssembleFileProofs**, from `FilesAssumption` (a file system has finitely many files, the
root among them; each has statements or cannot be parsed; a text is a sequence) and
`LettersAssumption` (no letter is a newline or the null character), for every text, file
system, origin, cartridge size and set of letters:

- `FilesAreAssembled`: the four theorems about `Assembler` hold in the composition, where
  reading, parsing and including come before the passes. Every step of `AssembleFile` is a
  step of `Assembler` or leaves its state alone (`AssembleSteps`), so what the
  passes get may be any list of statements, as it is in `AssemblerProofs`.
- `IncludesAreReplaced` and `IncludesThrowForReason`. Files may include each other in a
  circle, and then `ProcessProgram` recurses for ever. `Ended` is a set of files that has
  every file all of whose directives name files of the set, as the set of files that can
  be processed to the end must. Files are sorted by how deep they are nested; a level
  that adds no file is the last, so there are at most as many levels as files
  (`NestingEnds`), and a file nested less than `d` deep has its whole text from level `d`
  of the expansion on (`TextSettles`). That is why `Expansion`, cut off at the number of
  files, is the text of what ended (`TextsEnd`). The inductive invariant `IncludeInv` says of each open call that what it has
  collected is the text of the statements before its `next`, that the includes there have
  ended, and that the call above it is the one its next statement asks for; a call that
  returns has ended (`CallEnds`). For `NoFalseAlarm` it says that the include stack
  holds nothing but the path being loaded, which is why the check for circles never
  strikes (finding 4).
- `TokensAreTheText`. The inductive invariant `LexInv` says that `line_` and `column_` are
  the place of `index_` (`Place`, from the newlines before it), and that each token so far
  starts behind the one before it, with nothing but a gap between and its span at its
  place. A step on one line adds to the column what it adds to the index
  (`PlaceOnLine`), so the point is that no lexeme runs over a newline: for runs of a class
  this follows from the class (`RunOnLine`), for numbers from where their prefix ends, for
  strings from the text of the recursive scan, by induction from the end of the text down
  (`StringEnds`).

**MicrocodeProofs**, from `ControlAssumption` (the step counter has both its
controls) and `SourcesAssumption` (what is compiled has the types of `microcode/ir`),
for every instruction set, preamble, bus wiring and step limit:
`WalksAreComplete` and `CompiledMeansWritten`. The inductive
invariant `CompilerInv` says that variant by variant the instruction set is what the
passes so far make of the source (`PassesInv`, with `StepsAt` naming the result of
each pass), that what is encoded has been validated, and that the table is its
encoding (`ResultInv`). Loops over step lists are recursive functions
(`Folded`); lemmas say when a pass returns its argument, as the code's optimizers do
with what the code's `SequenceTransformer` has made (finding 5): no step is empty
(`NothingEmpty`), no neighbours are equal (`NothingRepeated`), no neighbours may be
merged since both hold a sequence control, which acts in the last phase
(`NothingMerged`, `SequencedNeverMerge`). `WalkIsVariant` shows that under a status
that selects a variant the table holds that variant's steps and nothing else, using
that opcodes are unique and variants disjoint, as the validators demand. What words
mean is then compared step by step: a sequence control moves no register but the
counter. `MeaningKept` excepts what `DuplicateStepOptimizer` does to repeated steps,
which is not harmless, as section 3 says.

About the loader, with `HdlAssumption` (controls are controls, status bits have bits of
their own in a byte) and `BoundsAssumption`, for every description of the hardware and
every `Cpu`: `CompiledControlsArrive`. A word is a sum of powers of two over a set of bit
positions; the provers know nothing of exponents, so it is first shown to be the last
value of a recursion that doubles and adds a bit (`UpperBits`), whose shifts are its
earlier values (`ShiftedWord`). Hence a bit of the word is set exactly if its position is
in the set (`BitsReadBack`), no bits are above the highest position, and words of
different sets differ; for addresses, put together from a byte of status, a byte of steps
and the opcode, the three parts are read back one by one. `LoaderInv` adds to
`CompilerInv` what each check of the constructor has established by the time the program
runs: the same controls and status bits at the same positions. The theorem
holds for any order of controls and for a `Cpu` of another revision: its constructor
throws or all controls arrive.

`DumpsReadBack` is about the decoder, from the same assumptions. The keys it goes through
are in order (`SortedInOrder`: the number of smaller keys gives each its own place). The
loop's invariant says that the lines so far read back as the entries of the keys so far
and that the headers in force are those of the last key (`KeyDumped`, `Headed`). The
difficulty is the value 255 for "no header yet", which is also the status in which all
eight bits are set, as the hardware has them. An opcode's first key never has that
status: a variant tests at most one bit, so it shares its variant, and its steps, with a
smaller one (`AllRaisedIsNotAlone`, `SortedHeaders`). The opcode 255 comes last, after a
header of another opcode, unless it is the only one, which `DumpReadsBack` excepts.

**CpuProofs**, for every cartridge, every set of keys and every image of registers and
RAM a run may start from. The assumptions on these constants say no more than that bytes
are bytes (`ImagesAssumption`, `CartridgeAssumption`, `DeviceAssumption`,
`OptionsAssumption`). What the proofs need of the microprogram itself are closed facts
about the tables in `Microcode`, which TLC evaluates in every run of the CPU:
`ProgramAssumption` (each variant begins with the fetch and counts its steps),
`BusAssumption` (each word passes the bus validator), `VariantsAssumption` (an instruction
has one variant for every status, and one that depends on a flag leaves the flags alone),
`UntouchedAssumption` and `CrashAssumption` (which controls no word has, and that only CRS
crashes).

- `CpuTypes`, `OnlyStoresThrow`. The inductive invariant `CpuInv` follows a tick through
  its phases: the word asserted fits its step (`WordInv`), a bus about to be read holds a
  value (`BusInv`), so nothing throws in Write and Read but a store that finds no memory.
  That the microcode ROM is never read behind its end is part of it too: the opcode that
  owns the last row ends with its fourth step (`FetchInv`).
- `InstructionsRunWhole`. `InstructionMemory::Lookup` selects the variant in every tick,
  from the flags as they are then; a word that changed the flags in the middle of a
  branch would continue in the other variant, or nowhere. `VariantInv` says that the
  variant selected at the end of the fetch is the one selected until its last step: if it
  depends on a flag, its words leave the status register as it is (`StatusStays`), else
  it covers every status. That a CPU with nothing asserted is at an undefined opcode
  follows.
- `DumpsNameCulprit`. Whether an instruction crashes shows three ticks after its address
  was latched, and the program counter has moved on by then. `FetchInv` carries the
  knowledge along: the address goes from the program counter over the MAR into `ipc`,
  the cell at that address onto the data bus and into the instruction register, and from
  then on "the opcode is CRS" implies "the cell at `ipc` holds CRS", since neither the
  fetch nor CRS stores anything. `DemoInv` adds that the trace ends with what `ipc` holds
  and that `ipc` is valid once an instruction has begun. A device's register, if that is
  what was executed, need not show the same a second time, and the property leaves it out.

**NaturalNumbers** has the induction these proofs use. The library's induction
theorems take an operator as a parameter, which the installed provers cannot
instantiate; stated about the set of good numbers, induction follows from the
well-foundedness of `<` on the naturals.

**Only model-checked**:

- liveness (`PendingKeyRaisesIrq`, `KeysAreServed`, `QuitEndsRun`,
  `EveryInstructionCompletes`, `OldestKeyIsServed`, `AssemblingEnds`), which needs
  fairness;
- the refinement of the instruction set by the microcode (`ImplementsIsa`), a finite
  but large case analysis over 153 instructions;
- properties of particular programs, running on all of `Cpu` (`NoEmptyRead`,
  `StackBalanced`, `StaysOnTrack`, `TraceIsPath`);
- that the parser accepts the grammar (`ParserAcceptsGrammar`,
  `OperandsMeanWhatIsWritten`): grammar and parser are recursive over all tokens of a
  line, in different directions, and agree by an induction over derivations;
- the build's files and what reads them (`BuildArrivesWhole`,
  `SymbolsBelongToCartridge`, `DisassemblyReassembles`): the JSON parser and the
  disassembler's sweep are RECURSIVE operators, with which no theorem can be reached.

## 5. Not modelled, and the plan

Not modelled, because it keeps no state of its own around what is modelled:

- command lines and printing: `sim/src/run.cpp`, `cart_inspect.cpp` and
  `disasm_main.cpp` (they load, run and print), `--no-labels` and other origins of the
  disassembler, the wording of errors, dumps and logs;
- accessors and wiring in headers (`cpu.h`, `hdl/`), of which the behaviour appears in
  the modules of the components they give access to;
- code generators (`generate_isa.py`, `generate_microcode.py`), the microcode IR
  builder and the benchmarks;
- SDL: windows, drawing and the wait for the next frame;
- the frame buffer over several drawing calls: a call is modelled, with all its
  pixels, the picture they add up to is not;
- in `LoadCartridge`, a header so large that its 32-bit sum with the size wraps, and
  numbers of more than eight digits in the symbols' JSON: the assembler writes
  neither.

What could be proved next: that what is in a build's two files after any sequence of
writes is a part of what was written (`SymbolsBelongToCartridge`), once the readers,
which recurse, are behind constants; and that the CPU implements `Isa` instruction by
instruction, which `InstructionsRunWhole` reduces to the words of one variant at a time.

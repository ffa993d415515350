------------------------------ MODULE DemoRunner ------------------------------
(***************************************************************************)
(* The demo of frontend/src/demo_runner.cpp: a loop that polls events,     *)
(* runs the CPU for a slice of cycles and looks whether it has halted,     *)
(* with the CPU's instruction trace and the dump made of a crash.          *)
(***************************************************************************)
EXTENDS Cpu, Sequences

CONSTANTS
  Options,   \* the DemoOptions a run may be started with
  Keyboard   \* SDL key codes the user has

(* A trace keeps a number of entries. *)
ASSUME OptionsAssumption == \A o \in Options : o.trace_size \in Nat

VARIABLES
  options,    \* options_
  at,         \* where Run is: "poll", "tick" or "returned"
  running,    \* the loop's flag
  ticks,      \* cycles of the current slice, cycle_count_ - start_cycles
  trace,      \* trace_: the entries, oldest first
  ipc_valid,  \* ipc_valid_: an instruction has started
  dump,       \* the dumps logged by TickCpu
  exit_code   \* what the process returns

loopVars == <<options, at, running, ticks, trace, ipc_valid, dump, exit_code>>
demoVars == <<vars, loopVars>>

-----------------------------------------------------------------------------
(***************************************************************************)
(* Keys.                                                                   *)
(***************************************************************************)

SDLK_RETURN == 13
SDLK_ESCAPE == 27
SDLK_SPACE == 32
SDLK_0 == 48
SDLK_a == 97
SDLK_RIGHT == \h4000004F
SDLK_LEFT == \h40000050
SDLK_DOWN == \h40000051
SDLK_UP == \h40000052

MapKey(key) ==
  CASE key = SDLK_UP -> 1
    [] key = SDLK_DOWN -> 2
    [] key = SDLK_LEFT -> 3
    [] key = SDLK_RIGHT -> 4
    [] key \in {SDLK_SPACE, SDLK_RETURN, SDLK_ESCAPE} -> key
    [] key \in SDLK_0 .. SDLK_0 + 9 -> 48 + (key - SDLK_0)
    [] key \in SDLK_a .. SDLK_a + 25 -> 65 + (key - SDLK_a)
    [] OTHER -> 0

(* The held-key bit of a key, as the set of bits to set or clear. *)
MapKeyToState(key) ==
  CASE key = SDLK_UP -> {1}
    [] key = SDLK_DOWN -> {2}
    [] key = SDLK_LEFT -> {4}
    [] key = SDLK_RIGHT -> {8}
    [] key = SDLK_SPACE -> {16}
    [] key = SDLK_ESCAPE -> {32}
    [] OTHER -> {}

-----------------------------------------------------------------------------
(***************************************************************************)
(* Construction.                                                           *)
(***************************************************************************)

(* Mutant: the default is divided the wrong way round. *)
CyclesPerFrameInverted(o) ==
  IF o.cycles_per_frame <= 0 /\ o.fps > 0 THEN o.fps \div 100000
                                          ELSE o.cycles_per_frame

(* DemoRunner::DemoRunner, the cycles of a frame. *)
CyclesPerFrame(o) ==
  IF o.cycles_per_frame <= 0 /\ o.fps > 0 THEN 100000 \div o.fps
                                          ELSE o.cycles_per_frame

(* DemoRunner::DemoRunner: invalid options throw, and main returns 1. *)
DemoInit ==
  /\ Init
  /\ options \in Options
  /\ LET valid == options.fps > 0 /\ options.scale > 0
     IN  /\ at = IF valid THEN "poll" ELSE "returned"
         /\ running = valid
         /\ exit_code = IF valid THEN 0 ELSE 1
  /\ ticks = 0
  /\ trace = << >>
  /\ ipc_valid = FALSE
  /\ dump = << >>

-----------------------------------------------------------------------------
(***************************************************************************)
(* Events.  SDL_PollEvent hands out one event after the other until there  *)
(* is none left or the user has quit.                                      *)
(***************************************************************************)

(* HandleEvent, SDL_KEYDOWN: a repeat refreshes the held bit only. *)
KeyDown(key, repeat) ==
  /\ at = "poll"
  /\ key_state' = key_state \cup MapKeyToState(key)
  /\ IF ~repeat /\ MapKey(key) # 0 /\ ~Device!full
       THEN Device!Enqueue(MapKey(key))
       ELSE UNCHANGED <<queue, read_idx, write_idx, count>>
  /\ UNCHANGED <<coreVars, irq_enabled, irq_line, answer, loopVars>>

(* HandleEvent, SDL_KEYUP. *)
KeyUp(key) ==
  /\ at = "poll"
  /\ key_state' = key_state \ MapKeyToState(key)
  /\ UNCHANGED <<coreVars, queue, read_idx, write_idx, count, irq_enabled,
                 irq_line, answer, loopVars>>

(* SDL_QUIT leaves the polling loop with the events behind it unread; no
   event left leaves it too.  Either way a slice follows. *)
EndPoll(quit) ==
  /\ at = "poll"
  /\ running' = ~quit
  /\ at' = "tick"
  /\ ticks' = 0
  /\ UNCHANGED <<vars, options, trace, ipc_valid, dump, exit_code>>

Poll ==
  \/ \E key \in Keyboard, repeat \in BOOLEAN : KeyDown(key, repeat)
  \/ \E key \in Keyboard : KeyUp(key)
  \/ \E quit \in BOOLEAN : EndPoll(quit)

-----------------------------------------------------------------------------
(***************************************************************************)
(* A slice: RunUntilHalt(cycles_per_frame).                                *)
(***************************************************************************)

(* Mutant: a full trace gives up its newest entry. *)
RecordOverNewest(entries, depth, e) ==
  IF depth = 0 THEN entries
  ELSE Append(IF Len(entries) >= depth THEN SubSeq(entries, 1, Len(entries) - 1)
                                       ELSE entries, e)

(* DebugTraceBuffer::Record *)
Record(entries, depth, e) ==
  IF depth = 0 THEN entries
  ELSE Append(IF Len(entries) >= depth THEN Tail(entries) ELSE entries, e)

(* Cpu::TickProcess, after its children: at the start of an instruction the
   trace gets the address just latched, and the instruction register, which
   still holds the opcode before it. *)
TraceAfter ==
  IF InstructionStart
    THEN Record(trace, options.trace_size,
                [address |-> reg'["ipc"],
                 ir |-> IF inject' THEN 0 ELSE reg'["ir"]])
    ELSE trace

(* One phase of Cpu::Tick; the loop of RunUntilHalt looks at the halt flag
   and at the cycle counter between two ticks. *)
SliceTick ==
  /\ at = "tick"
  /\ phase = "None" => ticks < CyclesPerFrame(options)
  /\ Tick
  /\ ticks' = IF phase = "Clear" THEN ticks + 1 ELSE ticks
  /\ trace' = IF phase = "Process" THEN TraceAfter ELSE trace
  /\ ipc_valid' = (ipc_valid \/ (phase = "Process" /\ InstructionStart))
  /\ UNCHANGED <<options, at, running, dump, exit_code>>

(* Cpu::instruction_address *)
instruction_address == IF ipc_valid THEN reg["ipc"] ELSE reg["pc"]

(* Mutant: the dump names the program counter. *)
FormatDebugDumpAtPc == [address |-> reg["pc"], trace |-> trace]

(* FormatDebugDump, without its wording. *)
FormatDebugDump == [address |-> instruction_address, trace |-> trace]

(* Mutant: a quit is only noticed by a program that halts. *)
EndFrameUntilHalt ==
  /\ at = "tick"
  /\ phase = "None"
  /\ ~fault
  /\ halted \/ ticks >= CyclesPerFrame(options)
  /\ dump' = IF crashed /\ options.debug_on_crash
               THEN Append(dump, FormatDebugDump) ELSE dump
  /\ running' = ~halted
  /\ at' = IF running' THEN "poll" ELSE "returned"
  /\ exit_code' = IF running' \/ ~crashed THEN 0 ELSE 2
  /\ UNCHANGED <<vars, options, ticks, trace, ipc_valid>>

(* The end of TickCpu and of a round of Run: a crash is dumped, a halt ends
   the loop, and so does an earlier quit. *)
EndFrame ==
  /\ at = "tick"
  /\ phase = "None"
  /\ ~fault
  /\ halted \/ ticks >= CyclesPerFrame(options)
  /\ dump' = IF crashed /\ options.debug_on_crash
               THEN Append(dump, FormatDebugDump) ELSE dump
  /\ running' = (running /\ ~halted)
  /\ at' = IF running' THEN "poll" ELSE "returned"
  /\ exit_code' = IF running' \/ ~crashed THEN 0 ELSE 2
  /\ UNCHANGED <<vars, options, ticks, trace, ipc_valid>>

(* A SimError leaves Run, and main returns 1. *)
Escape ==
  /\ at = "tick"
  /\ fault
  /\ at' = "returned"
  /\ exit_code' = 1
  /\ UNCHANGED <<vars, options, running, ticks, trace, ipc_valid, dump>>

Slice == SliceTick \/ EndFrame \/ Escape

DemoNext == Poll \/ Slice

(* Weak fairness of Slice, which is enabled wherever at is "tick": the loop
   does not stop in the middle of a slice. *)
SliceGoesOn == []<>(at # "tick") \/ []<><<at = "tick">>_demoVars

(* The loop goes on by itself, and the event queue runs dry some time. *)
DemoSpec ==
  /\ DemoInit
  /\ [][DemoNext]_demoVars
  /\ SliceGoesOn
  /\ WF_demoVars(EndPoll(FALSE))

-----------------------------------------------------------------------------
(***************************************************************************)
(* Properties.                                                             *)
(***************************************************************************)

(* However the slices cut the program's interrupt handling, the oldest key
   of the queue is read, unless the run ends first.  Above 100000 frames per
   second a slice has no cycle, and the program never runs. *)
KeysAreServed ==
  \A i \in Device!Slots :
    (read_idx = i /\ ~Device!empty /\ options.fps <= 100000) ~>
      (read_idx # i \/ Device!empty \/ at = "returned")

(* A quit, like a halt, ends the run, although the loop runs another slice
   after it and tests its flag only at the top. *)
QuitEndsRun == (~running \/ halted) ~> at = "returned"

(* A crash leaves exactly one dump when it was asked for, and the dump names
   an instruction that crashes, as does the last entry of its trace: the
   instruction's own address is latched before the pc moves on, also when
   interrupts were taken on the way.  A device's register, if that is what was
   executed, need not show the same twice. *)
DumpNamesCulprit ==
  LET Crashes(addr) == IsDevice(addr) \/ Stored(ram, addr) = Opcode(<<"CRS", "IMP">>)
  IN  /\ \A i \in 1 .. Len(dump) :
           /\ Crashes(dump[i].address)
           /\ dump[i].trace # << >> =>
                dump[i].trace[Len(dump[i].trace)].address = dump[i].address
      /\ at = "returned" /\ crashed /\ options.debug_on_crash => Len(dump) = 1
=============================================================================

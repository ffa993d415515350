-------------------------------- MODULE MCDemo --------------------------------
(***************************************************************************)
(* The demo with a program whose interrupt handler returns for an arrow    *)
(* key, crashes on return and stores to no region for the zero.            *)
(***************************************************************************)
EXTENDS DemoRunner, MCIrq

(* LDA $4002; CMP #13; JEQ crash; CMP #48; JEQ wild; then the mended return
   of MCIrq; crash: CRS; wild: STA $5000. *)
Handler == At(\h9000,
  <<\h50, 2, \h40, \h11, 13, \h12, \h19, \h90, \h11, 48, \h12, \h1A, \h90,
    \hC1, \h22, \hFB, \h30, \hC1, \hC9, \h21, 1, \hC0, \h31, \hC0, \hE6,
    \hFF, \h51, 0, \h50>>)
Main0 == \h8202
Demo == At(\h81FD, Enable \o <<\hD3, 2, \h82>>) @@ Handler @@ Vector

(* The default options at a high frame rate (2 cycles per frame), a slice
   given by hand, a rate that leaves no cycle for a frame, and options the
   constructor rejects. *)
DemoOptions ==
  {[fps |-> 50000, scale |-> 2, cycles_per_frame |-> 0,
    debug_on_crash |-> FALSE, trace_size |-> 0],
   [fps |-> 30, scale |-> 2, cycles_per_frame |-> 3,
    debug_on_crash |-> TRUE, trace_size |-> 3],
   [fps |-> 200000, scale |-> 2, cycles_per_frame |-> 0,
    debug_on_crash |-> TRUE, trace_size |-> 3],
   [fps |-> 0, scale |-> 2, cycles_per_frame |-> 3,
    debug_on_crash |-> TRUE, trace_size |-> 3]}
DemoKeyboard == {SDLK_UP, SDLK_RETURN, SDLK_0}

-----------------------------------------------------------------------------
(* The instructions that may follow the one at an address, interrupts left
   aside: read from the program text, not from the simulator. *)
Successors(addr) ==
  LET i == InstructionAt[Demo[addr]]
      target == Demo[addr + 1] + 256 * Demo[addr + 2]
      length == CASE i[2] = "IMP" -> 1 [] i[2] = "IMM" -> 2 [] OTHER -> 3
  IN  CASE i[1] = "JMP" -> {target}
        [] i[1] = "JEQ" -> {target, addr + 3}
        [] i[1] = "RTI" -> {Main0}
        [] i[1] \in {"HLT", "CRS"} -> {}
        [] OTHER -> {addr + length}

(* An entry whose ir is 0 is an interrupt taken at its address. *)
Follows(e, f) == IF e.ir = 0 THEN f.address = \h9000
                             ELSE f.address \in Successors(e.address)

(* The trace is the last instructions of the run in order, across slices and
   interrupts: each entry is a successor of the one before it.  The ir of an
   entry is that of an interrupt or the opcode of the entry before it: it is
   recorded before the instruction is fetched. *)
TraceIsPath ==
  \A i \in 1 .. Len(trace) - 1 :
    /\ Follows(trace[i], trace[i + 1])
    /\ trace[i + 1].ir \in {0, Demo[trace[i].address]}

=============================================================================

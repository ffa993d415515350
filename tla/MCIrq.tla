-------------------------------- MODULE MCIrq --------------------------------
(***************************************************************************)
(* Programs that take keys from the device while the frontend injects them *)
(* between any two ticks.                                                  *)
(***************************************************************************)
EXTENDS Cpu, TLC

CONSTANT Entry  \* the cartridge's entry point

At(addr, bytes) == [m \in addr .. addr + Len(bytes) - 1 |-> bytes[m - addr + 1]]

(* LDA #1; STA $4001: enable the device's interrupt. *)
Enable == <<\h10, 1, \h51, 1, \h40>>
Vector == At(\hFFFE, <<0, \h90>>)

(* A handler that stores the key and returns: LDA $4002; STA $10; RTI. *)
Plain == At(\h9000, <<\h50, 2, \h40, \h41, \h10, \hE6>>)

(* One that also mends its stack frame, whose status has I set and whose
   address is one past the interrupted opcode: LDA $4002; STA $10; PLA;
   AND #$FB; TAX; PLA; SEC; SBC #1; PHA; TXA; PHA; RTI. *)
Mending == At(\h9000, <<\h50, 2, \h40, \h41, \h10, \hC1, \h22, \hFB, \h30, \hC1,
                       \hC9, \h21, 1, \hC0, \h31, \hC0, \hE6>>)

(* main: PHA; PLA; JMP main *)
Main == At(\h81FD, Enable \o <<\hC0, \hC1, \hD3, 2, \h82>>)
Echo == Main @@ Mending @@ Vector

(* The addresses Echo's instructions lie at. *)
EchoInstructions ==
  {\h81FD, \h81FF, \h8202, \h8203, \h8204, \h9000, \h9003, \h9005, \h9006, \h9008,
   \h9009, \h900A, \h900B, \h900D, \h900E, \h900F, \h9010}

(* The plain handler under a main loop that survives its return, as its
   operand bytes are instructions too: NOP; JMP main; NOP; JMP main. *)
Masked == At(\h81FD, Enable \o <<2, \hD3, 2, \h82, 2, \hD3, 2, \h82>>)
            @@ Plain @@ Vector

(* The program of docs/projects/interrupts.md, on the input device: main:
   INC $0000; JMP main, with a handler that reads the device, increments
   $0001 and returns. *)
Counting == At(\h81FD, Enable \o <<\h64, 0, 0, \hD3, 2, \h82>>)
              @@ At(\h9000, <<\h50, 2, \h40, \h64, 1, 0, \hE6>>) @@ Vector
CountingMain == {\h8202, \h8205}

StartImages ==
  {[reg |-> [r \in Registers |->
               CASE r = "pc" -> Entry
                 [] r = "ir" -> Cartridge[Entry]
                 [] OTHER -> 0],
    ram |-> << >>]}

(* The main loop and one interrupt need four bytes of stack: interrupts do
   not nest, and every entry is undone by its RTI. *)
StackBalanced == AsByte(0 - reg["sp"]) <= 4

(* Wherever interrupts strike, the CPU only ever starts at instructions of
   the program: interrupt entry and return tear no instruction apart, no bus
   has two writers or none for a reader, and no store goes astray. *)
StaysOnTrack == ~fault /\ (AtBoundary => reg["pc"] \in EchoInstructions)

(* RTI brings the CPU back to an instruction of the main program. *)
RtiReturnsToMain ==
  AtBoundary /\ ~inject /\ reg["ir"] = Opcode(<<"RTI", "IMP">>) =>
    reg["pc"] \in CountingMain
=============================================================================

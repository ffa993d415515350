------------------------------- MODULE CpuIsa -------------------------------
(***************************************************************************)
(* The ticking CPU against the instruction set it is meant to execute.     *)
(* `arch` remembers what the programmer saw at the last instruction        *)
(* boundary; it changes when the step counter is back at zero at the end   *)
(* of a tick, and then it must have made a step of Isa.                    *)
(***************************************************************************)
EXTENDS Cpu

CONSTANT MaxInstructions  \* instructions executed per behaviour

ASSUME MaxInstructionsAssumption == MaxInstructions \in Nat \ {0}

VARIABLES arch, executed

isaVars == <<vars, arch, executed>>

ArchOf(r, m, h, c) ==
  [a |-> r["a"], x |-> r["x"], y |-> r["y"], sp |-> r["sp"], pc |-> r["pc"],
   p |-> Flags(r["status"]), ram |-> m, halted |-> h, crashed |-> c]

IsaInit ==
  /\ Init
  /\ arch = ArchOf(reg, ram, FALSE, FALSE)
  /\ executed = 0

(* A tick that ends with the step counter at zero ends an instruction. *)
IsaNext ==
  /\ executed < MaxInstructions
  /\ Tick
  /\ IF phase = "Clear" /\ reg["sc"] = 0
       THEN arch' = ArchOf(reg, ram, halted, crashed) /\ executed' = executed + 1
       ELSE UNCHANGED <<arch, executed>>

IsaSpec == IsaInit /\ [][IsaNext]_isaVars /\ WF_isaVars(IsaNext)

Isa == INSTANCE Isa WITH Load <- Stored, s <- arch

(* Every instruction's microcode, run through registers, buses, ALU and
   memory tick by tick, does what the instruction set says and nothing else:
   no addressing mode, flag or page crossing differs, whatever the previous
   instruction left in the internal registers. *)
ImplementsIsa == Isa!Spec

(* Every instruction comes to an end: its microcode leads the step counter
   back to zero whatever the flags are. *)
EveryInstructionCompletes == <>(executed = MaxInstructions \/ halted)

(* The instruction a step of arch executes. *)
Mnemonic == InstructionAt[Isa!Opcode1(arch)][1]

(* SBC lists V, "Set if signed overflow", among its flags_affected: it is set
   exactly when the signed difference does not fit. *)
SbcOverflow ==
  [][Mnemonic = "SBC" =>
       LET v == Signed(arch.a)
                  - Signed(Stored(arch.ram, Isa!EffectiveAddress(arch,
                             InstructionAt[Isa!Opcode1(arch)][2])))
                  - (1 - Isa!Carry(arch.p))
       IN  ("overflow" \in arch'.p) = (v < -128 \/ v > 127)]_arch
=============================================================================

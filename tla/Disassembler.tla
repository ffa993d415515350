----------------------------- MODULE Disassembler -----------------------------
(***************************************************************************)
(* Disassemble of sim/src/disassembler.cpp: a sweep over the cartridge     *)
(* from its first byte that takes every byte it stands on for an opcode.   *)
(* A line of the listing is written as the statement the assembler parses  *)
(* it into.                                                                *)
(***************************************************************************)
EXTENDS Bytes, InstructionSet, SequencesExt

ModeBytes(mode) ==
  CASE mode = "IMP" -> 0
    [] mode \in {"ABS", "IND", "ABX", "ABY"} -> 2
    [] OTHER -> 1

(* BuildLabelMap: an address is listed under one of its labels, the one the
   hash table happens to deliver first. *)
LabelMaps(symbols) ==
  LET at(a) == {name \in DOMAIN symbols : symbols[name] = a}
      labelled == {symbols[name] : name \in DOMAIN symbols}
  IN  {f \in [labelled -> DOMAIN symbols] : \A a \in labelled : f[a] \in at(a)}

NumberOperand(n, mode) ==
  [kind |-> "number", number |-> n, immediate |-> mode = "IMM",
   indirect |-> mode \in {"IND", "IZX", "IZY"},
   index_register |-> CASE mode \in {"ZPX", "ABX", "IZX"} -> "X"
                        [] mode \in {"ZPY", "ABY", "IZY"} -> "Y"
                        [] OTHER -> "none"]
LabelOperand(name, mode) ==
  LET n == NumberOperand(0, mode)
  IN  [kind |-> "label", label |-> name, immediate |-> n.immediate,
       indirect |-> n.indirect, index_register |-> n.index_register]

(* Mutant: a branch target is counted from the branch. *)
TargetOfBranch(mode, bytes, address) ==
  IF mode = "REL" THEN AsWord(address + Signed(bytes[1]))
  ELSE MakeWord(bytes[2], bytes[1])

Target(mode, bytes, address) ==
  IF mode = "REL" THEN AsWord(address + 2 + Signed(bytes[1]))
  ELSE MakeWord(bytes[2], bytes[1])

(* FormatOperand: full addresses and branch targets by name if they have one,
   zero page addresses never. *)
FormatOperand(mode, bytes, address, labels) ==
  IF ModeBytes(mode) = 0 THEN << >>
  ELSE IF ModeBytes(mode) = 1 /\ mode # "REL" THEN <<NumberOperand(bytes[1], mode)>>
  ELSE LET target == Target(mode, bytes, address)
       IN  IF target \in DOMAIN labels THEN <<LabelOperand(labels[target], mode)>>
           ELSE <<NumberOperand(target, mode)>>

(* The line for the byte at rom[i]: an opcode whose operand is there in full,
   or a .byte. *)
Line(rom, i, address, labels) ==
  LET known == rom[i] \in Opcodes
      instruction == InstructionAt[rom[i]]
      size == ModeBytes(instruction[2])
  IN  IF known /\ i + size <= Len(rom)
      THEN [stmt |-> [kind |-> "instruction", mnemonic |-> instruction[1],
                      operands |-> FormatOperand(instruction[2],
                                     SubSeq(rom, i + 1, i + size), address, labels)],
            size |-> 1 + size]
      ELSE [stmt |-> [kind |-> "byte", operands |-> <<NumberOperand(rom[i], "ZP")>>],
            size |-> 1]

Declared(address, labels) ==
  IF address \in DOMAIN labels THEN <<[kind |-> "label", name |-> labels[address]]>>
  ELSE << >>

RECURSIVE Sweep(_, _, _, _)
Sweep(rom, i, address, labels) ==
  IF i > Len(rom) THEN << >>
  ELSE LET line == Line(rom, i, address, labels)
       IN  Declared(address, labels) \o <<line.stmt>>
             \o Sweep(rom, i + line.size, AsWord(address + line.size), labels)

Disassemble(rom, origin, labels) ==
  <<[kind |-> "org", operands |-> <<NumberOperand(origin, "ABS")>>]>>
    \o Sweep(rom, 1, origin, labels)
=============================================================================

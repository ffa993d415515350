------------------------------ MODULE Assembler ------------------------------
(***************************************************************************)
(* The two passes of assembler/src/assembler.cpp over a parsed program:    *)
(* FirstPass gives every statement its address and collects labels and     *)
(* constants; Encode fills the cartridge and records which source each     *)
(* byte comes from.  AssembleFile puts the include processor before them.  *)
(***************************************************************************)
EXTENDS Bytes, InstructionSet, SequencesExt

VARIABLES
  options,      \* origin and rom_size
  program,      \* the statements
  stage,        \* "parse", "include", "first_pass", "encode", "done" or,
                \* after a throw, "error"
  next,         \* the statement or the item to look at next
  cursor, items, symbols, constants, max_address,  \* FirstPassResult
  rom, records  \* the cartridge and the DebugRecords

pass == <<cursor, items, symbols, constants, max_address>>
vars == <<options, program, stage, next, pass, rom, records>>

LastAddress == 65535

(* FirstPassResult, before anything is assembled. *)
Init ==
  /\ options \in [origin : Word, rom_size : Nat]
  /\ program = << >>
  /\ stage = "parse"
  /\ next = 1
  /\ cursor = options.origin
  /\ max_address = options.origin
  /\ items = << >>
  /\ symbols = << >>
  /\ constants = << >>
  /\ rom = << >>
  /\ records = << >>

(* A Program of assembler/ast.h without includes.  What a name or a mnemonic
   is does not matter here. *)
IsSequence(seq) == seq \in Seq(Range(seq))
IsOperandNode(op) ==
  /\ op.kind \in {"number", "label"}
  /\ op.kind = "number" => op.number \in Nat
  /\ op.immediate \in BOOLEAN /\ op.indirect \in BOOLEAN
  /\ op.index_register \in {"none", "X", "Y"}
IsStatementNode(stmt) ==
  /\ stmt.kind \in {"label", "equ", "org", "byte", "instruction"}
  /\ stmt.kind = "equ" => stmt.value \in Nat
  /\ stmt.kind \in {"org", "byte", "instruction"} =>
       IsSequence(stmt.operands) /\ \A op \in Range(stmt.operands) : IsOperandNode(op)
IsProgram(statements) ==
  IsSequence(statements) /\ \A stmt \in Range(statements) : IsStatementNode(stmt)

With(f, x, v) == [y \in DOMAIN f \cup {x} |-> IF y = x THEN v ELSE f[y]]

-----------------------------------------------------------------------------
(* SelectInstruction: the addressing modes an operand may stand for, in
   order of preference.  Only a literal is taken for a zero page address. *)
Relative == {"BEQ", "BNE", "BCS", "BCC", "BMI", "BPL", "BVS", "BVC"}

IndirectModes == [none |-> <<"IND">>, X |-> <<"IZX">>, Y |-> <<"IZY">>]
DirectModes(op) ==
  LET either(zp, abs) ==
        IF op.kind = "number" /\ op.number <= 255 THEN <<zp, abs>> ELSE <<abs>>
  IN  [none |-> IF op.kind = "label" THEN <<"ABS", "ZP">> ELSE either("ZP", "ABS"),
       X |-> either("ZPX", "ABX"),
       Y |-> either("ZPY", "ABY")]

OperandModes(mnemonic, op) ==
  IF mnemonic \in Relative THEN IF op.immediate THEN << >> ELSE <<"REL">>
  ELSE IF op.indirect THEN IndirectModes[op.index_register]
  ELSE IF op.immediate THEN <<"IMM">>
  ELSE DirectModes(op)[op.index_register]

Candidates(stmt) ==
  IF stmt.operands = << >> THEN <<"IMP">>
  ELSE IF Len(stmt.operands) > 1 THEN << >>
  ELSE OperandModes(stmt.mnemonic, stmt.operands[1])

(* The first of them the mnemonic has, 0 if it has none or is unknown. *)
Selected(stmt) ==
  SelectInSeq(Candidates(stmt), LAMBDA mode : <<stmt.mnemonic, mode>> \in Instructions)

SelectInstruction(stmt) == <<stmt.mnemonic, Candidates(stmt)[Selected(stmt)]>>

OperandBytes(mode) ==
  CASE mode = "IMP" -> 0
    [] mode \in {"ABS", "IND", "ABX", "ABY"} -> 2
    [] mode \in {"IMM", "ZP", "ZPX", "ZPY", "IZX", "IZY", "REL"} -> 1

-----------------------------------------------------------------------------
(* FirstPass. *)

Size(stmt) == IF stmt.kind = "byte" THEN Len(stmt.operands)
              ELSE 1 + OperandBytes(SelectInstruction(stmt)[2])

(* What FirstPass does not throw at.  A constant must not have the name of a
   label declared before it; a label may have the name of a constant. *)
Acceptable(stmt) ==
  CASE stmt.kind = "label" -> stmt.name \notin DOMAIN symbols /\ cursor <= LastAddress
    [] stmt.kind = "equ" -> stmt.name \notin DOMAIN constants \cup DOMAIN symbols
    [] stmt.kind = "org" -> /\ Len(stmt.operands) = 1
                            /\ stmt.operands[1].kind = "number"
                            /\ stmt.operands[1].number \in options.origin .. LastAddress
    [] stmt.kind = "byte" -> /\ stmt.operands # << >>
                             /\ cursor + Size(stmt) - 1 <= LastAddress
    [] stmt.kind = "instruction" -> /\ Selected(stmt) # 0
                                    /\ cursor + Size(stmt) - 1 <= LastAddress

Statement == program[next]

Throw ==
  /\ stage' = "error"
  /\ UNCHANGED <<options, program, next, pass, rom, records>>

RefuseStatement ==
  /\ stage = "first_pass" /\ next \in DOMAIN program
  /\ ~Acceptable(Statement)
  /\ Throw

(* The source has been parsed, or not. *)
SourceParsed ==
  /\ stage = "parse"
  /\ stage' = "include"
  /\ UNCHANGED <<options, program, next, pass, rom, records>>

SourceRejected == stage = "parse" /\ Throw

(* FirstPass is called. *)
BeginFirstPass(statements) ==
  /\ stage = "include" /\ IsProgram(statements)
  /\ program' = statements
  /\ stage' = "first_pass"
  /\ UNCHANGED <<options, next, pass, rom, records>>

(* FirstPass accepts a statement of the given kind. *)
Accept(kind) ==
  /\ stage = "first_pass" /\ next \in DOMAIN program
  /\ Statement.kind = kind /\ Acceptable(Statement)
  /\ next' = next + 1
  /\ UNCHANGED <<options, program, stage, rom, records>>

LabelDecl ==
  /\ Accept("label")
  /\ symbols' = With(symbols, Statement.name, cursor)
  /\ UNCHANGED <<cursor, items, constants, max_address>>

EquDecl ==
  /\ Accept("equ")
  /\ constants' = With(constants, Statement.name, Statement.value)
  /\ UNCHANGED <<cursor, items, symbols, max_address>>

Org ==
  /\ Accept("org")
  /\ cursor' = Statement.operands[1].number
  /\ UNCHANGED <<items, symbols, constants, max_address>>

(* An item is placed at the cursor, which moves behind it. *)
Emit(instruction) ==
  /\ items' = Append(items, [address |-> cursor, instruction |-> instruction,
                             operands |-> Statement.operands, statement |-> next])
  /\ cursor' = cursor + Size(Statement)
  /\ max_address' = IF cursor' - 1 > max_address THEN cursor' - 1 ELSE max_address
  /\ UNCHANGED <<symbols, constants>>

ByteDirective == Accept("byte") /\ Emit(<< >>)
InstructionStmt == Accept("instruction") /\ Emit(SelectInstruction(Statement))

-----------------------------------------------------------------------------
(* Encode. *)

Fill == 255

BeginEncode ==
  /\ stage = "first_pass" /\ next = Len(program) + 1
  /\ IF max_address - options.origin > options.rom_size
       THEN Throw
       ELSE /\ stage' = "encode"
            /\ next' = 1
            /\ rom' = [offset \in 0 .. options.rom_size - 1 |-> Fill]
            /\ UNCHANGED <<options, program, pass, records>>

(* The value of an operand, if it has one in range: constants come before
   labels. *)
Named(name) ==
  IF name \in DOMAIN constants THEN {constants[name]}
  ELSE IF name \in DOMAIN symbols THEN {symbols[name]} ELSE {}
Resolve(op, limit) ==
  {n \in (IF op.kind = "number" THEN {op.number} ELSE Named(op.label)) : n <= limit}
ResolveByteOperand(op) == Resolve(op, 255)
ResolveWordOperand(op) == Resolve(op, 65535)

(* Mutant: a branch counts from its own address. *)
ResolveFromBranch(op, address) ==
  {AsByte(t - address) :
     t \in {n \in ResolveWordOperand(op) : n - address \in -128 .. 127}}

(* A branch counts from the instruction behind it. *)
ResolveRelativeOperand(op, address) ==
  LET base == address + 2
  IN  {AsByte(t - base) :
         t \in {n \in ResolveWordOperand(op) : n - base \in -128 .. 127}}

(* Mutant: the high byte of a word comes first. *)
WordBytesSwapped(n) == <<high(n), low(n)>>

WordBytes(n) == <<low(n), high(n)>>

(* The bytes of an item, unless an operand cannot be resolved. *)
BytesOf(item) ==
  LET op == item.operands[1]
      mode == item.instruction[2]
      opcode == Opcode(item.instruction)
      size == OperandBytes(mode)
  IN  IF item.instruction = << >>
      THEN IF \E o \in Range(item.operands) : ResolveByteOperand(o) = {} THEN {}
           ELSE {[k \in DOMAIN item.operands |->
                    CHOOSE n \in ResolveByteOperand(item.operands[k]) : TRUE]}
      ELSE IF size = 0 THEN {<<opcode>>}
      ELSE IF size = 2
      THEN {<<opcode>> \o WordBytes(n) : n \in ResolveWordOperand(op)}
      ELSE {<<opcode, n>> : n \in IF mode = "REL"
                                  THEN ResolveRelativeOperand(op, item.address)
                                  ELSE ResolveByteOperand(op)}

Offset(item) == item.address - options.origin

(* Mutant: every byte of an item is recorded at the item's address. *)
RecordsAtStart(item, bytes) ==
  [k \in DOMAIN bytes |->
     [address |-> item.address, rom_offset |-> Offset(item),
      statement |-> item.statement]]

(* AddRecord, for every byte of an item. *)
RecordsOf(item, bytes) ==
  [k \in DOMAIN bytes |->
     [address |-> AsWord(item.address + k - 1), rom_offset |-> Offset(item) + k - 1,
      statement |-> item.statement]]

(* Mutant: the last byte of an item may lie behind the cartridge. *)
EncodableLoosely(item) ==
  /\ item.address >= options.origin
  /\ \E bytes \in BytesOf(item) : Offset(item) + Len(bytes) <= options.rom_size + 1

Encodable(item) ==
  /\ item.address >= options.origin
  /\ \E bytes \in BytesOf(item) : Offset(item) + Len(bytes) <= options.rom_size

RefuseItem ==
  /\ stage = "encode" /\ next \in DOMAIN items
  /\ ~Encodable(items[next])
  /\ Throw

EncodeItem ==
  /\ stage = "encode" /\ next \in DOMAIN items
  /\ Encodable(items[next])
  /\ \E bytes \in BytesOf(items[next]) :
       LET at(offset) == offset - Offset(items[next]) + 1
       IN  /\ rom' = [offset \in DOMAIN rom |-> IF at(offset) \in DOMAIN bytes
                                                 THEN bytes[at(offset)] ELSE rom[offset]]
           /\ records' = records \o RecordsOf(items[next], bytes)
  /\ next' = next + 1
  /\ UNCHANGED <<options, program, stage, pass>>

Finish ==
  /\ stage = "encode" /\ next = Len(items) + 1
  /\ stage' = "done"
  /\ UNCHANGED <<options, program, next, pass, rom, records>>

Next ==
  \/ RefuseStatement
  \/ LabelDecl
  \/ EquDecl
  \/ Org
  \/ ByteDirective
  \/ InstructionStmt
  \/ BeginEncode
  \/ RefuseItem
  \/ EncodeItem
  \/ Finish

(* Assemble, of any program. *)
Assemble ==
  \/ SourceParsed
  \/ SourceRejected
  \/ \E statements : BeginFirstPass(statements)
  \/ Next

AssembleSpec == Init /\ [][Assemble]_vars

(* EncodeDebugJson, pc_to_source: the first record of each address. *)
PcToSource ==
  [address \in {r.address : r \in Range(records)} |->
     records[SelectInSeq(records, LAMBDA r : r.address = address)].statement]

-----------------------------------------------------------------------------
(***************************************************************************)
(* Properties.                                                             *)
(***************************************************************************)

Source(item) == program[item.statement]
Addresses(item) == item.address .. item.address + Size(Source(item)) - 1
Overwritten(i) ==
  \E j \in i + 1 .. Len(items) : Addresses(items[i]) \cap Addresses(items[j]) # {}

(* What the CPU takes for the operand of the instruction at an address. *)
Decoded(address, mode) ==
  LET byte(k) == rom[address + k - options.origin]
  IN  IF mode = "REL" THEN AsWord(address + 2 + Signed(byte(1)))
      ELSE IF OperandBytes(mode) = 1 THEN byte(1)
      ELSE MakeWord(byte(2), byte(1))

Meant(op) ==
  IF op.kind = "number" THEN op.number
  ELSE IF op.label \in DOMAIN constants THEN constants[op.label]
  ELSE symbols[op.label]

(* The instruction whose opcode the cartridge holds for an item. *)
InRom(item) == InstructionAt[rom[Offset(item)]]

(* The cartridge, disassembled at the place of any statement that no later
   one overwrites, gives back the statement: mnemonic, operand and branch
   target.  All else is fill. *)
ImageMatchesSource ==
  stage = "done" =>
    /\ \A i \in DOMAIN items :
         LET item == items[i]  stmt == Source(item)
         IN  Overwritten(i) \/
               IF stmt.kind = "byte"
               THEN \A k \in DOMAIN stmt.operands :
                      rom[Offset(item) + k - 1] = Meant(stmt.operands[k])
               ELSE /\ InRom(item)[1] = stmt.mnemonic
                    /\ stmt.operands # << >> =>
                         Decoded(item.address, InRom(item)[2]) = Meant(stmt.operands[1])
    /\ \A offset \in DOMAIN rom :
         (\A item \in Range(items) : options.origin + offset \notin Addresses(item))
           => rom[offset] = Fill

(* An operand that names a label reaches, through the cartridge, the first
   item behind the label, whether that stands before or after its use. *)
LabelsReachCode ==
  stage = "done" =>
    \A i, j \in DOMAIN items, k \in DOMAIN program :
      LET use == Source(items[i])
      IN  ( /\ use.kind = "instruction" /\ use.operands # << >>
            /\ ~Overwritten(i)
            /\ program[k].kind = "label"
            /\ use.operands[1].kind = "label" /\ use.operands[1].label = program[k].name
            /\ program[k].name \notin DOMAIN constants
            /\ items[j].statement > k
            /\ \A s \in k + 1 .. items[j].statement - 1 :
                 program[s].kind \in {"label", "equ"} )
          => Decoded(items[i].address, InRom(items[i])[2]) = items[j].address

(* The size check of Encode lets one byte too many pass, but no item is
   accepted that reaches behind the cartridge or the address space. *)
ItemsFit ==
  stage = "done" =>
    \A item \in Range(items) :
      Addresses(item) \subseteq
        options.origin .. (options.origin + options.rom_size - 1)
        \cap 0 .. LastAddress

(* pc_to_source names, for every byte, a statement that emitted it (where .org
   goes back over code, the first that did), and nothing for the fill. *)
SourceMapNamesWriter ==
  stage = "done" =>
    \A address \in options.origin .. options.origin + options.rom_size - 1 :
      LET writers == {item.statement : item \in {t \in Range(items) :
                                                    address \in Addresses(t)}}
      IN  IF writers = {} THEN address \notin DOMAIN PcToSource
          ELSE /\ address \in DOMAIN PcToSource
               /\ PcToSource[address] \in writers

=============================================================================

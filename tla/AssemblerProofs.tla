--------------------------- MODULE AssemblerProofs ---------------------------
(***************************************************************************)
(* What both passes of the assembler promise, for every program, origin    *)
(* and cartridge size.                                                     *)
(***************************************************************************)
EXTENDS Assembler, NaturalNumbers, TLAPS

(* The statements FirstPass has gone through. *)
Seen == IF stage \in {"encode", "done"} THEN Len(program) ELSE next - 1

(* The byte that an item should put at its k-th place, and whether its
   operands allow it. *)
Argument(item) == Meant(item.operands[1])
ByteOf(item, k) ==
  IF item.instruction = << >> THEN Meant(item.operands[k])
  ELSE IF k = 1 THEN Opcode(item.instruction)
  ELSE IF k = 3 THEN high(Argument(item))
  ELSE IF OperandBytes(item.instruction[2]) = 2 THEN low(Argument(item))
  ELSE IF item.instruction[2] = "REL" THEN AsByte(Argument(item) - (item.address + 2))
  ELSE Argument(item)

InRange(item) ==
  LET size == OperandBytes(item.instruction[2])
  IN  /\ item.instruction # << >> /\ size = 2 => Argument(item) \in Word
      /\ item.instruction # << >> /\ item.instruction[2] = "REL" =>
           /\ Argument(item) \in Word
           /\ Argument(item) - (item.address + 2) \in -128 .. 127

-----------------------------------------------------------------------------
(***************************************************************************)
(* The inductive invariant.                                                *)
(***************************************************************************)

(* What FirstPass has collected. *)
StateInv ==
  /\ options \in [origin : Word, rom_size : Nat]
  /\ stage \in {"parse", "include", "first_pass", "encode", "done"}
  /\ IsProgram(program) /\ IsSequence(items)
  /\ next \in Nat /\ next >= 1
  /\ stage \in {"parse", "include"} => next = 1 /\ items = << >> /\ program = << >>
  /\ stage = "first_pass" => next <= Len(program) + 1
  /\ stage \in {"parse", "include", "first_pass"} => records = << >>
  /\ cursor \in Nat /\ options.origin <= cursor /\ cursor <= LastAddress + 1
  /\ \A name \in DOMAIN symbols : symbols[name] \in Nat
  /\ \A name \in DOMAIN constants : constants[name] \in Nat

(* An item stands for a statement that FirstPass has seen, within the address
   space. *)
IsItem(item) ==
  LET stmt == Source(item)
  IN  /\ item.statement \in 1 .. Seen
      /\ stmt.kind \in {"byte", "instruction"}
      /\ item.operands = stmt.operands
      /\ stmt.kind = "byte" => stmt.operands # << >> /\ item.instruction = << >>
      /\ stmt.kind = "instruction" =>
           Selected(stmt) # 0 /\ item.instruction = SelectInstruction(stmt)
      /\ item.address \in Nat /\ options.origin <= item.address
      /\ item.address + Size(stmt) - 1 <= LastAddress
ItemsInv == \A i \in DOMAIN items : IsItem(items[i])

(* A label has the address of what is emitted next, if only labels and
   constants stand between. *)
Between(k, n) == \A s \in k + 1 .. n - 1 : program[s].kind \in {"label", "equ"}
LabelsInv ==
  \A k \in 1 .. Seen :
    program[k].kind = "label" =>
      /\ program[k].name \in DOMAIN symbols
      /\ stage = "first_pass" /\ Between(k, next) => symbols[program[k].name] = cursor
      /\ \A j \in DOMAIN items :
           items[j].statement > k /\ Between(k, items[j].statement) =>
             symbols[program[k].name] = items[j].address

(* Encode has put every item up to next into the cartridge, where the later
   ones may have overwritten it, and recorded all it has put there. *)
Spared(i, address) ==
  \A j \in i + 1 .. next - 1 : address \notin Addresses(items[j])
RomInv ==
  /\ next <= Len(items) + 1
  /\ stage = "done" => next = Len(items) + 1
  /\ DOMAIN rom = 0 .. options.rom_size - 1
  /\ \A i \in 1 .. next - 1 :
       LET item == items[i]
       IN  /\ Offset(item) + Size(Source(item)) <= options.rom_size
           /\ InRange(item)
           /\ \A k \in 1 .. Size(Source(item)) :
                Spared(i, item.address + k - 1) =>
                  rom[Offset(item) + k - 1] = ByteOf(item, k)
  /\ \A offset \in DOMAIN rom : Spared(0, options.origin + offset) => rom[offset] = Fill
RecordsInv ==
  /\ IsSequence(records)
  /\ \A r \in DOMAIN records : \E i \in 1 .. next - 1 :
       /\ records[r].statement = items[i].statement
       /\ records[r].address \in Addresses(items[i])
  /\ \A i \in 1 .. next - 1 : \A address \in Addresses(items[i]) :
       \E r \in DOMAIN records : records[r].address = address

AssemblerInv ==
  stage # "error" =>
    /\ StateInv
    /\ ItemsInv
    /\ LabelsInv
    /\ stage \in {"encode", "done"} => RomInv /\ RecordsInv

-----------------------------------------------------------------------------
(* Sequences. *)

LEMMA SequenceFacts ==
  ASSUME NEW seq, IsSequence(seq)
  PROVE  /\ Len(seq) \in Nat /\ DOMAIN seq = 1 .. Len(seq)
         /\ \A k \in 1 .. Len(seq) : seq[k] \in Range(seq)
         /\ seq = << >> <=> Len(seq) = 0
  BY DEF IsSequence

LEMMA SequenceOf ==
  ASSUME NEW S, NEW seq \in Seq(S)
  PROVE  IsSequence(seq)
  BY DEF IsSequence, Range

LEMMA AppendFacts ==
  ASSUME NEW seq, IsSequence(seq), NEW e
  PROVE  /\ IsSequence(Append(seq, e))
         /\ Len(Append(seq, e)) = Len(seq) + 1
         /\ DOMAIN Append(seq, e) = 1 .. Len(seq) + 1
         /\ Append(seq, e)[Len(seq) + 1] = e
         /\ \A k \in 1 .. Len(seq) : Append(seq, e)[k] = seq[k]
<1> DEFINE S == Range(seq) \cup {e}
<1>1. seq \in Seq(S) /\ e \in S
  BY DEF IsSequence
<1> HIDE DEF S
<1>2. Append(seq, e) \in Seq(S)
  BY <1>1
<1>3. IsSequence(Append(seq, e))
  BY <1>2, SequenceOf
<1> QED
  BY <1>1, <1>3

LEMMA JoinFacts ==
  ASSUME NEW s, NEW t, IsSequence(s), IsSequence(t)
  PROVE  /\ IsSequence(s \o t)
         /\ Len(s \o t) = Len(s) + Len(t)
         /\ \A k \in 1 .. Len(s) : (s \o t)[k] = s[k]
         /\ \A k \in 1 .. Len(t) : (s \o t)[Len(s) + k] = t[k]
<1> DEFINE S == Range(s) \cup Range(t)
<1>1. s \in Seq(S) /\ t \in Seq(S)
  BY DEF IsSequence
<1> HIDE DEF S
<1>2. s \o t \in Seq(S)
  BY <1>1
<1>3. IsSequence(s \o t)
  BY <1>2, SequenceOf
<1> QED
  BY <1>1, <1>3

LEMMA EmptySequence == IsSequence(<< >>) /\ IsProgram(<< >>) /\ Len(<< >>) = 0
  BY DEF IsSequence, IsProgram, Range

-----------------------------------------------------------------------------
(* Instructions and their sizes. *)

LEMMA MinFacts ==
  ASSUME NEW I, I \subseteq Nat, I # {}
  PROVE  Min(I) \in I /\ \A y \in I : Min(I) <= y
  BY LeastNatural DEF Min

ArgumentModes == {"ABS", "IND", "ABX", "ABY", "IMM", "ZP", "ZPX", "ZPY", "IZX", "IZY", "REL"}

LEMMA ModeSizes ==
  /\ OperandBytes("IMP") = 0
  /\ \A mode \in ArgumentModes :
       /\ OperandBytes(mode) \in {1, 2}
       /\ mode = "REL" => OperandBytes(mode) = 1
  BY DEF OperandBytes, ArgumentModes

(* The candidates are arguments' modes exactly if there is an argument. *)
LEMMA CandidateModes ==
  ASSUME NEW stmt, IsSequence(stmt.operands), \A op \in Range(stmt.operands) : IsOperandNode(op)
  PROVE  /\ IsSequence(Candidates(stmt))
         /\ \A k \in 1 .. Len(Candidates(stmt)) :
              IF stmt.operands = << >> THEN Candidates(stmt)[k] = "IMP"
              ELSE Len(stmt.operands) = 1 /\ Candidates(stmt)[k] \in ArgumentModes
<1>1. CASE stmt.operands = << >>
  <2>1. Candidates(stmt) = <<"IMP">>
    BY <1>1 DEF Candidates
  <2>2. <<"IMP">> \in Seq({"IMP"}) /\ Len(<<"IMP">>) = 1 /\ <<"IMP">>[1] = "IMP"
    OBVIOUS
  <2>3. IsSequence(<<"IMP">>)
    BY <2>2, SequenceOf
  <2> QED
    BY <1>1, <2>1, <2>2, <2>3
<1>2. CASE Len(stmt.operands) > 1
  <2>1. Candidates(stmt) = << >>
    BY <1>2, EmptySequence DEF Candidates
  <2>2. Len(Candidates(stmt)) = 0 /\ IsSequence(Candidates(stmt))
    BY <2>1, EmptySequence
  <2> QED
    BY <2>2
<1>3. CASE stmt.operands # << >> /\ ~(Len(stmt.operands) > 1)
  <2> DEFINE op == stmt.operands[1]
             modes == OperandModes(stmt.mnemonic, op)
  <2>1. Len(stmt.operands) = 1
    <3> DEFINE n == Len(stmt.operands)
    <3>1. n \in Nat /\ n # 0 /\ ~(n > 1)
      BY <1>3, SequenceFacts
    <3> HIDE DEF n
    <3>2. n = 1
      BY <3>1
    <3> QED
      BY <3>2 DEF n
  <2>2. IsOperandNode(op)
    BY <2>1, SequenceFacts
  <2>3. Candidates(stmt) = modes
    BY <1>3 DEF Candidates
  <2> HIDE DEF op
  <2>4. modes \in Seq(ArgumentModes)
    <3>1. /\ << >> \in Seq(ArgumentModes)
          /\ \A p, q \in ArgumentModes : <<p>> \in Seq(ArgumentModes) /\ <<p, q>> \in Seq(ArgumentModes)
      OBVIOUS
    <3>2. {"ABS", "IND", "ABX", "ABY", "IMM", "ZP", "ZPX", "ZPY", "IZX", "IZY", "REL"} \subseteq ArgumentModes
      BY DEF ArgumentModes
    <3>3. op.index_register \in {"none", "X", "Y"}
      BY <2>2 DEF IsOperandNode
    <3>4. IndirectModes[op.index_register] \in Seq(ArgumentModes)
      <4>1. /\ IndirectModes["none"] = <<"IND">> /\ IndirectModes["X"] = <<"IZX">>
            /\ IndirectModes["Y"] = <<"IZY">>
        BY DEF IndirectModes
      <4> QED
        BY <3>1, <3>2, <3>3, <4>1
    <3>5. DirectModes(op)[op.index_register] \in Seq(ArgumentModes)
      <4>1. CASE op.index_register = "none"
        BY <3>1, <3>2, <4>1 DEF DirectModes
      <4>2. CASE op.index_register = "X"
        BY <3>1, <3>2, <4>2 DEF DirectModes
      <4>3. CASE op.index_register = "Y"
        BY <3>1, <3>2, <4>3 DEF DirectModes
      <4> QED
        BY <3>3, <4>1, <4>2, <4>3
    <3> QED
      BY <3>1, <3>2, <3>4, <3>5 DEF OperandModes
  <2> HIDE DEF modes
  <2> QED
    BY <1>3, <2>1, <2>3, <2>4, SequenceOf
<1> QED
  BY <1>1, <1>2, <1>3, SequenceFacts

LEMMA SelectedMode ==
  ASSUME NEW stmt, IsSequence(stmt.operands), \A op \in Range(stmt.operands) : IsOperandNode(op),
         Selected(stmt) # 0, NEW mode, mode = SelectInstruction(stmt)[2]
  PROVE  /\ SelectInstruction(stmt) = <<stmt.mnemonic, mode>>
         /\ <<stmt.mnemonic, mode>> \in Instructions
         /\ stmt.operands = << >> => mode = "IMP"
         /\ stmt.operands # << >> => Len(stmt.operands) = 1 /\ mode \in ArgumentModes
<1> DEFINE modes == Candidates(stmt)
           I == {k \in 1 .. Len(modes) : <<stmt.mnemonic, modes[k]>> \in Instructions}
<1>1. IsSequence(modes) /\ Len(modes) \in Nat
  BY CandidateModes, SequenceFacts
<1>2. Selected(stmt) = IF I # {} THEN Min(I) ELSE 0
  BY DEF Selected, SelectInSeq
<1> HIDE DEF modes
<1>3. I # {} /\ I \subseteq Nat
  BY <1>1, <1>2
<1> HIDE DEF I
<1>4. Selected(stmt) \in I
  BY <1>2, <1>3, MinFacts
<1>5. mode = modes[Selected(stmt)] /\ SelectInstruction(stmt) = <<stmt.mnemonic, mode>>
  BY DEF SelectInstruction, modes
<1>6. Selected(stmt) \in 1 .. Len(modes) /\ <<stmt.mnemonic, mode>> \in Instructions
  BY <1>4, <1>5 DEF I
<1> QED
  BY <1>5, <1>6, CandidateModes DEF modes

(* What an opcode is read as. *)
LEMMA OpcodeIsRead ==
  ASSUME NEW i \in Instructions
  PROVE  InstructionAt[Opcode(i)] = i
  BY OpcodesDiffer DEF InstructionAt, Opcodes

LEMMA SizeFacts ==
  ASSUME NEW stmt, IsStatementNode(stmt), stmt.kind \in {"byte", "instruction"},
         stmt.kind = "byte" => stmt.operands # << >>,
         stmt.kind = "instruction" => Selected(stmt) # 0
  PROVE  Size(stmt) \in Nat /\ Size(stmt) >= 1
<1>1. IsSequence(stmt.operands) /\ \A op \in Range(stmt.operands) : IsOperandNode(op)
  BY DEF IsStatementNode
<1>2. CASE stmt.kind = "byte"
  BY <1>1, <1>2, SequenceFacts DEF Size
<1>3. CASE stmt.kind = "instruction"
  <2> DEFINE mode == SelectInstruction(stmt)[2]
  <2>1. mode = "IMP" \/ mode \in ArgumentModes
    BY <1>1, <1>3, SelectedMode
  <2>2. OperandBytes(mode) \in {0, 1, 2}
    BY <2>1, ModeSizes
  <2>3. Size(stmt) = 1 + OperandBytes(mode)
    BY <1>3 DEF Size
  <2> HIDE DEF mode
  <2> QED
    BY <2>2, <2>3
<1> QED
  BY <1>2, <1>3

-----------------------------------------------------------------------------
(* Operands and the bytes of an item. *)

LEMMA ResolveFacts ==
  ASSUME StateInv, NEW op, IsOperandNode(op), NEW limit, NEW n \in Resolve(op, limit)
  PROVE  n = Meant(op) /\ n \in Nat /\ n <= limit
<1>1. n <= limit /\ n \in (IF op.kind = "number" THEN {op.number} ELSE Named(op.label))
  BY DEF Resolve
<1>2. CASE op.kind = "number"
  BY <1>1, <1>2 DEF Meant, IsOperandNode
<1>3. CASE op.kind # "number"
  BY <1>1, <1>3 DEF Meant, Named, StateInv
<1> QED
  BY <1>1, <1>2, <1>3

LEMMA SeenFacts ==
  ASSUME StateInv
  PROVE  /\ Seen \in Nat /\ Seen <= Len(program)
         /\ Len(program) \in Nat /\ DOMAIN program = 1 .. Len(program)
         /\ \A k \in 1 .. Seen : IsStatementNode(program[k])
<1>1. Len(program) \in Nat /\ DOMAIN program = 1 .. Len(program)
  BY SequenceFacts DEF StateInv, IsProgram
<1>2. \A k \in 1 .. Len(program) : IsStatementNode(program[k])
  BY <1>1, SequenceFacts DEF StateInv, IsProgram
<1>3. CASE stage \in {"encode", "done"}
  BY <1>1, <1>2, <1>3 DEF Seen
<1>4. CASE stage \in {"parse", "include"}
  <2>1. Len(program) = 0 /\ Seen = 0
    BY <1>4, EmptySequence DEF StateInv, Seen
  <2> QED
    BY <1>1, <1>2, <2>1
<1>5. CASE stage = "first_pass"
  <2>1. Seen = next - 1 /\ next \in Nat /\ next >= 1 /\ next <= Len(program) + 1
    BY <1>5 DEF StateInv, Seen
  <2> HIDE DEF Seen
  <2> QED
    BY <1>1, <1>2, <2>1
<1> QED
  BY <1>3, <1>4, <1>5 DEF StateInv

LEMMA ItemFacts ==
  ASSUME StateInv, NEW item, IsItem(item)
  PROVE  /\ IsStatementNode(Source(item))
         /\ IsSequence(item.operands) /\ \A op \in Range(item.operands) : IsOperandNode(op)
         /\ Size(Source(item)) \in Nat /\ Size(Source(item)) >= 1
         /\ Source(item).kind = "instruction" =>
              \E mode : /\ item.instruction = <<Source(item).mnemonic, mode>>
                        /\ item.instruction \in Instructions
                        /\ Size(Source(item)) = 1 + OperandBytes(mode)
                        /\ item.operands = << >> => mode = "IMP"
                        /\ item.operands # << >> =>
                             Len(item.operands) = 1 /\ mode \in ArgumentModes
<1> DEFINE stmt == Source(item)
<1>1. /\ item.statement \in 1 .. Seen /\ stmt.kind \in {"byte", "instruction"}
      /\ item.operands = stmt.operands
      /\ stmt.kind = "byte" => stmt.operands # << >>
      /\ stmt.kind = "instruction" =>
           Selected(stmt) # 0 /\ item.instruction = SelectInstruction(stmt)
  BY DEF IsItem
<1>2. IsStatementNode(stmt)
  BY <1>1, SeenFacts DEF Source
<1> HIDE DEF stmt
<1>3. IsSequence(stmt.operands) /\ \A op \in Range(stmt.operands) : IsOperandNode(op)
  BY <1>1, <1>2 DEF IsStatementNode
<1>4. Size(stmt) \in Nat /\ Size(stmt) >= 1
  BY <1>1, <1>2, SizeFacts
<1>5. ASSUME stmt.kind = "instruction"
      PROVE  \E mode : /\ item.instruction = <<stmt.mnemonic, mode>>
                       /\ item.instruction \in Instructions
                       /\ Size(stmt) = 1 + OperandBytes(mode)
                       /\ item.operands = << >> => mode = "IMP"
                       /\ item.operands # << >> =>
                            Len(item.operands) = 1 /\ mode \in ArgumentModes
  <2> DEFINE mode == SelectInstruction(stmt)[2]
  <2>1. Size(stmt) = 1 + OperandBytes(mode)
    BY <1>5 DEF Size
  <2> HIDE DEF mode
  <2>2. mode = SelectInstruction(stmt)[2]
    BY DEF mode
  <2>3. /\ SelectInstruction(stmt) = <<stmt.mnemonic, mode>>
        /\ <<stmt.mnemonic, mode>> \in Instructions
        /\ stmt.operands = << >> => mode = "IMP"
        /\ stmt.operands # << >> => Len(stmt.operands) = 1 /\ mode \in ArgumentModes
    BY <1>1, <1>3, <1>5, <2>2, SelectedMode
  <2> QED
    BY <1>1, <1>5, <2>1, <2>3
<1> QED
  BY <1>1, <1>2, <1>3, <1>4, <1>5 DEF stmt

LEMMA DataBytes ==
  ASSUME StateInv, NEW item, IsItem(item), Source(item).kind = "byte", NEW bytes \in BytesOf(item)
  PROVE  /\ IsSequence(bytes) /\ Len(bytes) = Size(Source(item))
         /\ \A k \in 1 .. Len(bytes) : bytes[k] = ByteOf(item, k)
<1> DEFINE ops == item.operands
           n == Len(ops)
           choice(k) == CHOOSE b \in ResolveByteOperand(ops[k]) : TRUE
<1>1. item.instruction = << >> /\ Size(Source(item)) = n
  BY DEF IsItem, Size
<1>2. IsSequence(ops) /\ n \in Nat /\ DOMAIN ops = 1 .. n
  BY ItemFacts, SequenceFacts
<1>3. /\ bytes = [k \in DOMAIN ops |-> choice(k)]
      /\ \A o \in Range(ops) : ResolveByteOperand(o) # {}
  BY <1>1 DEF BytesOf
<1> HIDE DEF ops, n
<1>4. ASSUME NEW k \in 1 .. n PROVE choice(k) = Meant(ops[k])
  <2>1. ops[k] \in Range(ops) /\ IsOperandNode(ops[k])
    BY <1>2, ItemFacts, SequenceFacts DEF ops, n
  <2>2. choice(k) \in Resolve(ops[k], 255)
    BY <1>3, <2>1 DEF ResolveByteOperand
  <2> QED
    BY <2>1, <2>2, ResolveFacts
<1>5. bytes = [k \in 1 .. n |-> choice(k)]
  BY <1>2, <1>3
<1> HIDE DEF choice
<1>6. bytes \in Seq({choice(k) : k \in 1 .. n}) /\ Len(bytes) = n
  BY <1>2, <1>5
<1>7. IsSequence(bytes)
  BY <1>6, SequenceOf
<1> QED
  BY <1>1, <1>4, <1>5, <1>6, <1>7 DEF ByteOf, ops

LEMMA WordBound ==
  ASSUME NEW n \in Nat
  PROVE  /\ n <= 65535 => n \in Word
         /\ n \in Word => n <= LastAddress
         /\ Word \subseteq Nat
<1> DEFINE top == 65535
<1>1. top \in Nat /\ Word = 0 .. top /\ LastAddress = top
  BY DEF Word, LastAddress
<1> HIDE DEF top
<1>2. n <= top => n \in Word
  BY <1>1
<1>3. n \in Word => n <= LastAddress
  BY <1>1
<1>4. Word \subseteq Nat
  BY <1>1
<1> QED
  BY <1>2, <1>3, <1>4 DEF top

LEMMA WordOperand ==
  ASSUME StateInv, NEW op, IsOperandNode(op), NEW n \in ResolveWordOperand(op)
  PROVE  n = Meant(op) /\ n \in Word
<1>1. n \in Resolve(op, 65535)
  BY DEF ResolveWordOperand
<1>2. n = Meant(op) /\ n \in Nat /\ n <= 65535
  BY <1>1, ResolveFacts
<1> QED
  BY <1>2, WordBound

LEMMA CodeBytes ==
  ASSUME StateInv, NEW item, IsItem(item), Source(item).kind = "instruction",
         NEW bytes \in BytesOf(item)
  PROVE  /\ IsSequence(bytes) /\ Len(bytes) = Size(Source(item)) /\ InRange(item)
         /\ \A k \in 1 .. Len(bytes) : bytes[k] = ByteOf(item, k)
<1> DEFINE opcode == Opcode(item.instruction)
           op == item.operands[1]
           value == Argument(item)
<1>1. PICK mode : /\ item.instruction = <<Source(item).mnemonic, mode>>
                  /\ Size(Source(item)) = 1 + OperandBytes(mode)
                  /\ item.operands = << >> => mode = "IMP"
                  /\ item.operands # << >> =>
                       Len(item.operands) = 1 /\ mode \in ArgumentModes
  BY ItemFacts
<1>2. item.instruction # << >> /\ item.instruction[2] = mode
  BY <1>1
<1>3. item.operands # << >> => IsOperandNode(op)
  <2> SUFFICES ASSUME item.operands # << >> PROVE IsOperandNode(op)
    OBVIOUS
  <2>1. IsSequence(item.operands) /\ Len(item.operands) = 1
    BY <1>1, ItemFacts
  <2>2. op \in Range(item.operands)
    BY <2>1, SequenceFacts
  <2> QED
    BY <2>2, ItemFacts
<1>4. /\ OperandBytes(mode) = 0 => bytes = <<opcode>>
      /\ OperandBytes(mode) = 2 =>
           \E n \in ResolveWordOperand(op) : bytes = <<opcode>> \o WordBytes(n)
      /\ OperandBytes(mode) = 1 /\ mode = "REL" =>
           \E n \in ResolveRelativeOperand(op, item.address) : bytes = <<opcode, n>>
      /\ OperandBytes(mode) = 1 /\ mode # "REL" =>
           \E n \in ResolveByteOperand(op) : bytes = <<opcode, n>>
  BY <1>2 DEF BytesOf
<1>5. value = Meant(op)
  BY DEF Argument
<1>6. \A k : ByteOf(item, k) = IF k = 1 THEN opcode
                               ELSE IF k = 3 THEN high(value)
                               ELSE IF OperandBytes(mode) = 2 THEN low(value)
                               ELSE IF mode = "REL" THEN AsByte(value - (item.address + 2))
                               ELSE value
  BY <1>2 DEF ByteOf
<1>7. InRange(item) <=>
        /\ OperandBytes(mode) = 2 => value \in Word
        /\ mode = "REL" => value \in Word /\ value - (item.address + 2) \in -128 .. 127
  BY <1>2 DEF InRange
<1> HIDE DEF opcode, op, value
<1>8. CASE item.operands = << >>
  <2>1. OperandBytes(mode) = 0 /\ mode # "REL"
    BY <1>1, <1>8, ModeSizes
  <2>2. bytes = <<opcode>>
    BY <1>4, <2>1
  <2>3. IsSequence(bytes) /\ Len(bytes) = 1 /\ bytes[1] = opcode
    <3>1. <<opcode>> \in Seq({opcode})
      OBVIOUS
    <3> QED
      BY <2>2, <3>1, SequenceOf
  <2> QED
    BY <1>1, <1>6, <1>7, <2>1, <2>3
<1>9. CASE item.operands # << >> /\ OperandBytes(mode) = 2
  <2>1. PICK n \in ResolveWordOperand(op) : bytes = <<opcode>> \o WordBytes(n)
    BY <1>4, <1>9
  <2>2. n = value /\ n \in Word
    BY <1>3, <1>5, <1>9, WordOperand
  <2>3. mode # "REL"
    BY <1>9, ModeSizes DEF ArgumentModes
  <2>4. /\ IsSequence(<<opcode>>) /\ Len(<<opcode>>) = 1 /\ <<opcode>>[1] = opcode
        /\ IsSequence(WordBytes(n)) /\ Len(WordBytes(n)) = 2
        /\ WordBytes(n)[1] = low(value) /\ WordBytes(n)[2] = high(value)
    <3>1. <<opcode>> \in Seq({opcode}) /\ <<low(n), high(n)>> \in Seq({low(n), high(n)})
      OBVIOUS
    <3> QED
      BY <2>2, <3>1, SequenceOf DEF WordBytes
  <2>5. /\ IsSequence(bytes) /\ Len(bytes) = 3
        /\ bytes[1] = opcode /\ bytes[2] = low(value) /\ bytes[3] = high(value)
    <3> DEFINE w == WordBytes(n)
               c == <<opcode>>
    <3>1. IsSequence(c) /\ IsSequence(w)
      BY <2>4
    <3> HIDE DEF w, c
    <3>2. /\ IsSequence(c \o w) /\ Len(c \o w) = Len(c) + Len(w)
          /\ \A k \in 1 .. Len(c) : (c \o w)[k] = c[k]
          /\ \A k \in 1 .. Len(w) : (c \o w)[Len(c) + k] = w[k]
      BY <3>1, JoinFacts
    <3>3. Len(c) = 1 /\ Len(w) = 2 /\ bytes = c \o w
      BY <2>1, <2>4 DEF w, c
    <3>4. 1 \in 1 .. 1 /\ 1 \in 1 .. 2 /\ 2 \in 1 .. 2
      OBVIOUS
    <3>5. bytes[1] = c[1] /\ bytes[1 + 1] = w[1] /\ bytes[1 + 2] = w[2]
      BY <3>2, <3>3, <3>4
    <3> QED
      BY <2>4, <3>2, <3>3, <3>5 DEF w, c
  <2>6. InRange(item)
    BY <1>7, <2>2, <2>3
  <2> QED
    BY <1>1, <1>6, <1>9, <2>5, <2>6
<1>10. CASE item.operands # << >> /\ OperandBytes(mode) = 1
  <2>1. ASSUME NEW b, bytes = <<opcode, b>>
        PROVE  IsSequence(bytes) /\ Len(bytes) = 2 /\ bytes[1] = opcode /\ bytes[2] = b
    <3>1. <<opcode, b>> \in Seq({opcode, b})
      OBVIOUS
    <3> QED
      BY <2>1, <3>1, SequenceOf
  <2>2. CASE mode = "REL"
    <3>1. PICK b \in ResolveRelativeOperand(op, item.address) : bytes = <<opcode, b>>
      BY <1>4, <1>10, <2>2
    <3>2. PICK n \in ResolveWordOperand(op) :
            b = AsByte(n - (item.address + 2)) /\ n - (item.address + 2) \in -128 .. 127
      BY DEF ResolveRelativeOperand
    <3>3. n = value /\ n \in Word
      BY <1>3, <1>5, <1>10, WordOperand
    <3>4. InRange(item)
      BY <1>7, <1>10, <3>2, <3>3
    <3>5. IsSequence(bytes) /\ Len(bytes) = 2 /\ bytes[1] = opcode /\ bytes[2] = b
      BY <2>1, <3>1
    <3>6. ByteOf(item, 1) = opcode /\ ByteOf(item, 2) = b
      BY <1>6, <1>10, <2>2, <3>2, <3>3
    <3> QED
      BY <1>1, <1>10, <3>4, <3>5, <3>6
  <2>3. CASE mode # "REL"
    <3>1. PICK b \in ResolveByteOperand(op) : bytes = <<opcode, b>>
      BY <1>4, <1>10, <2>3
    <3>2. b = value
      BY <1>3, <1>5, <1>10, ResolveFacts DEF ResolveByteOperand
    <3>3. InRange(item)
      BY <1>7, <1>10, <2>3
    <3>4. IsSequence(bytes) /\ Len(bytes) = 2 /\ bytes[1] = opcode /\ bytes[2] = b
      BY <2>1, <3>1
    <3>5. ByteOf(item, 1) = opcode /\ ByteOf(item, 2) = b
      BY <1>6, <1>10, <2>3, <3>2
    <3> QED
      BY <1>1, <1>10, <3>3, <3>4, <3>5
  <2> QED
    BY <2>2, <2>3
<1> QED
  BY <1>1, <1>8, <1>9, <1>10, ModeSizes

LEMMA BytesFacts ==
  ASSUME StateInv, NEW item, IsItem(item), NEW bytes \in BytesOf(item)
  PROVE  /\ IsSequence(bytes) /\ Len(bytes) = Size(Source(item)) /\ InRange(item)
         /\ \A k \in 1 .. Len(bytes) : bytes[k] = ByteOf(item, k)
<1>1. CASE Source(item).kind = "byte"
  <2>1. InRange(item)
    BY <1>1 DEF InRange, IsItem
  <2> QED
    BY <1>1, <2>1, DataBytes
<1>2. CASE Source(item).kind = "instruction"
  BY <1>2, CodeBytes
<1> QED
  BY <1>1, <1>2 DEF IsItem

-----------------------------------------------------------------------------
(* FirstPass keeps the invariant. *)

LEMMA OriginFacts ==
  ASSUME options \in [origin : Word, rom_size : Nat]
  PROVE  /\ options.origin \in Nat /\ options.origin <= LastAddress
         /\ LastAddress \in Nat /\ options.rom_size \in Nat
<1>1. options.origin \in Word /\ options.rom_size \in Nat
  OBVIOUS
<1>2. options.origin \in Nat
  BY <1>1, WordBound
<1>3. LastAddress \in Nat
  BY DEF LastAddress
<1> QED
  BY <1>1, <1>2, <1>3, WordBound

LEMMA InitInv == Init => AssemblerInv
<1> SUFFICES ASSUME Init PROVE AssemblerInv
  OBVIOUS
<1>1. /\ stage = "parse" /\ next = 1 /\ items = << >> /\ program = << >>
      /\ records = << >> /\ cursor = options.origin
      /\ options \in [origin : Word, rom_size : Nat]
  BY DEF Init
<1>2. cursor \in Nat /\ options.origin <= cursor /\ cursor <= LastAddress + 1
  BY <1>1, OriginFacts
<1>3. DOMAIN symbols = {} /\ DOMAIN constants = {} /\ DOMAIN items = {}
  BY <1>1 DEF Init
<1>4. StateInv
  BY <1>1, <1>2, <1>3, EmptySequence DEF StateInv
<1>5. Seen = 0
  BY <1>1 DEF Seen
<1>6. ItemsInv /\ LabelsInv
  BY <1>3, <1>5 DEF ItemsInv, LabelsInv
<1> QED
  BY <1>1, <1>4, <1>6 DEF AssemblerInv

(* Up to FirstPass nothing is collected. *)
LEMMA BeforeFirstPass ==
  ASSUME AssemblerInv, SourceParsed \/ \E statements : BeginFirstPass(statements)
  PROVE  AssemblerInv'
<1>1. /\ stage \in {"parse", "include"} /\ stage' \in {"include", "first_pass"}
      /\ stage' = "include" => program' = program
      /\ IsProgram(program')
      /\ UNCHANGED <<options, next, cursor, items, symbols, constants, rom, records>>
  BY DEF SourceParsed, BeginFirstPass, AssemblerInv, StateInv, pass
<1>2. StateInv
  BY <1>1 DEF AssemblerInv
<1>3. next = 1 /\ items = << >> /\ records = << >> /\ program = << >>
  BY <1>1, <1>2 DEF StateInv
<1>4. Len(program') \in Nat
  BY <1>1, SequenceFacts DEF IsProgram
<1>5. StateInv'
  BY <1>1, <1>2, <1>3, <1>4 DEF StateInv
<1>6. Seen' = 0
  BY <1>1, <1>3 DEF Seen
<1>7. ItemsInv' /\ LabelsInv'
  BY <1>1, <1>3, <1>6 DEF ItemsInv, LabelsInv
<1> QED
  BY <1>1, <1>5, <1>7 DEF AssemblerInv

(* A statement is looked at. *)
LEMMA AcceptFacts ==
  ASSUME AssemblerInv, NEW kind, Accept(kind)
  PROVE  /\ StateInv /\ ItemsInv /\ LabelsInv
         /\ stage = "first_pass" /\ stage' = "first_pass" /\ next' = next + 1
         /\ options' = options /\ program' = program /\ rom' = rom /\ records' = records
         /\ next \in 1 .. Len(program) /\ Seen = next - 1 /\ Seen' = next
         /\ IsStatementNode(Statement) /\ Statement.kind = kind /\ Acceptable(Statement)
<1>1. /\ stage = "first_pass" /\ stage' = "first_pass" /\ next' = next + 1
      /\ options' = options /\ program' = program /\ rom' = rom /\ records' = records
      /\ next \in DOMAIN program /\ Statement.kind = kind /\ Acceptable(Statement)
  BY DEF Accept
<1>2. StateInv /\ ItemsInv /\ LabelsInv
  BY <1>1 DEF AssemblerInv
<1>3. /\ next \in 1 .. Len(program) /\ IsStatementNode(Statement)
  BY <1>1, <1>2, SequenceFacts DEF StateInv, IsProgram, Statement
<1>4. Seen = next - 1 /\ Seen' = next
  BY <1>1, <1>3 DEF Seen
<1> QED
  BY <1>1, <1>2, <1>3, <1>4

LEMMA ItemKept ==
  ASSUME options' = options, program' = program, Seen \in Nat, Seen' \in Nat, Seen <= Seen',
         NEW item, IsItem(item)
  PROVE  IsItem(item)'
<1>1. item.statement \in 1 .. Seen'
  BY DEF IsItem
<1> QED
  BY <1>1 DEF IsItem, Source

(* The statements up to next, and next itself. *)
LEMMA BetweenFacts ==
  ASSUME next \in Nat, next' = next + 1, program' = program, NEW k \in 1 .. next - 1
  PROVE  Between(k, next)' => Between(k, next) /\ program[next].kind \in {"label", "equ"}
<1>1. k + 1 .. next - 1 \subseteq k + 1 .. next' - 1 /\ next \in k + 1 .. next' - 1
  OBVIOUS
<1> QED
  BY <1>1 DEF Between

(* The parts of StateInv that a statement leaves alone. *)
LEMMA FirstPassState ==
  ASSUME AssemblerInv, NEW kind, Accept(kind),
         IsSequence(items'),
         cursor' \in Nat, options.origin <= cursor', cursor' <= LastAddress + 1,
         \A name \in DOMAIN symbols' : symbols'[name] \in Nat,
         \A name \in DOMAIN constants' : constants'[name] \in Nat
  PROVE  StateInv'
<1>1. /\ StateInv /\ stage = "first_pass" /\ stage' = "first_pass" /\ next' = next + 1
      /\ options' = options /\ program' = program /\ records' = records
      /\ next \in 1 .. Len(program)
  BY AcceptFacts
<1>2. next' \in Nat /\ next' >= 1 /\ next' <= Len(program') + 1
  BY <1>1, SeenFacts
<1> QED
  BY <1>1, <1>2 DEF StateInv

LEMMA ItemsStay ==
  ASSUME AssemblerInv, NEW kind, Accept(kind), items' = items
  PROVE  ItemsInv'
<1>1. /\ ItemsInv /\ options' = options /\ program' = program
      /\ next \in 1 .. Len(program) /\ Seen = next - 1 /\ Seen' = next
  BY AcceptFacts
<1>2. Len(program) \in Nat
  BY SeenFacts, AcceptFacts
<1>3. Seen \in Nat /\ Seen' \in Nat /\ Seen <= Seen'
  BY <1>1, <1>2
<1>4. ASSUME NEW i \in DOMAIN items PROVE IsItem(items[i])'
  <2> DEFINE item == items[i]
  <2>1. IsItem(item)
    BY <1>1 DEF ItemsInv
  <2> QED
    BY <1>1, <1>3, <2>1, ItemKept
<1> QED
  BY <1>4 DEF ItemsInv

LEMMA LabelDeclInv == AssemblerInv /\ LabelDecl => AssemblerInv'
<1> SUFFICES ASSUME AssemblerInv, LabelDecl PROVE AssemblerInv'
  OBVIOUS
<1> DEFINE name == Statement.name
<1>1. /\ Accept("label") /\ symbols' = With(symbols, name, cursor)
      /\ cursor' = cursor /\ items' = items /\ constants' = constants
  BY DEF LabelDecl
<1>2. /\ StateInv /\ ItemsInv /\ LabelsInv
      /\ stage = "first_pass" /\ stage' = "first_pass" /\ next' = next + 1
      /\ options' = options /\ program' = program
      /\ next \in 1 .. Len(program) /\ Seen = next - 1 /\ Seen' = next
      /\ Statement.kind = "label" /\ Acceptable(Statement)
  BY <1>1, AcceptFacts
<1>3. name \notin DOMAIN symbols
  BY <1>2 DEF Acceptable
<1>4. /\ DOMAIN symbols' = DOMAIN symbols \cup {name} /\ symbols'[name] = cursor
      /\ \A y \in DOMAIN symbols : y # name => symbols'[y] = symbols[y]
  <2>1. symbols' = With(symbols, name, cursor)
    BY <1>1
  <2> HIDE DEF name
  <2> QED
    BY <2>1 DEF With
<1>5. StateInv'
  <2>1. \A y \in DOMAIN symbols' : symbols'[y] \in Nat
    BY <1>2, <1>4 DEF StateInv
  <2> QED
    BY <1>1, <1>2, <2>1, FirstPassState DEF StateInv
<1>6. ItemsInv'
  BY <1>1, ItemsStay
<1>7. next \in Nat /\ Len(program) \in Nat
  BY <1>2, SeenFacts
<1>8. Statement = program[next]
  BY DEF Statement
<1> HIDE DEF name
<1>9. LabelsInv'
  <2> SUFFICES ASSUME NEW k \in 1 .. Seen', program[k].kind = "label"
               PROVE  /\ program[k].name \in DOMAIN symbols'
                      /\ Between(k, next)' => symbols'[program[k].name] = cursor
                      /\ \A j \in DOMAIN items :
                           items[j].statement > k /\ Between(k, items[j].statement)' =>
                             symbols'[program[k].name] = items[j].address
    BY <1>1, <1>2 DEF LabelsInv
  <2>1. CASE k = next
    <3>1. program[k].name = name
      BY <1>8, <2>1 DEF name
    <3>2. ASSUME NEW j \in DOMAIN items PROVE ~(items[j].statement > k)
      <4>1. items[j].statement \in 1 .. Seen
        BY <1>2 DEF ItemsInv, IsItem
      <4> QED
        BY <1>2, <1>7, <2>1, <4>1
    <3> QED
      BY <1>4, <3>1, <3>2
  <2>2. CASE k # next
    <3>1. k \in 1 .. Seen /\ k \in 1 .. next - 1
      BY <1>2, <1>7, <2>2
    <3>2. /\ program[k].name \in DOMAIN symbols
          /\ Between(k, next) => symbols[program[k].name] = cursor
          /\ \A j \in DOMAIN items :
               items[j].statement > k /\ Between(k, items[j].statement) =>
                 symbols[program[k].name] = items[j].address
      BY <1>2, <3>1 DEF LabelsInv
    <3>3. Between(k, next)' => Between(k, next)
      BY <1>2, <1>7, <3>1, BetweenFacts
    <3>4. symbols'[program[k].name] = symbols[program[k].name]
      BY <1>3, <1>4, <3>2
    <3>5. ASSUME NEW j \in DOMAIN items, items[j].statement > k,
                 Between(k, items[j].statement)'
          PROVE  symbols'[program[k].name] = items[j].address
      <4>1. Between(k, items[j].statement)
        BY <1>1, <1>2, <3>5 DEF Between
      <4> QED
        BY <3>2, <3>4, <3>5, <4>1
    <3> QED
      BY <1>4, <3>2, <3>3, <3>4, <3>5
  <2> QED
    BY <2>1, <2>2
<1> QED
  BY <1>2, <1>5, <1>6, <1>9 DEF AssemblerInv

(* No other statement changes the labels; their addresses follow. *)
LEMMA LabelsStay ==
  ASSUME AssemblerInv, NEW kind, kind # "label", Accept(kind), symbols' = symbols,
         kind = "equ" => cursor' = cursor /\ items' = items,
         \A j \in DOMAIN items' :
           \/ j \in DOMAIN items /\ items'[j] = items[j]
           \/ items'[j].statement = next /\ items'[j].address = cursor
  PROVE  LabelsInv'
<1>1. /\ StateInv /\ LabelsInv
      /\ stage = "first_pass" /\ stage' = "first_pass" /\ next' = next + 1
      /\ program' = program /\ program[next].kind = kind
      /\ next \in 1 .. Len(program) /\ Seen = next - 1 /\ Seen' = next
  BY AcceptFacts DEF Statement
<1>2. next \in Nat
  BY <1>1, SeenFacts
<1> SUFFICES ASSUME NEW k \in 1 .. Seen', program[k].kind = "label"
             PROVE  /\ program[k].name \in DOMAIN symbols
                    /\ Between(k, next)' => symbols[program[k].name] = cursor'
                    /\ \A j \in DOMAIN items' :
                         items'[j].statement > k /\ Between(k, items[j].statement)' =>
                           symbols[program[k].name] = items'[j].address
  BY <1>1 DEF LabelsInv
<1>3. k \in 1 .. Seen /\ k \in 1 .. next - 1
  BY <1>1, <1>2
<1>4. /\ program[k].name \in DOMAIN symbols
      /\ Between(k, next) => symbols[program[k].name] = cursor
      /\ \A j \in DOMAIN items :
           items[j].statement > k /\ Between(k, items[j].statement) =>
             symbols[program[k].name] = items[j].address
  BY <1>1, <1>3 DEF LabelsInv
<1>5. Between(k, next)' => symbols[program[k].name] = cursor'
  <2>1. Between(k, next)' => Between(k, next) /\ program[next].kind \in {"label", "equ"}
    BY <1>1, <1>2, <1>3, BetweenFacts
  <2> QED
    BY <1>1, <1>4, <2>1
<1>6. ASSUME NEW j \in DOMAIN items', items'[j].statement > k, Between(k, items[j].statement)'
      PROVE  symbols[program[k].name] = items'[j].address
  <2>1. CASE j \in DOMAIN items /\ items'[j] = items[j]
    <3>1. Between(k, items[j].statement)
      BY <1>1, <1>6, <2>1 DEF Between
    <3> QED
      BY <1>4, <1>6, <2>1, <3>1
  <2>2. CASE items'[j].statement = next /\ items'[j].address = cursor
    <3>1. Between(k, next)
      BY <1>1, <1>6, <2>2 DEF Between
    <3> QED
      BY <1>4, <2>2, <3>1
  <2> QED
    BY <2>1, <2>2
<1> QED
  BY <1>4, <1>5, <1>6

LEMMA EquDeclInv == AssemblerInv /\ EquDecl => AssemblerInv'
<1> SUFFICES ASSUME AssemblerInv, EquDecl PROVE AssemblerInv'
  OBVIOUS
<1> DEFINE name == Statement.name
           value == Statement.value
<1>1. /\ Accept("equ") /\ constants' = With(constants, name, value)
      /\ cursor' = cursor /\ items' = items /\ symbols' = symbols
  BY DEF EquDecl
<1>2. StateInv /\ stage' = "first_pass" /\ value \in Nat
  BY <1>1, AcceptFacts DEF IsStatementNode
<1> HIDE DEF name, value
<1>3. \A y \in DOMAIN constants' : constants'[y] \in Nat
  <2>1. constants' = With(constants, name, value)
    BY <1>1
  <2>2. \A y \in DOMAIN constants : constants[y] \in Nat
    BY <1>2 DEF StateInv
  <2> QED
    BY <1>2, <2>1, <2>2 DEF With
<1>4. StateInv'
  BY <1>1, <1>2, <1>3, FirstPassState DEF StateInv
<1>5. ItemsInv' /\ LabelsInv'
  BY <1>1, ItemsStay, LabelsStay
<1> QED
  BY <1>2, <1>4, <1>5 DEF AssemblerInv

LEMMA OrgInv == AssemblerInv /\ Org => AssemblerInv'
<1> SUFFICES ASSUME AssemblerInv, Org PROVE AssemblerInv'
  OBVIOUS
<1>1. /\ Accept("org") /\ cursor' = Statement.operands[1].number
      /\ constants' = constants /\ items' = items /\ symbols' = symbols
  BY DEF Org
<1>2. /\ StateInv /\ stage' = "first_pass" /\ Statement.kind = "org" /\ Acceptable(Statement)
  BY <1>1, AcceptFacts
<1>3. cursor' \in options.origin .. LastAddress
  BY <1>1, <1>2 DEF Acceptable
<1>4. options.origin \in Nat /\ LastAddress \in Nat
  BY <1>2, OriginFacts DEF StateInv
<1>5. cursor' \in Nat /\ options.origin <= cursor' /\ cursor' <= LastAddress + 1
  BY <1>3, <1>4
<1>6. StateInv'
  BY <1>1, <1>2, <1>5, FirstPassState DEF StateInv
<1>7. ItemsInv' /\ LabelsInv'
  BY <1>1, ItemsStay, LabelsStay
<1> QED
  BY <1>2, <1>6, <1>7 DEF AssemblerInv

LEMMA EmitInv ==
  ASSUME AssemblerInv, NEW instruction,
         \/ Accept("byte") /\ instruction = << >>
         \/ Accept("instruction") /\ instruction = SelectInstruction(Statement),
         Emit(instruction)
  PROVE  AssemblerInv'
<1>1. PICK kind \in {"byte", "instruction"} :
        /\ Accept(kind)
        /\ kind = "byte" => instruction = << >>
        /\ kind = "instruction" => instruction = SelectInstruction(Statement)
  OBVIOUS
<1>2. PICK stmt : stmt = Statement
  OBVIOUS
<1>3. PICK new : new = [address |-> cursor, instruction |-> instruction,
                        operands |-> stmt.operands, statement |-> next]
  OBVIOUS
<1>4. /\ new.address = cursor /\ new.instruction = instruction
      /\ new.operands = stmt.operands /\ new.statement = next
  BY <1>3
<1>5. /\ StateInv /\ ItemsInv /\ stage' = "first_pass"
      /\ options' = options /\ program' = program /\ program[next] = stmt
      /\ next \in 1 .. Len(program) /\ Seen = next - 1 /\ Seen' = next
      /\ IsStatementNode(stmt) /\ stmt.kind = kind /\ Acceptable(stmt)
  BY <1>1, <1>2, AcceptFacts DEF Statement
<1>6. /\ items' = Append(items, new) /\ cursor' = cursor + Size(stmt)
      /\ symbols' = symbols /\ constants' = constants
  BY <1>2, <1>3 DEF Emit
<1>7. /\ kind = "byte" => stmt.operands # << >>
      /\ kind = "instruction" => Selected(stmt) # 0
      /\ cursor + Size(stmt) - 1 <= LastAddress
  BY <1>5 DEF Acceptable
<1>8. Size(stmt) \in Nat /\ Size(stmt) >= 1
  BY <1>5, <1>7, SizeFacts
<1>9. cursor \in Nat /\ options.origin <= cursor
  BY <1>5 DEF StateInv
<1>10. options.origin \in Nat /\ LastAddress \in Nat /\ Len(program) \in Nat
  BY <1>5, OriginFacts, SeenFacts DEF StateInv
<1>11. cursor' \in Nat /\ options.origin <= cursor' /\ cursor' <= LastAddress + 1
  <2> DEFINE size == Size(stmt)
  <2>1. cursor' = cursor + size /\ cursor + size - 1 <= LastAddress /\ size \in Nat
    BY <1>6, <1>7, <1>8
  <2> HIDE DEF size
  <2> QED
    BY <1>9, <1>10, <2>1
<1>12. IsItem(new)'
  <2>1. Source(new)' = stmt
    BY <1>4, <1>5 DEF Source
  <2>2. new.statement \in 1 .. Seen'
    BY <1>4, <1>5, <1>10
  <2> QED
    BY <1>1, <1>2, <1>4, <1>5, <1>7, <1>9, <2>1, <2>2 DEF IsItem
<1>13. /\ IsSequence(items') /\ DOMAIN items' = 1 .. Len(items) + 1
       /\ items'[Len(items) + 1] = new
       /\ \A j \in 1 .. Len(items) : items'[j] = items[j]
       /\ DOMAIN items = 1 .. Len(items) /\ Len(items) \in Nat
  <2>1. IsSequence(items)
    BY <1>5 DEF StateInv
  <2> QED
    BY <1>6, <2>1, AppendFacts, SequenceFacts
<1>14. StateInv'
  BY <1>1, <1>5, <1>6, <1>11, <1>13, FirstPassState DEF StateInv
<1>15. \A j \in DOMAIN items' : (j \in DOMAIN items /\ items'[j] = items[j]) \/ items'[j] = new
  BY <1>13
<1>16. ItemsInv'
  <2>1. Seen \in Nat /\ Seen' \in Nat /\ Seen <= Seen'
    BY <1>5, <1>10
  <2>2. ASSUME NEW j \in DOMAIN items' PROVE IsItem(items[j])'
    <3>1. PICK item : item = items'[j]
      OBVIOUS
    <3>2. IsItem(item)'
      <4>1. CASE j \in DOMAIN items /\ items'[j] = items[j]
        <5>1. IsItem(item)
          BY <1>5, <3>1, <4>1 DEF ItemsInv
        <5> QED
          BY <1>5, <2>1, <5>1, ItemKept
      <4>2. CASE items'[j] = new
        BY <1>12, <3>1, <4>2
      <4> QED
        BY <1>15, <4>1, <4>2
    <3> QED
      BY <3>1, <3>2
  <2> QED
    BY <2>2 DEF ItemsInv
<1>17. LabelsInv'
  <2>1. kind # "label" /\ kind # "equ"
    BY <1>1
  <2>2. \A j \in DOMAIN items' :
          \/ j \in DOMAIN items /\ items'[j] = items[j]
          \/ items'[j].statement = next /\ items'[j].address = cursor
    BY <1>4, <1>15
  <2> QED
    BY <1>1, <1>6, <2>1, <2>2, LabelsStay
<1> QED
  BY <1>5, <1>14, <1>16, <1>17 DEF AssemblerInv

LEMMA EncodeBegins == AssemblerInv /\ BeginEncode => AssemblerInv'
<1> SUFFICES ASSUME AssemblerInv, BeginEncode PROVE AssemblerInv'
  OBVIOUS
<1>1. CASE stage' = "error"
  BY <1>1 DEF AssemblerInv
<1>2. CASE stage' # "error"
  <2>1. /\ stage = "first_pass" /\ stage' = "encode" /\ next = Len(program) + 1 /\ next' = 1
        /\ rom' = [offset \in 0 .. options.rom_size - 1 |-> Fill]
        /\ UNCHANGED <<options, program, cursor, items, symbols, constants, records>>
    BY <1>2 DEF BeginEncode, Throw, pass
  <2>2. StateInv /\ ItemsInv /\ LabelsInv
    BY <2>1 DEF AssemblerInv
  <2>3. StateInv'
    BY <2>1, <2>2 DEF StateInv
  <2>4. Len(program) \in Nat /\ Seen = Len(program) /\ Seen' = Len(program)
    BY <2>1, <2>2, SeenFacts DEF Seen
  <2>5. ItemsInv'
    BY <2>1, <2>2, <2>4, ItemKept DEF ItemsInv
  <2>6. LabelsInv'
    BY <2>1, <2>2, <2>4 DEF LabelsInv, Between
  <2>7. records = << >> /\ Len(items) \in Nat
    BY <2>1, <2>2, SequenceFacts DEF StateInv
  <2>8. RomInv'
    BY <2>1, <2>7 DEF RomInv
  <2>9. RecordsInv'
    BY <2>1, <2>7, EmptySequence DEF RecordsInv
  <2> QED
    BY <2>3, <2>5, <2>6, <2>8, <2>9 DEF AssemblerInv
<1> QED
  BY <1>1, <1>2

-----------------------------------------------------------------------------
(* Encode keeps the invariant. *)

LEMMA AsWordFacts ==
  ASSUME NEW n \in Nat, n <= LastAddress
  PROVE  AsWord(n) = n
  BY SMT DEF AsWord, LastAddress

(* What Encode does not touch keeps its meaning. *)
LEMMA EncodeFrame ==
  ASSUME UNCHANGED <<options, program, items, symbols, constants>>, NEW item
  PROVE  /\ Source(item)' = Source(item) /\ Addresses(item)' = Addresses(item)
         /\ Offset(item)' = Offset(item)
         /\ Argument(item)' = Argument(item)
         /\ InRange(item)' <=> InRange(item)
         /\ \A k : ByteOf(item, k)' = ByteOf(item, k)
<1>1. Source(item)' = Source(item) /\ Offset(item)' = Offset(item)
  BY DEF Source, Offset
<1>2. Addresses(item)' = Addresses(item)
  BY <1>1 DEF Addresses
<1>3. \A op : Meant(op)' = Meant(op)
  BY DEF Meant
<1>4. Argument(item)' = Argument(item)
  BY <1>3 DEF Argument
<1>5. InRange(item)' <=> InRange(item)
  BY <1>4 DEF InRange
<1>6. \A k : ByteOf(item, k)' = ByteOf(item, k)
  BY <1>3, <1>4 DEF ByteOf
<1> QED
  BY <1>1, <1>2, <1>4, <1>5, <1>6

(* The step of Encode: the item at next is written where it fits. *)
LEMMA EncodeFacts ==
  ASSUME AssemblerInv, EncodeItem
  PROVE  /\ StateInv /\ ItemsInv /\ LabelsInv /\ RomInv /\ RecordsInv
         /\ stage = "encode" /\ next' = next + 1 /\ next \in 1 .. Len(items) /\ Len(items) \in Nat
         /\ UNCHANGED <<options, program, stage, cursor, items, symbols, constants>>
         /\ IsItem(items[next])
         /\ \E bytes \in BytesOf(items[next]) :
              /\ rom' = [offset \in DOMAIN rom |->
                           IF offset - Offset(items[next]) + 1 \in DOMAIN bytes
                           THEN bytes[offset - Offset(items[next]) + 1] ELSE rom[offset]]
              /\ records' = records \o RecordsOf(items[next], bytes)
         /\ \E bytes \in BytesOf(items[next]) :
              Offset(items[next]) + Len(bytes) <= options.rom_size
<1>1. stage = "encode" /\ next' = next + 1 /\ next \in DOMAIN items
  BY DEF EncodeItem
<1>2. UNCHANGED <<options, program, stage, cursor, items, symbols, constants>>
  BY DEF EncodeItem, pass
<1>3. StateInv /\ ItemsInv /\ LabelsInv /\ RomInv /\ RecordsInv
  BY <1>1 DEF AssemblerInv
<1>4. next \in 1 .. Len(items) /\ Len(items) \in Nat
  BY <1>1, <1>3, SequenceFacts DEF StateInv
<1>5. IsItem(items[next])
  BY <1>1, <1>3 DEF ItemsInv
<1>6. \E bytes \in BytesOf(items[next]) :
        /\ rom' = [offset \in DOMAIN rom |->
                     IF offset - Offset(items[next]) + 1 \in DOMAIN bytes
                     THEN bytes[offset - Offset(items[next]) + 1] ELSE rom[offset]]
        /\ records' = records \o RecordsOf(items[next], bytes)
  BY DEF EncodeItem
<1>7. \E bytes \in BytesOf(items[next]) :
        Offset(items[next]) + Len(bytes) <= options.rom_size
  BY DEF EncodeItem, Encodable
<1> QED
  BY <1>1, <1>2, <1>3, <1>4, <1>5, <1>6, <1>7

(* The places of an item in the cartridge. *)
LEMMA PlaceFacts ==
  ASSUME StateInv, NEW item, IsItem(item), NEW size, size = Size(Source(item))
  PROVE  /\ size \in Nat /\ size >= 1
         /\ options.origin \in Nat /\ options.rom_size \in Nat
         /\ item.address \in Nat /\ LastAddress \in Nat
         /\ options.origin <= item.address /\ item.address + size - 1 <= LastAddress
         /\ Offset(item) = item.address - options.origin
         /\ Addresses(item) = item.address .. item.address + size - 1
<1>1. size \in Nat /\ size >= 1
  BY ItemFacts
<1>2. options.origin \in Nat /\ options.rom_size \in Nat /\ LastAddress \in Nat
  BY OriginFacts DEF StateInv
<1> QED
  BY <1>1, <1>2 DEF IsItem, Offset, Addresses

(* What the step writes, and where. *)
LEMMA RomStep ==
  ASSUME AssemblerInv, EncodeItem, NEW item, item = items[next],
         NEW size, size = Size(Source(item))
  PROVE  /\ Offset(item) + size <= options.rom_size /\ InRange(item)
         /\ DOMAIN rom' = DOMAIN rom
         /\ \A k \in 1 .. size : rom'[Offset(item) + k - 1] = ByteOf(item, k)
         /\ \A offset \in DOMAIN rom :
              options.origin + offset \notin Addresses(item) => rom'[offset] = rom[offset]
<1>1. StateInv /\ IsItem(item) /\ DOMAIN rom = 0 .. options.rom_size - 1
  BY EncodeFacts DEF RomInv
<1>2. PICK bytes \in BytesOf(item) :
        rom' = [offset \in DOMAIN rom |-> IF offset - Offset(item) + 1 \in DOMAIN bytes
                                          THEN bytes[offset - Offset(item) + 1] ELSE rom[offset]]
  BY EncodeFacts
<1>3. IsSequence(bytes) /\ Len(bytes) = size /\ InRange(item)
      /\ \A k \in 1 .. size : bytes[k] = ByteOf(item, k)
  BY <1>1, BytesFacts
<1>4. Offset(item) + size <= options.rom_size
  BY <1>1, BytesFacts, EncodeFacts
<1>5. DOMAIN bytes = 1 .. size
  BY <1>3, SequenceFacts
<1>6. /\ size \in Nat /\ options.origin \in Nat /\ options.rom_size \in Nat
      /\ item.address \in Nat /\ options.origin <= item.address
      /\ Offset(item) = item.address - options.origin
      /\ Addresses(item) = item.address .. item.address + size - 1
  BY <1>1, PlaceFacts
<1> DEFINE start == Offset(item)
           origin == options.origin
           top == options.rom_size
           first == item.address
<1>7. /\ origin \in Nat /\ top \in Nat /\ first \in Nat /\ origin <= first
      /\ start = first - origin /\ start + size <= top /\ size \in Nat
      /\ DOMAIN rom = 0 .. top - 1 /\ Addresses(item) = first .. first + size - 1
  BY <1>1, <1>4, <1>6
<1> HIDE DEF start, origin, top, first
<1>8. ASSUME NEW k \in 1 .. size PROVE rom'[start + k - 1] = bytes[k]
  <2>1. start + k - 1 \in 0 .. top - 1 /\ (start + k - 1) - start + 1 = k
    BY <1>7
  <2> QED
    BY <1>2, <1>5, <1>7, <2>1 DEF start
<1>9. ASSUME NEW offset \in DOMAIN rom, origin + offset \notin Addresses(item)
      PROVE  rom'[offset] = rom[offset]
  <2>1. offset \in Int /\ origin + offset \notin first .. first + size - 1
    BY <1>7, <1>9
  <2>2. offset - start + 1 \notin 1 .. size
    BY <1>7, <2>1
  <2> QED
    BY <1>2, <1>5, <2>2 DEF start
<1>10. DOMAIN rom' = DOMAIN rom
  BY <1>2
<1> QED
  BY <1>3, <1>4, <1>8, <1>9, <1>10 DEF start, origin

(* What is spared of the items up to next was spared before, and is not
   written by the item at next. *)
LEMMA SparedFacts ==
  ASSUME UNCHANGED <<options, program, items, symbols, constants>>, next \in Nat,
         next' = next + 1, NEW i \in 0 .. next - 1, NEW address
  PROVE  Spared(i, address)' => Spared(i, address) /\ address \notin Addresses(items[next])
<1>1. i + 1 .. next - 1 \subseteq i + 1 .. next' - 1 /\ next \in i + 1 .. next' - 1
  OBVIOUS
<1>2. \A j : Addresses(items[j])' = Addresses(items[j])
  BY DEF Addresses, Source
<1> QED
  BY <1>1, <1>2 DEF Spared

LEMMA RomKept == AssemblerInv /\ EncodeItem => RomInv'
<1> SUFFICES ASSUME AssemblerInv, EncodeItem PROVE RomInv'
  OBVIOUS
<1>1. /\ StateInv /\ ItemsInv /\ RomInv /\ stage = "encode" /\ stage' = "encode"
      /\ next' = next + 1 /\ next \in 1 .. Len(items) /\ Len(items) \in Nat /\ next \in Nat
      /\ UNCHANGED <<options, program, items, symbols, constants>>
  BY EncodeFacts
<1>2. PICK item : item = items[next]
  OBVIOUS
<1>3. PICK size : size = Size(Source(item))
  OBVIOUS
<1>4. /\ Offset(item) + size <= options.rom_size /\ InRange(item)
      /\ DOMAIN rom' = DOMAIN rom
      /\ \A k \in 1 .. size : rom'[Offset(item) + k - 1] = ByteOf(item, k)
      /\ \A offset \in DOMAIN rom :
           options.origin + offset \notin Addresses(item) => rom'[offset] = rom[offset]
  BY <1>2, <1>3, RomStep
<1>5. next' <= Len(items') + 1 /\ stage' # "done" /\ DOMAIN rom' = 0 .. options'.rom_size - 1
  BY <1>1, <1>4 DEF RomInv
<1>6. ASSUME NEW i \in 1 .. next' - 1, NEW old, old = items[i]
      PROVE  /\ Offset(old) + Size(Source(old)) <= options.rom_size
             /\ InRange(old)
             /\ \A k \in 1 .. Size(Source(old)) :
                  Spared(i, old.address + k - 1)' => rom'[Offset(old) + k - 1] = ByteOf(old, k)
  <2>1. CASE i = next
    BY <1>2, <1>3, <1>4, <1>6, <2>1
  <2>2. CASE i # next
    <3>1. i \in 1 .. next - 1 /\ i \in 0 .. next - 1 /\ i \in 1 .. Len(items)
      BY <1>1, <2>2
    <3>2. /\ Offset(old) + Size(Source(old)) <= options.rom_size /\ InRange(old)
          /\ \A k \in 1 .. Size(Source(old)) :
               Spared(i, old.address + k - 1) => rom[Offset(old) + k - 1] = ByteOf(old, k)
      BY <1>1, <1>6, <3>1 DEF RomInv
    <3>3. IsItem(old)
      BY <1>1, <1>6, <3>1, SequenceFacts DEF ItemsInv, StateInv
    <3>4. ASSUME NEW k \in 1 .. Size(Source(old)), Spared(i, old.address + k - 1)'
          PROVE  rom'[Offset(old) + k - 1] = ByteOf(old, k)
      <4> DEFINE n == Size(Source(old))
                 start == Offset(old)
                 origin == options.origin
                 top == options.rom_size
                 first == old.address
      <4>1. /\ n \in Nat /\ origin \in Nat /\ top \in Nat /\ first \in Nat /\ origin <= first
            /\ start = first - origin /\ start + n <= top
        BY <1>1, <3>2, <3>3, PlaceFacts
      <4>2. DOMAIN rom = 0 .. top - 1
        BY <1>1 DEF RomInv
      <4>3. Spared(i, first + k - 1) /\ first + k - 1 \notin Addresses(items[next])
        BY <1>1, <3>1, <3>4, SparedFacts
      <4>4. k \in 1 .. n
        OBVIOUS
      <4>5. rom[start + k - 1] = ByteOf(old, k)
        BY <3>2, <4>3
      <4>6. \A offset \in DOMAIN rom :
              origin + offset \notin Addresses(item) => rom'[offset] = rom[offset]
        BY <1>4
      <4> HIDE DEF n, start, origin, top, first
      <4>7. start + k - 1 \in 0 .. top - 1 /\ origin + (start + k - 1) = first + k - 1
        BY <4>1, <4>4
      <4>8. rom'[start + k - 1] = rom[start + k - 1]
        BY <1>2, <4>2, <4>3, <4>6, <4>7
      <4> QED
        BY <4>5, <4>8 DEF start
    <3> QED
      BY <3>2, <3>4
  <2> QED
    BY <2>1, <2>2
<1>7. ASSUME NEW offset \in DOMAIN rom, Spared(0, options.origin + offset)'
      PROVE  rom'[offset] = Fill
  <2>1. PICK address : address = options.origin + offset
    OBVIOUS
  <2>2. Spared(0, address)'
    BY <1>1, <1>7, <2>1
  <2>3. 0 \in 0 .. next - 1
    BY <1>1
  <2>4. Spared(0, address) /\ address \notin Addresses(items[next])
    BY <1>1, <2>2, <2>3, SparedFacts
  <2>5. rom[offset] = Fill
    BY <1>1, <2>1, <2>4 DEF RomInv
  <2> QED
    BY <1>2, <1>4, <2>1, <2>4, <2>5
<1>8. ASSUME NEW i \in 1 .. next' - 1
      PROVE  /\ Offset(items[i])' + Size(Source(items[i])') <= options'.rom_size
             /\ InRange(items[i])'
             /\ \A k \in 1 .. Size(Source(items[i])') :
                  Spared(i, items[i].address + k - 1)' =>
                    rom'[Offset(items[i])' + k - 1] = ByteOf(items[i], k)'
  <2>1. PICK old : old = items[i]
    OBVIOUS
  <2>2. /\ Source(old)' = Source(old) /\ Offset(old)' = Offset(old)
        /\ InRange(old)' <=> InRange(old)
        /\ \A k : ByteOf(old, k)' = ByteOf(old, k)
    BY <1>1, EncodeFrame
  <2>3. /\ Offset(old)' + Size(Source(old)') <= options'.rom_size /\ InRange(old)'
        /\ \A k \in 1 .. Size(Source(old)') :
             Spared(i, old.address + k - 1)' => rom'[Offset(old)' + k - 1] = ByteOf(old, k)'
    BY <1>1, <1>6, <2>1, <2>2
  <2>4. items'[i] = old
    BY <1>1, <2>1
  <2> QED
    BY <2>3, <2>4
<1>9. ASSUME NEW offset \in DOMAIN rom', Spared(0, options.origin + offset)'
      PROVE  rom'[offset] = Fill
  BY <1>4, <1>7, <1>9
<1> QED
  BY <1>5, <1>8, <1>9 DEF RomInv

LEMMA RecordsKept == AssemblerInv /\ EncodeItem => RecordsInv'
<1> SUFFICES ASSUME AssemblerInv, EncodeItem PROVE RecordsInv'
  OBVIOUS
<1>1. /\ StateInv /\ RecordsInv /\ next' = next + 1 /\ next \in Nat /\ next >= 1
      /\ UNCHANGED <<options, program, items, symbols, constants>>
  BY EncodeFacts
<1>2. PICK item : item = items[next]
  OBVIOUS
<1>3. PICK bytes \in BytesOf(item) : records' = records \o RecordsOf(item, bytes)
  BY <1>2, EncodeFacts
<1>4. PICK size : size = Size(Source(item))
  OBVIOUS
<1>5. IsItem(item)
  BY <1>2, EncodeFacts
<1>6. IsSequence(bytes) /\ Len(bytes) = size /\ DOMAIN bytes = 1 .. size
  BY <1>1, <1>4, <1>5, BytesFacts, SequenceFacts
<1>7. PICK first : first = item.address
  OBVIOUS
<1>8. /\ size \in Nat /\ first \in Nat /\ LastAddress \in Nat
      /\ first + size - 1 <= LastAddress /\ Addresses(item) = first .. first + size - 1
  BY <1>1, <1>4, <1>5, <1>7, PlaceFacts
<1> DEFINE new == RecordsOf(item, bytes)
<1>9. /\ IsSequence(new) /\ Len(new) = size
      /\ \A k \in 1 .. size : new[k].statement = item.statement /\ new[k].address = first + k - 1
  <2> DEFINE rec(k) == [address |-> AsWord(item.address + k - 1),
                        rom_offset |-> Offset(item) + k - 1, statement |-> item.statement]
  <2>1. new = [k \in 1 .. size |-> rec(k)]
    BY <1>6 DEF RecordsOf
  <2>2. \A k \in 1 .. size : rec(k).statement = item.statement /\ rec(k).address = first + k - 1
    <3> SUFFICES ASSUME NEW k \in 1 .. size PROVE AsWord(first + k - 1) = first + k - 1
      BY <1>7
    <3>1. first + k - 1 \in Nat /\ first + k - 1 <= LastAddress
      BY <1>8
    <3> QED
      BY <3>1, AsWordFacts
  <2> HIDE DEF rec
  <2>3. new \in Seq({rec(k) : k \in 1 .. size}) /\ Len(new) = size
    BY <1>8, <2>1
  <2>4. IsSequence(new)
    BY <2>3, SequenceOf
  <2> QED
    BY <2>1, <2>2, <2>3, <2>4
<1>10. /\ IsSequence(records) /\ Len(records) \in Nat
       /\ DOMAIN records = 1 .. Len(records)
  BY <1>1, SequenceFacts DEF RecordsInv
<1>11. records' = records \o new
  BY <1>3
<1> HIDE DEF new
<1>12. /\ IsSequence(records') /\ Len(records') = Len(records) + size
       /\ \A r \in 1 .. Len(records) : records'[r] = records[r]
       /\ \A k \in 1 .. size : records'[Len(records) + k] = new[k]
  BY <1>9, <1>10, <1>11, JoinFacts
<1> DEFINE n == Len(records)
<1>13. n \in Nat /\ DOMAIN records = 1 .. n /\ DOMAIN records' = 1 .. n + size
  BY <1>10, <1>12, SequenceFacts
<1>14. \A i : items'[i] = items[i] /\ Addresses(items[i])' = Addresses(items[i])
  BY <1>1 DEF Addresses, Source
<1> HIDE DEF n
<1>15. ASSUME NEW r \in DOMAIN records'
       PROVE  \E i \in 1 .. next' - 1 :
                /\ records'[r].statement = items[i].statement
                /\ records'[r].address \in Addresses(items[i])
  <2>1. CASE r \in 1 .. n
    <3>1. PICK i \in 1 .. next - 1 :
            /\ records[r].statement = items[i].statement
            /\ records[r].address \in Addresses(items[i])
      BY <1>1, <1>13, <2>1 DEF RecordsInv
    <3>2. i \in 1 .. next' - 1
      BY <1>1
    <3> QED
      BY <1>12, <2>1, <3>1, <3>2 DEF n
  <2>2. CASE r \notin 1 .. n
    <3>1. PICK k : k = r - n
      OBVIOUS
    <3>2. k \in 1 .. size /\ r = n + k
      BY <1>8, <1>13, <2>2, <3>1
    <3>3. records'[r].statement = item.statement /\ records'[r].address = first + k - 1
      BY <1>9, <1>12, <3>2 DEF n
    <3>4. first + k - 1 \in first .. first + size - 1 /\ next \in 1 .. next' - 1
      BY <1>1, <1>8, <3>2
    <3> QED
      BY <1>2, <1>8, <3>3, <3>4
  <2> QED
    BY <2>1, <2>2
<1>16. ASSUME NEW i \in 1 .. next' - 1, NEW address \in Addresses(items[i])
       PROVE  \E r \in DOMAIN records' : records'[r].address = address
  <2>1. CASE i = next
    <3>1. PICK k : k = address - first + 1
      OBVIOUS
    <3>2. address \in first .. first + size - 1
      BY <1>2, <1>8, <2>1
    <3>3. k \in 1 .. size /\ n + k \in 1 .. n + size /\ first + k - 1 = address
      BY <1>8, <1>13, <3>1, <3>2
    <3>4. records'[n + k].address = address
      BY <1>9, <1>12, <3>3 DEF n
    <3> QED
      BY <1>13, <3>3, <3>4
  <2>2. CASE i # next
    <3>1. i \in 1 .. next - 1
      BY <1>1, <2>2
    <3>2. PICK r \in DOMAIN records : records[r].address = address
      BY <1>1, <3>1 DEF RecordsInv
    <3>3. r \in 1 .. n /\ r \in 1 .. n + size
      BY <1>8, <1>13
    <3> QED
      BY <1>12, <1>13, <3>2, <3>3 DEF n
  <2> QED
    BY <2>1, <2>2
<1>17. \A r \in DOMAIN records' : \E i \in 1 .. next' - 1 :
         /\ records'[r].statement = items'[i].statement
         /\ records'[r].address \in Addresses(items[i])'
  BY <1>14, <1>15
<1>18. \A i \in 1 .. next' - 1 : \A address \in Addresses(items[i])' :
         \E r \in DOMAIN records' : records'[r].address = address
  BY <1>14, <1>16
<1> QED
  BY <1>12, <1>17, <1>18 DEF RecordsInv

LEMMA EncodeItemInv == AssemblerInv /\ EncodeItem => AssemblerInv'
<1> SUFFICES ASSUME AssemblerInv, EncodeItem PROVE AssemblerInv'
  OBVIOUS
<1>1. /\ StateInv /\ ItemsInv /\ LabelsInv /\ stage = "encode" /\ stage' = "encode"
      /\ next' = next + 1
      /\ UNCHANGED <<options, program, cursor, items, symbols, constants>>
  BY EncodeFacts
<1>2. StateInv'
  BY <1>1 DEF StateInv
<1>3. Seen \in Nat /\ Seen' = Seen
  BY <1>1, SeenFacts DEF Seen
<1>4. ItemsInv'
  BY <1>1, <1>3, ItemKept DEF ItemsInv
<1>5. LabelsInv'
  BY <1>1, <1>3 DEF LabelsInv, Between
<1> QED
  BY <1>1, <1>2, <1>4, <1>5, RomKept, RecordsKept DEF AssemblerInv

(* Nothing changes but the stage. *)
LEMMA FinishInv == AssemblerInv /\ (Finish \/ UNCHANGED vars) => AssemblerInv'
<1> SUFFICES ASSUME AssemblerInv, Finish \/ UNCHANGED vars, stage' # "error" PROVE AssemblerInv'
  BY DEF AssemblerInv
<1>1. /\ UNCHANGED <<options, program, next, cursor, items, symbols, constants, rom, records>>
      /\ stage' = stage \/ (stage = "encode" /\ stage' = "done" /\ next = Len(items) + 1)
  BY DEF Finish, vars, pass
<1>2. /\ StateInv /\ ItemsInv /\ LabelsInv
      /\ stage \in {"encode", "done"} => RomInv /\ RecordsInv
  BY <1>1 DEF AssemblerInv
<1>3. StateInv'
  BY <1>1, <1>2 DEF StateInv
<1>4. Seen \in Nat /\ Seen' = Seen
  BY <1>1, <1>2, SeenFacts DEF Seen
<1>5. ItemsInv'
  BY <1>1, <1>2, <1>4, ItemKept DEF ItemsInv
<1>6. LabelsInv'
  BY <1>1, <1>2, <1>4 DEF LabelsInv, Between
<1>7. stage' \in {"encode", "done"} => RomInv' /\ RecordsInv'
  <2> SUFFICES ASSUME stage' \in {"encode", "done"} PROVE RomInv' /\ RecordsInv'
    OBVIOUS
  <2>1. RomInv /\ RecordsInv
    BY <1>1, <1>2
  <2>2. /\ \A i : Source(items[i])' = Source(items[i]) /\ Offset(items[i])' = Offset(items[i])
        /\ \A i : Addresses(items[i])' = Addresses(items[i])
    BY <1>1 DEF Source, Offset, Addresses
  <2>3. \A i, address : Spared(i, address)' <=> Spared(i, address)
    BY <1>1, <2>2 DEF Spared
  <2>4. RomInv'
    <3>1. /\ next' <= Len(items') + 1 /\ (stage' = "done" => next' = Len(items') + 1)
          /\ DOMAIN rom' = 0 .. options'.rom_size - 1
      BY <1>1, <2>1 DEF RomInv
    <3>2. ASSUME NEW i \in 1 .. next' - 1
          PROVE  /\ Offset(items[i])' + Size(Source(items[i])') <= options'.rom_size
                 /\ InRange(items[i])'
                 /\ \A k \in 1 .. Size(Source(items[i])') :
                      Spared(i, items[i].address + k - 1)' =>
                        rom'[Offset(items[i])' + k - 1] = ByteOf(items[i], k)'
      <4>1. PICK old : old = items[i] /\ old = items'[i]
        BY <1>1
      <4>2. /\ Offset(old) + Size(Source(old)) <= options.rom_size /\ InRange(old)
            /\ \A k \in 1 .. Size(Source(old)) :
                 Spared(i, old.address + k - 1) => rom[Offset(old) + k - 1] = ByteOf(old, k)
        BY <1>1, <2>1, <4>1 DEF RomInv
      <4>3. /\ Source(old)' = Source(old) /\ Offset(old)' = Offset(old)
            /\ InRange(old)' <=> InRange(old)
            /\ \A k : ByteOf(old, k)' = ByteOf(old, k)
        BY <1>1, EncodeFrame
      <4>4. /\ Offset(old)' + Size(Source(old)') <= options'.rom_size /\ InRange(old)'
            /\ \A k \in 1 .. Size(Source(old)') :
                 Spared(i, old.address + k - 1)' => rom'[Offset(old)' + k - 1] = ByteOf(old, k)'
        BY <1>1, <2>3, <4>2, <4>3
      <4> QED
        BY <4>1, <4>4
    <3>3. ASSUME NEW offset \in DOMAIN rom', Spared(0, options.origin + offset)'
          PROVE  rom'[offset] = Fill
      <4>1. PICK address : address = options.origin + offset /\ address = options'.origin + offset
        BY <1>1
      <4>2. Spared(0, address)
        BY <2>3, <3>3, <4>1
      <4> QED
        BY <1>1, <2>1, <4>1, <4>2 DEF RomInv
    <3> QED
      BY <3>1, <3>2, <3>3 DEF RomInv
  <2>5. RecordsInv'
    BY <1>1, <2>1, <2>2 DEF RecordsInv
  <2> QED
    BY <2>4, <2>5
<1> QED
  BY <1>3, <1>5, <1>6, <1>7 DEF AssemblerInv

LEMMA AssembleInv == AssemblerInv /\ [Assemble]_vars => AssemblerInv'
<1> SUFFICES ASSUME AssemblerInv, [Assemble]_vars PROVE AssemblerInv'
  OBVIOUS
<1>1. CASE SourceRejected \/ RefuseStatement \/ RefuseItem
  <2>1. stage' = "error"
    BY <1>1 DEF SourceRejected, RefuseStatement, RefuseItem, Throw
  <2> QED
    BY <2>1 DEF AssemblerInv
<1>2. CASE SourceParsed \/ \E statements : BeginFirstPass(statements)
  BY <1>2, BeforeFirstPass
<1>3. CASE LabelDecl
  BY <1>3, LabelDeclInv
<1>4. CASE EquDecl
  BY <1>4, EquDeclInv
<1>5. CASE Org
  BY <1>5, OrgInv
<1>6. CASE ByteDirective
  BY <1>6, EmitInv DEF ByteDirective
<1>7. CASE InstructionStmt
  BY <1>7, EmitInv DEF InstructionStmt
<1>8. CASE BeginEncode
  BY <1>8, EncodeBegins
<1>9. CASE EncodeItem
  BY <1>9, EncodeItemInv
<1>10. CASE Finish \/ UNCHANGED vars
  BY <1>10, FinishInv
<1> QED
  BY <1>1, <1>2, <1>3, <1>4, <1>5, <1>6, <1>7, <1>8, <1>9, <1>10 DEF Assemble, Next

-----------------------------------------------------------------------------
(***************************************************************************)
(* The theorems.                                                           *)
(***************************************************************************)

(* What holds once Encode has returned. *)
LEMMA DoneFacts ==
  ASSUME AssemblerInv, stage = "done"
  PROVE  /\ StateInv /\ LabelsInv /\ RomInv /\ RecordsInv
         /\ Len(items) \in Nat /\ next = Len(items) + 1 /\ DOMAIN items = 1 .. Len(items)
         /\ Seen = Len(program)
         /\ \A i \in DOMAIN items : IsItem(items[i]) /\ i \in 1 .. next - 1
<1>1. StateInv /\ ItemsInv /\ LabelsInv /\ RomInv /\ RecordsInv /\ Seen = Len(program)
  BY DEF AssemblerInv, Seen
<1>2. Len(items) \in Nat /\ DOMAIN items = 1 .. Len(items)
  BY <1>1, SequenceFacts DEF StateInv
<1>3. next = Len(items) + 1
  BY <1>1 DEF RomInv
<1> QED
  BY <1>1, <1>2, <1>3 DEF ItemsInv

LEMMA ItemsFitDone == AssemblerInv => ItemsFit
<1> SUFFICES ASSUME AssemblerInv, stage = "done", NEW item \in Range(items),
                    NEW address \in Addresses(item)
             PROVE  /\ address \in options.origin .. (options.origin + options.rom_size - 1)
                    /\ address \in 0 .. LastAddress
  BY DEF ItemsFit
<1>1. PICK i \in DOMAIN items : item = items[i]
  BY DEF Range
<1>2. StateInv /\ IsItem(item)
  BY <1>1, DoneFacts
<1> DEFINE size == Size(Source(item))
           start == Offset(item)
           origin == options.origin
           top == options.rom_size
           first == item.address
<1>3. start + size <= top
  BY <1>1, DoneFacts DEF RomInv
<1>4. /\ size \in Nat /\ origin \in Nat /\ top \in Nat /\ first \in Nat /\ LastAddress \in Nat
      /\ origin <= first /\ first + size - 1 <= LastAddress
      /\ start = first - origin /\ address \in first .. first + size - 1
  BY <1>2, PlaceFacts
<1> HIDE DEF size, start, origin, top, first
<1>5. address \in origin .. (origin + top - 1) /\ address \in 0 .. LastAddress
  BY <1>3, <1>4
<1> QED
  BY <1>5 DEF origin, top

(* A program that is assembled lies within the cartridge and within the
   address space, to the last byte of every item, though the check at the
   start of Encode lets one byte too many pass. *)
THEOREM ProgramFits == AssembleSpec => []ItemsFit
<1> QED
  BY InitInv, AssembleInv, ItemsFitDone, PTL DEF AssembleSpec

LEMMA SourceMapDone == AssemblerInv => SourceMapNamesWriter
<1> SUFFICES ASSUME AssemblerInv, stage = "done", NEW address
             PROVE  LET writers == {item.statement : item \in {t \in Range(items) :
                                                                 address \in Addresses(t)}}
                    IN  IF writers = {} THEN address \notin DOMAIN PcToSource
                        ELSE /\ address \in DOMAIN PcToSource
                             /\ PcToSource[address] \in writers
  BY DEF SourceMapNamesWriter
<1> DEFINE writers == {item.statement : item \in {t \in Range(items) : address \in Addresses(t)}}
           R == {r \in 1 .. Len(records) : records[r].address = address}
<1>1. /\ RecordsInv /\ next = Len(items) + 1 /\ Len(items) \in Nat
      /\ DOMAIN items = 1 .. Len(items)
  BY DoneFacts
<1>2. Len(records) \in Nat /\ DOMAIN records = 1 .. Len(records)
  BY <1>1, SequenceFacts DEF RecordsInv
<1>3. ASSUME NEW r \in R PROVE records[r].statement \in writers
  <2>1. PICK i \in 1 .. next - 1 :
          records[r].statement = items[i].statement /\ records[r].address \in Addresses(items[i])
    BY <1>1, <1>2 DEF RecordsInv
  <2>2. items[i] \in Range(items) /\ address \in Addresses(items[i])
    BY <1>1, <2>1 DEF Range
  <2> QED
    BY <2>1, <2>2
<1>4. ASSUME writers # {} PROVE R # {}
  <2>1. PICK item \in Range(items) : address \in Addresses(item)
    BY <1>4
  <2>2. PICK i \in DOMAIN items : item = items[i]
    BY DEF Range
  <2>3. i \in 1 .. next - 1
    BY <1>1
  <2>4. PICK r \in DOMAIN records : records[r].address = address
    BY <1>1, <2>1, <2>2, <2>3 DEF RecordsInv
  <2> QED
    BY <1>2, <2>4
<1>5. address \in DOMAIN PcToSource <=> R # {}
  BY <1>2 DEF PcToSource, Range
<1>6. R # {} => PcToSource[address] = records[Min(R)].statement
  <2>1. SelectInSeq(records, LAMBDA r : r.address = address) = IF R # {} THEN Min(R) ELSE 0
    BY DEF SelectInSeq
  <2> QED
    BY <1>5, <2>1 DEF PcToSource
<1>7. R # {} => Min(R) \in R
  <2>1. R \subseteq Nat
    BY <1>2
  <2> HIDE DEF R
  <2> QED
    BY <2>1, MinFacts
<1> HIDE DEF R, writers
<1>8. IF writers = {} THEN address \notin DOMAIN PcToSource
      ELSE address \in DOMAIN PcToSource /\ PcToSource[address] \in writers
  BY <1>3, <1>4, <1>5, <1>6, <1>7
<1> QED
  BY <1>8 DEF writers

(* pc_to_source, which the debugger looks an address up in, names for every
   emitted byte a statement that emitted it, and knows no other address. *)
THEOREM SourceMapIsRight == AssembleSpec => []SourceMapNamesWriter
<1> QED
  BY InitInv, AssembleInv, SourceMapDone, PTL DEF AssembleSpec

(* An operand that is read back: a branch target and a word. *)
LEMMA BranchIsRead ==
  ASSUME NEW t \in Word, NEW a \in Nat, t - (a + 2) \in -128 .. 127
  PROVE  AsWord(a + 2 + Signed(AsByte(t - (a + 2)))) = t
<1>1. t \in Nat /\ t <= LastAddress
  BY WordBound
<1> DEFINE d == t - (a + 2)
<1>2. d \in Int /\ -128 <= d /\ d <= 127 /\ a + 2 + d = t
  BY <1>1
<1> HIDE DEF d
<1>3. Signed(AsByte(d)) = d
  BY <1>2, SMT DEF Signed, AsByte
<1>4. AsWord(t) = t
  BY <1>1, AsWordFacts
<1> QED
  BY <1>2, <1>3, <1>4 DEF d

LEMMA WordIsRead ==
  ASSUME NEW t \in Nat
  PROVE  MakeWord(high(t), low(t)) = t
  BY SMT DEF MakeWord, high, low

(* What the cartridge holds of an item that is not overwritten. *)
LEMMA ItemIsThere ==
  ASSUME AssemblerInv, stage = "done", NEW i \in DOMAIN items, ~Overwritten(i),
         NEW k \in 1 .. Size(Source(items[i]))
  PROVE  rom[Offset(items[i]) + k - 1] = ByteOf(items[i], k)
<1>1. /\ StateInv /\ IsItem(items[i]) /\ RomInv /\ next = Len(items) + 1 /\ Len(items) \in Nat
      /\ i \in 1 .. next - 1
  BY DoneFacts
<1> DEFINE first == items[i].address
           size == Size(Source(items[i]))
<1>2. first \in Nat /\ size \in Nat /\ Addresses(items[i]) = first .. first + size - 1
  BY <1>1, PlaceFacts
<1>3. k \in 1 .. size
  OBVIOUS
<1> HIDE DEF first, size
<1>4. first + k - 1 \in Addresses(items[i])
  BY <1>2, <1>3
<1>5. next - 1 = Len(items)
  BY <1>1
<1>6. Spared(i, first + k - 1)
  BY <1>4, <1>5 DEF Spared, Overwritten
<1> QED
  BY <1>1, <1>6 DEF RomInv, first

LEMMA CodeIsThere ==
  ASSUME AssemblerInv, stage = "done", NEW i \in DOMAIN items, ~Overwritten(i),
         Source(items[i]).kind = "instruction"
  PROVE  /\ InRom(items[i])[1] = Source(items[i]).mnemonic
         /\ Source(items[i]).operands # << >> =>
              Decoded(items[i].address, InRom(items[i])[2]) = Meant(Source(items[i]).operands[1])
<1>1. PICK item : item = items[i]
  OBVIOUS
<1>2. StateInv /\ IsItem(item) /\ InRange(item)
  BY <1>1, DoneFacts DEF RomInv
<1>3. PICK mode : /\ item.instruction = <<Source(item).mnemonic, mode>>
                  /\ item.instruction \in Instructions
                  /\ Size(Source(item)) = 1 + OperandBytes(mode)
                  /\ item.operands # << >> => mode \in ArgumentModes
  BY <1>1, <1>2, ItemFacts
<1>4. item.instruction # << >> /\ item.instruction[2] = mode /\ item.operands = Source(item).operands
  BY <1>2, <1>3 DEF IsItem
<1> DEFINE first == item.address
           origin == options.origin
           start == Offset(item)
           size == Size(Source(item))
           value == Argument(item)
           byte(k) == rom[first + k - origin]
<1>5. /\ first \in Nat /\ origin \in Nat /\ start = first - origin
      /\ size \in Nat /\ size >= 1 /\ size = 1 + OperandBytes(mode)
  BY <1>2, <1>3, PlaceFacts
<1>6. \A k \in 1 .. size : rom[start + k - 1] = ByteOf(item, k)
  BY <1>1, ItemIsThere
<1>7. \A k : ByteOf(item, k) = IF k = 1 THEN Opcode(item.instruction)
                               ELSE IF k = 3 THEN high(value)
                               ELSE IF OperandBytes(mode) = 2 THEN low(value)
                               ELSE IF mode = "REL" THEN AsByte(value - (first + 2))
                               ELSE value
  BY <1>4 DEF ByteOf
<1>8. /\ OperandBytes(mode) = 2 => value \in Word
      /\ mode = "REL" => value \in Word /\ value - (first + 2) \in -128 .. 127
  BY <1>2, <1>4 DEF InRange
<1>9. Decoded(item.address, mode) =
        IF mode = "REL" THEN AsWord(first + 2 + Signed(byte(1)))
        ELSE IF OperandBytes(mode) = 1 THEN byte(1) ELSE MakeWord(byte(2), byte(1))
  BY DEF Decoded
<1>10. InRom(item) = InstructionAt[rom[start]]
  BY DEF InRom
<1>11. value = Meant(Source(item).operands[1])
  BY <1>4 DEF Argument
<1> HIDE DEF first, origin, start, size, value
<1>12. InRom(item) = <<Source(item).mnemonic, mode>>
  <2>1. 1 \in 1 .. size /\ start + 1 - 1 = start
    BY <1>5
  <2>2. rom[start] = Opcode(item.instruction)
    BY <1>6, <1>7, <2>1
  <2> QED
    BY <1>3, <1>10, <2>2, OpcodeIsRead
<1>13. ASSUME item.operands # << >> PROVE Decoded(item.address, mode) = value
  <2>1. OperandBytes(mode) \in {1, 2} /\ (mode = "REL" => OperandBytes(mode) = 1)
    BY <1>3, <1>13, ModeSizes
  <2>2. 2 \in 1 .. size /\ (OperandBytes(mode) = 2 => 3 \in 1 .. size)
    BY <1>5, <2>1
  <2>3. first + 1 - origin = start + 2 - 1 /\ first + 2 - origin = start + 3 - 1
    BY <1>5
  <2>4. byte(1) = ByteOf(item, 2) /\ (OperandBytes(mode) = 2 => byte(2) = ByteOf(item, 3))
    BY <1>6, <2>2, <2>3
  <2> HIDE DEF byte
  <2>5. CASE mode = "REL"
    <3>1. byte(1) = AsByte(value - (first + 2))
      BY <1>7, <2>1, <2>4, <2>5
    <3> QED
      BY <1>5, <1>8, <1>9, <2>5, <3>1, BranchIsRead
  <2>6. CASE mode # "REL" /\ OperandBytes(mode) = 1
    BY <1>7, <1>9, <2>4, <2>6
  <2>7. CASE mode # "REL" /\ OperandBytes(mode) = 2
    <3>1. byte(1) = low(value) /\ byte(2) = high(value)
      BY <1>7, <2>4, <2>7
    <3>2. value \in Nat
      BY <1>8, <2>7, WordBound
    <3> QED
      BY <1>9, <2>7, <3>1, <3>2, WordIsRead
  <2> QED
    BY <2>1, <2>5, <2>6, <2>7
<1> QED
  BY <1>1, <1>4, <1>11, <1>12, <1>13

LEMMA ImageDone == AssemblerInv => ImageMatchesSource
<1> SUFFICES ASSUME AssemblerInv, stage = "done" PROVE ImageMatchesSource
  BY DEF ImageMatchesSource
<1>1. /\ StateInv /\ RomInv /\ next - 1 = Len(items) /\ Len(items) \in Nat
      /\ DOMAIN items = 1 .. Len(items)
      /\ \A i \in DOMAIN items : IsItem(items[i])
  BY DoneFacts
<1>2. ASSUME NEW i \in DOMAIN items, ~Overwritten(i), Source(items[i]).kind = "byte",
             NEW k \in DOMAIN Source(items[i]).operands
      PROVE  rom[Offset(items[i]) + k - 1] = Meant(Source(items[i]).operands[k])
  <2>1. PICK item : item = items[i]
    OBVIOUS
  <2>2. /\ item.operands = Source(item).operands /\ item.instruction = << >>
        /\ Size(Source(item)) = Len(item.operands)
    BY <1>1, <1>2, <2>1 DEF IsItem, Size
  <2>3. DOMAIN item.operands = 1 .. Len(item.operands)
    BY <1>1, <2>1, ItemFacts, SequenceFacts
  <2>4. rom[Offset(item) + k - 1] = ByteOf(item, k)
    BY <1>2, <2>1, <2>2, <2>3, ItemIsThere
  <2> QED
    BY <2>1, <2>2, <2>4 DEF ByteOf
<1>3. ASSUME NEW offset \in DOMAIN rom,
             \A item \in Range(items) : options.origin + offset \notin Addresses(item)
      PROVE  rom[offset] = Fill
  <2>1. \A j \in DOMAIN items : items[j] \in Range(items)
    BY DEF Range
  <2>2. 0 + 1 .. next - 1 = DOMAIN items
    BY <1>1
  <2>3. Spared(0, options.origin + offset)
    BY <1>3, <2>1, <2>2 DEF Spared
  <2> QED
    BY <1>1, <2>3 DEF RomInv
<1>4. \A i \in DOMAIN items : Source(items[i]).kind \in {"byte", "instruction"}
  BY <1>1 DEF IsItem
<1> QED
  BY <1>2, <1>3, <1>4, CodeIsThere DEF ImageMatchesSource

(* The cartridge is the source: disassembled at the place of any statement
   that no later one overwrites, it gives the statement back, mnemonic,
   operand and branch target, and all else is fill. *)
THEOREM ImageIsSource == AssembleSpec => []ImageMatchesSource
<1> QED
  BY InitInv, AssembleInv, ImageDone, PTL DEF AssembleSpec

LEMMA LabelsDone == AssemblerInv => LabelsReachCode
<1> SUFFICES ASSUME AssemblerInv, stage = "done",
                    NEW i \in DOMAIN items, NEW j \in DOMAIN items, NEW k \in DOMAIN program,
                    Source(items[i]).kind = "instruction", Source(items[i]).operands # << >>,
                    ~Overwritten(i), program[k].kind = "label",
                    Source(items[i]).operands[1].kind = "label",
                    Source(items[i]).operands[1].label = program[k].name,
                    program[k].name \notin DOMAIN constants,
                    items[j].statement > k,
                    \A s \in k + 1 .. items[j].statement - 1 : program[s].kind \in {"label", "equ"}
             PROVE  Decoded(items[i].address, InRom(items[i])[2]) = items[j].address
  BY DEF LabelsReachCode
<1>1. Decoded(items[i].address, InRom(items[i])[2]) = Meant(Source(items[i]).operands[1])
  BY CodeIsThere
<1>2. Meant(Source(items[i]).operands[1]) = symbols[program[k].name]
  BY DEF Meant
<1>3. LabelsInv /\ k \in 1 .. Seen
  BY DoneFacts, SeenFacts
<1>4. Between(k, items[j].statement)
  BY DEF Between
<1>5. symbols[program[k].name] = items[j].address
  BY <1>3, <1>4 DEF LabelsInv
<1> QED
  BY <1>1, <1>2, <1>5

(* An operand that names a label reaches, through the cartridge, the first
   item behind the label: the address FirstPass gave the label is the one
   Encode used, wherever the label stands. *)
THEOREM LabelsAreReached == AssembleSpec => []LabelsReachCode
<1> QED
  BY InitInv, AssembleInv, LabelsDone, PTL DEF AssembleSpec
=============================================================================

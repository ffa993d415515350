--------------------------- MODULE InstructionSet ---------------------------
(***************************************************************************)
(* The instruction set of isa/instructions.yaml: which mnemonics exist in  *)
(* which addressing modes, under which opcode.                             *)
(***************************************************************************)

(* Opcodes, by mnemonic and addressing mode. *)
OpcodeOf ==
  [HLT |-> [IMP |-> \h01], NOP |-> [IMP |-> \h02],
   LDA |-> [IMM |-> \h10, ZP |-> \h40, ABS |-> \h50, ZPX |-> \h80,
           ABX |-> \hA0, ABY |-> \hB0, IZX |-> \hD5, IZY |-> \hDD],
   CMP |-> [IMM |-> \h11, ZP |-> \h49, ABS |-> \h59, ZPX |-> \h89,
           ABX |-> \hA9, ABY |-> \hB9, IZX |-> \hDC, IZY |-> \hE4],
   JEQ |-> [ABS |-> \h12],
   ADC |-> [IMM |-> \h20, ZP |-> \h44, ABS |-> \h54, ZPX |-> \h84,
           ABX |-> \hA4, ABY |-> \hB4, IZX |-> \hD7, IZY |-> \hDF],
   SBC |-> [IMM |-> \h21, ZP |-> \h45, ABS |-> \h55, ZPX |-> \h85,
           ABX |-> \hA5, ABY |-> \hB5, IZX |-> \hD8, IZY |-> \hE0],
   AND |-> [IMM |-> \h22, ZP |-> \h46, ABS |-> \h56, ZPX |-> \h86,
           ABX |-> \hA6, ABY |-> \hB6, IZX |-> \hD9, IZY |-> \hE1],
   ORA |-> [IMM |-> \h23, ZP |-> \h47, ABS |-> \h57, ZPX |-> \h87,
           ABX |-> \hA7, ABY |-> \hB7, IZX |-> \hDA, IZY |-> \hE2],
   EOR |-> [IMM |-> \h24, ZP |-> \h48, ABS |-> \h58, ZPX |-> \h88,
           ABX |-> \hA8, ABY |-> \hB8, IZX |-> \hDB, IZY |-> \hE3],
   ASL |-> [IMP |-> \h25, ZP |-> \h4A, ABS |-> \h5A, ZPX |-> \h8A,
           ABX |-> \hAA],
   LSR |-> [IMP |-> \h26, ZP |-> \h4B, ABS |-> \h5B, ZPX |-> \h8B,
           ABX |-> \hAB],
   ROL |-> [IMP |-> \h27, ZP |-> \h4C, ABS |-> \h5C, ZPX |-> \h8C,
           ABX |-> \hAC],
   ROR |-> [IMP |-> \h28, ZP |-> \h4D, ABS |-> \h5D, ZPX |-> \h8D,
           ABX |-> \hAD], TAX |-> [IMP |-> \h30], TXA |-> [IMP |-> \h31],
   LDX |-> [IMM |-> \h32, ZP |-> \h42, ABS |-> \h52, ZPY |-> \h90,
           ABY |-> \hB2], TAY |-> [IMP |-> \h33], TYA |-> [IMP |-> \h34],
   LDY |-> [IMM |-> \h35, ZP |-> \h4E, ABS |-> \h5E, ZPX |-> \h82,
           ABX |-> \hA2],
   STA |-> [ZP |-> \h41, ABS |-> \h51, ZPX |-> \h81, ABX |-> \hA1,
           ABY |-> \hB1, IZX |-> \hD6, IZY |-> \hDE],
   STX |-> [ZP |-> \h43, ABS |-> \h53, ZPY |-> \h91, ABY |-> \hB3],
   STY |-> [ZP |-> \h4F, ABS |-> \h5F, ZPX |-> \h83, ABX |-> \hA3],
   INX |-> [IMP |-> \h60], DEX |-> [IMP |-> \h61], INY |-> [IMP |-> \h66],
   DEY |-> [IMP |-> \h67],
   INC |-> [ZP |-> \h62, ABS |-> \h64, ZPX |-> \h8E, ABX |-> \hAE],
   DEC |-> [ZP |-> \h63, ABS |-> \h65, ZPX |-> \h8F, ABX |-> \hAF],
   BEQ |-> [REL |-> \h70], BNE |-> [REL |-> \h71], BCS |-> [REL |-> \h72],
   BCC |-> [REL |-> \h73], BMI |-> [REL |-> \h74], BPL |-> [REL |-> \h75],
   BVS |-> [REL |-> \h76], BVC |-> [REL |-> \h77], PHA |-> [IMP |-> \hC0],
   PLA |-> [IMP |-> \hC1], PHP |-> [IMP |-> \hC2], PLP |-> [IMP |-> \hC3],
   TSX |-> [IMP |-> \hC4], TXS |-> [IMP |-> \hC5], JSR |-> [ABS |-> \hC6],
   RTS |-> [IMP |-> \hC7], CLC |-> [IMP |-> \hC8], SEC |-> [IMP |-> \hC9],
   CLV |-> [IMP |-> \hCA], CPX |-> [IMM |-> \hCB, ZP |-> \hCC, ABS |-> \hCD],
   CPY |-> [IMM |-> \hCE, ZP |-> \hCF, ABS |-> \hD0],
   BIT |-> [ZP |-> \hD1, ABS |-> \hD2], JMP |-> [ABS |-> \hD3, IND |-> \hD4],
   BRK |-> [IMP |-> \hE5], IRQ |-> [IMP |-> \h00], RTI |-> [IMP |-> \hE6],
   CRS |-> [IMP |-> \hFF]]

Instructions == UNION {{m} \X DOMAIN OpcodeOf[m] : m \in DOMAIN OpcodeOf}
Opcode(i) == OpcodeOf[i[1]][i[2]]
Opcodes == {Opcode(i) : i \in Instructions}

(* No two instructions share an opcode. *)
ASSUME OpcodesDiffer == \A i, j \in Instructions : Opcode(i) = Opcode(j) => i = j

InstructionAt == [op \in Opcodes |-> CHOOSE i \in Instructions : Opcode(i) = op]
=============================================================================

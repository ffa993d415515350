--------------------------- MODULE MCAssembleFile ----------------------------
(***************************************************************************)
(* Every program of up to three statements at the start and at the end of  *)
(* the address space, branches at the limits of their range, and programs  *)
(* of several files.  Small programs at $8000 are written, loaded,         *)
(* disassembled and assembled again; a few are written in bad conditions.  *)
(* Texts of a few characters are read by the lexer and the parser.         *)
(***************************************************************************)
EXTENDS Toolchain

Num(n) == [kind |-> "number", number |-> n, immediate |-> FALSE,
           indirect |-> FALSE, index_register |-> "none"]
Lab(l) == [kind |-> "label", label |-> l, immediate |-> FALSE,
           indirect |-> FALSE, index_register |-> "none"]
Imm(op) == [op EXCEPT !.immediate = TRUE]
Ind(op) == [op EXCEPT !.indirect = TRUE]
Indexed(op, r) == [op EXCEPT !.index_register = r]

Label(name) == [kind |-> "label", name |-> name]
Equ(name, value) == [kind |-> "equ", name |-> name, value |-> value]
At(op) == [kind |-> "org", operands |-> <<op>>]
Data(ops) == [kind |-> "byte", operands |-> ops]
Do(mnemonic, ops) == [kind |-> "instruction", mnemonic |-> mnemonic, operands |-> ops]

Statements ==
  {Label("p"), Label("q"), Equ("p", 18), Equ("q", 65533),
   At(Num(18)), At(Num(65533)), At(Num(65536)), At(Lab("p")),
   Data(<<Num(1)>>), Data(<<Num(3), Lab("p")>>), Data(<<Num(256)>>), Data(<< >>),
   Do("NOP", << >>), Do("NOP", <<Num(1)>>), Do("NOT", << >>),
   Do("LDA", <<Num(1), Num(2)>>), Do("BEQ", <<Imm(Num(1))>>),
   Do("BEQ", <<Lab("p")>>), Do("BNE", <<Num(65533)>>), Do("BNE", <<Lab("q")>>),
   Do("LDA", <<Imm(Lab("p"))>>), Do("LDA", <<Num(18)>>), Do("LDA", <<Num(65536)>>),
   Do("STX", <<Indexed(Lab("p"), "Y")>>), Do("LDA", <<Indexed(Num(255), "X")>>),
   Do("LDA", <<Indexed(Num(256), "X")>>), Do("LDA", <<Ind(Indexed(Lab("p"), "Y"))>>),
   Do("LDA", <<Ind(Indexed(Num(17), "X"))>>), Do("JMP", <<Ind(Lab("q"))>>),
   Do("JSR", <<Lab("q")>>)}

SeqsUpTo(S, n) == UNION {[1 .. k -> S] : k \in 0 .. n}

(* A branch and its target, n bytes apart in either direction. *)
Filler(n) == Data([k \in 1 .. n |-> Num(0)])
Branches(n) ==
  {<<Label("p"), Filler(n), Do("BEQ", <<Lab("p")>>)>>,
   <<Do("BEQ", <<Lab("p")>>), Filler(n), Label("p"), Do("NOP", << >>)>>}

(* Three files, of which the later ones are included by the earlier, several
   times or not at all; and two that include each other. *)
Incl(file) == [kind |-> "include", include_path |-> file]
MCGarbage == <<[kind |-> "garbage"]>>
Acyclic ==
  {[root |-> r, a |-> a, b |-> b] :
     r \in SeqsUpTo({Do("JMP", <<Lab("p")>>), Incl("a"), Incl("b"), Incl("missing")}, 3)
            \cup {MCGarbage},
     a \in SeqsUpTo({Data(<<Num(1)>>), Incl("b")}, 2),
     b \in {<<Do("NOP", << >>)>>, <<Label("p"), Data(<<Num(2)>>)>>, MCGarbage}}
Cyclic == [root |-> <<Incl("a")>>, a |-> <<Data(<<Num(1)>>), Incl("b")>>,
           b |-> <<Incl("a")>>]

Given(o, size) == [origin |-> o, rom_size |-> size]

(* Code, data and labels in five bytes: data that looks like code, labels
   together, within an instruction and behind the cartridge, backward .org. *)
Shipped ==
  {Label("p"), Label("q"), At(Num(32768)), At(Num(32770)),
   Data(<<Num(\h70), Num(254)>>), Data(<<Num(\hE7)>>), Data(<<Num(\h50)>>),
   Do("NOP", << >>), Do("JMP", <<Lab("p")>>), Do("BEQ", <<Lab("q")>>),
   Do("LDA", <<Indexed(Lab("q"), "X")>>), Do("LDA", <<Ind(Indexed(Num(17), "Y"))>>)}
InBadConditions ==
  {<<Label("p"), Do("NOP", << >>), At(Num(32768)), Data(<<Num(1), Num(2)>>)>>,
   <<Label("q"), Label("p"), Do("JMP", <<Lab("p")>>), Data(<<Num(1)>>)>>,
   <<Do("JMP", <<Lab("p")>>)>>, << >>}

Older ==
  [entry |-> 32768, rom |-> <<255, 254, 253>>,
   source_root |-> <<".">>, source_files |-> <<<<"old">>>>,
   symbols |-> [name \in {<<"p">>} |-> 32770],
   records |-> <<[address |-> 32768, rom_offset |-> 0,
                  location |-> [file |-> <<"old">>, line |-> 1, column |-> 1,
                                text |-> <<"bell", "quote">>]]>>]
MCSourceText(stmt) ==
  CASE stmt.kind = "byte" -> <<"tab", "quote", "backslash", "n", "quote", "return">>
    [] OTHER -> <<"slash", "backslash", "u", "escape", "1">>

(* What goes through the lexer: any few characters and words, strings and
   comments, numbers, the operand of an instruction, a directive. *)
MCLetters == {"NOP", "LDA", "p", "X", "Y", "b", "f", "org", "byte", "equ", "include"}
Marks == {" ", Newline, ",", "(", ")", ":", ";", ".", "#", "$", "%", "quote", "backslash"}
ShortTexts == SeqsUpTo(Marks \cup {"NOP", "p", "X", "1", "?"}, 3)
StringTexts == SeqsUpTo({"quote", "backslash", Newline, ";", "p", " "}, 5)
NumberTexts == SeqsUpTo({"#", "$", "%", "0", "1", "X", "b", "f", "9"}, 4)
OperandTexts ==
  {<<"LDA", " ">> \o s : s \in SeqsUpTo({"X", "Y", "1", "(", ")", ",", "#", "p"}, 4)
     \cup [1 .. 5 -> {"X", "1", "(", ")", ",", "#"}]}
DirectiveTexts ==
  {<<"return", "tab", ".", d>> \o s :
     d \in {"org", "byte", "equ", "include", "p"},
     s \in SeqsUpTo({" ", "p", ",", "1", "quote", "X"}, 4)}

MCOptions == {Given(16, 5), Given(65531, 5), Given(65531, 8), Given(32768, 132),
              Given(32768, 16), Given(32768, 5), Given(32768, 7),
              Given(32768, 6)}
MCShips(o) == o.rom_size \in {5, 7} /\ o.origin = 32768
MCFaults(o) == o.rom_size = 7
MCFileName == <<"dir", "backslash", "a", "quote">>
MCSourceRoot == <<"slash", "backslash">>
MCTrees(o) ==
  CASE o = Given(32768, 132) -> [root : UNION {Branches(n) : n \in 125 .. 128}]
    [] o = Given(32768, 16) -> Acyclic
    [] o = Given(32768, 5) -> [root : SeqsUpTo(Shipped, 3)]
    [] o = Given(32768, 7) -> [root : InBadConditions]
    [] o = Given(32768, 6) -> [root : {<< >>}]
    [] o = Given(65531, 8) ->
         [root : {s \in SeqsUpTo(Statements, 3) :
                    s # << >> => s[1].kind \in {"label", "equ", "org"}}]
    [] OTHER -> [root : SeqsUpTo(Statements, 3)]
MCTexts(o) ==
  IF o = Given(32768, 6)
    THEN UNION {ShortTexts, StringTexts, NumberTexts, OperandTexts, DirectiveTexts}
    ELSE {}

CyclicOptions == {Given(32768, 16)}
CyclicTrees(o) == {Cyclic}
=============================================================================

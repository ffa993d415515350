-------------------------------- MODULE Parser --------------------------------
(***************************************************************************)
(* assembler/src/parser.cpp on the tokens of Lexer.  One step is a         *)
(* newline, a label, or a directive or an instruction with the end of its  *)
(* line.                                                                   *)
(***************************************************************************)
EXTENDS Lexer

VARIABLES
  parsed_to,  \* index_, from 1
  statements  \* program.statements

parseVars == <<parsed_to, statements>>

(* Peek and PeekNext stay at EndOfFile. *)
Token(i) == tokens[Min({i, Len(tokens)})]
Check(i, kind) == Token(i).kind = kind

(* token.text of a name, without the dot of a directive. *)
Joined(chars) == FoldLeft(LAMBDA s, ch : s \o ch, "", chars)
Name(i) ==
  Joined(SubSeq(text, Token(i).first + (IF Check(i, "directive") THEN 1 ELSE 0),
                Token(i).end - 1))
IsImmediate(i) == Char(Token(i).first) = "#"

ValueOperand(n) ==
  [kind |-> "number", number |-> n, immediate |-> FALSE,
   indirect |-> FALSE, index_register |-> "none"]
NameOperand(l) ==
  [kind |-> "label", label |-> l, immediate |-> FALSE,
   indirect |-> FALSE, index_register |-> "none"]

(* What a parsing function returns: where it stopped and what it built. *)
Built(at, value) == [ok |-> TRUE, at |-> at, value |-> value]
Rejected == [ok |-> FALSE, at |-> 0, value |-> << >>]

IsName(i, names) == Check(i, "identifier") /\ Name(i) \in names

(* Behind the operand of an indirect one: an index X and the parenthesis. *)
CloseParen(inner) ==
  LET indexed == Check(inner.at, ",")
      close == IF indexed THEN inner.at + 2 ELSE inner.at
  IN  IF /\ ~inner.value.immediate
         /\ indexed => IsName(inner.at + 1, {"X"})
         /\ Check(close, ")")
        THEN Built(close + 1,
                    [inner.value EXCEPT !.indirect = TRUE,
                                        !.index_register = IF indexed THEN "X" ELSE @])
        ELSE Rejected

ParseOperand(i) ==
  LET parsed[k \in 1 .. Len(tokens)] ==
        CASE Check(k, "#") ->
               IF Check(k + 1, "identifier")
                 THEN Built(k + 2, [NameOperand(Name(k + 1)) EXCEPT !.immediate = TRUE])
                 ELSE Rejected
          [] Check(k, "(") -> IF parsed[k + 1].ok THEN CloseParen(parsed[k + 1]) ELSE Rejected
          [] Check(k, "number") ->
               Built(k + 1, [ValueOperand(Token(k).number) EXCEPT !.immediate = IsImmediate(k)])
          [] Check(k, "identifier") -> Built(k + 1, NameOperand(Name(k)))
          [] OTHER -> Rejected
  IN  parsed[i]

(* Mutant: an index register is just another operand. *)
IndexUnknown(i, indexable) == FALSE

(* Behind a comma of an instruction X and Y are registers. *)
IndexFollows(i, indexable) == indexable /\ IsName(i, {"X", "Y"})

(* Mutant: the index goes to the first operand. *)
IndexFirst(operands, register) == [operands EXCEPT ![1].index_register = "X"]

(* stmt.operands.back().index_register *)
IndexLast(operands, register) ==
  [operands EXCEPT ![Len(operands)].index_register = register]

(* Behind an operand the loop goes on at a comma; the operands so far are given. *)
BehindOperand(operand, before, indexable) ==
  LET operands == Append(before, operand.value)
      stop(at, value) == [more |-> FALSE, result |-> Built(at, value)]
  IN  CASE ~operand.ok -> [more |-> FALSE, result |-> Rejected]
        [] operand.ok /\ ~Check(operand.at, ",") -> stop(operand.at, operands)
        [] operand.ok /\ Check(operand.at, ",") /\ IndexFollows(operand.at + 1, indexable) ->
             stop(operand.at + 2, IndexLast(operands, Name(operand.at + 1)))
        [] OTHER -> [more |-> TRUE, result |-> Built(operand.at + 1, operands)]

ParseNext(so_far, indexable) ==
  BehindOperand(ParseOperand(so_far.at), so_far.value, indexable)

(* There are no more operands than tokens. *)
ParseOperands(i, indexable) ==
  FoldLeft(LAMBDA loop, token : IF loop.more THEN ParseNext(loop.result, indexable) ELSE loop,
           [more |-> TRUE, result |-> Built(i, << >>)], tokens).result

EndOfLine(i) == Token(i).kind \in {Newline, "eof"}

OperandsOf(i, indexable) ==
  IF EndOfLine(i) THEN Built(i, << >>) ELSE ParseOperands(i, indexable)

(* A result with the statement that is made of it. *)
Made(result, statement) ==
  IF result.ok THEN Built(result.at, statement) ELSE Rejected

ParseInstruction(i) ==
  LET operands == OperandsOf(i + 1, TRUE)
  IN  Made(operands, [kind |-> "instruction", mnemonic |-> Name(i),
                      operands |-> operands.value])

ParseDirective(i) ==
  LET operands == OperandsOf(i + 1, FALSE)
  IN  CASE Name(i) = "equ" ->
             IF Check(i + 1, "identifier") /\ Check(i + 2, ",") /\ Check(i + 3, "number")
               THEN Built(i + 4, [kind |-> "equ", name |-> Name(i + 1),
                                   value |-> Token(i + 3).number])
               ELSE Rejected
        [] Name(i) \in {"org", "byte"} ->
             Made(operands, [kind |-> Name(i), operands |-> operands.value])
        [] Name(i) = "include" ->
             IF Check(i + 1, "string")
               THEN Built(i + 2, [kind |-> "include", include_path |-> Joined(Token(i + 1).value)])
               ELSE Rejected
        [] OTHER -> Rejected

-----------------------------------------------------------------------------
ParserAtEnd == Check(parsed_to, "eof")
IsLabel(i) == Check(i, "identifier") /\ Check(i + 1, ":")

(* ConsumeNewlines, and the newline behind labels. *)
ConsumeNewline ==
  /\ reading = "parse" /\ Check(parsed_to, Newline)
  /\ parsed_to' = parsed_to + 1
  /\ UNCHANGED <<lexVars, statements>>

ParseLabel ==
  /\ reading = "parse" /\ IsLabel(parsed_to)
  /\ statements' = Append(statements, [kind |-> "label", name |-> Name(parsed_to)])
  /\ parsed_to' = parsed_to + 2
  /\ UNCHANGED lexVars

(* Anything else on the line is one directive or one instruction. *)
DirectiveOrInstruction(i) ==
  CASE Check(i, "directive") -> ParseDirective(i)
    [] Check(i, "identifier") -> ParseInstruction(i)
    [] OTHER -> Rejected

(* The statement joins the program if its line ends behind it. *)
FinishLine(result) ==
  IF result.ok /\ EndOfLine(result.at)
    THEN /\ statements' = Append(statements, result.value)
         /\ parsed_to' = IF Check(result.at, "eof") THEN result.at ELSE result.at + 1
         /\ UNCHANGED reading
    ELSE reading' = "rejected" /\ UNCHANGED <<statements, parsed_to>>

ParseStatement ==
  /\ reading = "parse"
  /\ ~ParserAtEnd /\ ~Check(parsed_to, Newline) /\ ~IsLabel(parsed_to)
  /\ FinishLine(DirectiveOrInstruction(parsed_to))
  /\ UNCHANGED <<text, index, line, column, tokens>>

ParserDone ==
  /\ reading = "parse" /\ ParserAtEnd
  /\ reading' = "parsed"
  /\ UNCHANGED <<text, index, line, column, tokens, parseVars>>

Reading == reading \in {"lex", "parse"}

ReadNext ==
  \/ NextToken /\ UNCHANGED parseVars
  \/ ConsumeNewline \/ ParseLabel \/ ParseStatement \/ ParserDone
-----------------------------------------------------------------------------
(***************************************************************************)
(* Properties.                                                             *)
(***************************************************************************)

(* What the parser can see of a token. *)
Symbol(i) == <<Token(i).kind, IF Token(i).kind \in {"identifier", "directive"} THEN Name(i)
                              ELSE IF IsImmediate(i) THEN "immediate" ELSE "">>
Symbols == [i \in DOMAIN tokens |-> Symbol(i)]
Kinds(s) == [i \in DOMAIN s |-> s[i][1]]

(* The tokens of each line. *)
Ends == {i \in DOMAIN tokens : EndOfLine(i)}
LineUpTo(end) ==
  SubSeq(Symbols, 1 + Max({0} \cup {i \in Ends : i < end}), end - 1)

Registers(names) == {<<"identifier", r>> : r \in names}

(* The grammar, by splitting: an operand in parentheses may end in an X of
   its own, an immediate one has no parentheses. *)
IsOperand(s) ==
  LET from_to[ab \in (1 .. Len(s)) \X (1 .. Len(s))] ==
        LET a == ab[1]  b == ab[2]
            direct(last) == /\ from_to[<<a + 1, last>>]
                            /\ s[a + 1][1] # "#" /\ s[a + 1][2] # "immediate"
        IN  \/ a = b /\ s[a][1] \in {"number", "identifier"}
            \/ a + 1 = b /\ s[a][1] = "#" /\ s[b][1] = "identifier"
            \/ /\ a + 1 < b /\ s[a][1] = "(" /\ s[b][1] = ")"
               /\ \/ direct(b - 1)
                  \/ /\ a + 3 < b /\ s[b - 1] \in Registers({"X"}) /\ s[b - 2][1] = ","
                     /\ direct(b - 3)
  IN  s # << >> /\ from_to[<<1, Len(s)>>]

(* The list from a on. *)
IsOperandList(s, indexable) ==
  LET n == Len(s)
      registers == IF indexable THEN Registers({"X", "Y"}) ELSE {}
      from[a \in DOMAIN s] ==
        \/ IsOperand(SubSeq(s, a, n))
        \/ a + 1 < n /\ s[n] \in registers /\ s[n - 1][1] = ","
             /\ IsOperand(SubSeq(s, a, n - 2))
        \/ \E c \in a + 1 .. n - 1 :
             /\ s[c][1] = "," /\ s[c + 1] \notin registers
             /\ IsOperand(SubSeq(s, a, c - 1))
             /\ from[c + 1]
  IN  s # << >> /\ from[1]

IsStatement(s) ==
  \/ s = << >>
  \/ s[1][1] = "identifier" /\ (Len(s) = 1 \/ IsOperandList(Tail(s), TRUE))
  \/ /\ s[1] \in {<<"directive", "org">>, <<"directive", "byte">>}
     /\ Len(s) = 1 \/ IsOperandList(Tail(s), FALSE)
  \/ s[1] = <<"directive", "equ">> /\ Kinds(Tail(s)) = <<"identifier", ",", "number">>
  \/ s[1] = <<"directive", "include">> /\ Kinds(Tail(s)) = <<"string">>

IsLine(s) ==
  \E labels \in 0 .. Len(s) \div 2 :
    /\ \A k \in 1 .. labels : s[2 * k - 1][1] = "identifier" /\ s[2 * k][1] = ":"
    /\ IsStatement(SubSeq(s, 2 * labels + 1, Len(s)))

(* The parser, which decides by the next token or two and never goes back,
   accepts exactly the texts of which every line belongs to the grammar. *)
ParserAcceptsGrammar ==
  tokens # << >> /\ Last(tokens).kind = "eof" =>
    /\ reading = "parsed" => \A e \in Ends : IsLine(LineUpTo(e))
    /\ reading = "rejected" => \E e \in Ends : ~IsLine(LineUpTo(e))

(* The operand forms that assembler/README.md lists. *)
CommaSymbol == <<",", "">>
Documented(s) ==
  \/ s = <<<<"number", "immediate">>>>
  \/ \E v \in Range(s) :
       /\ v[1] = "identifier" \/ v = <<"number", "">>
       /\ s \in {<<v>>, <<<<"#", "immediate">>, v>>, <<v, CommaSymbol, <<"identifier", "X">>>>,
                <<v, CommaSymbol, <<"identifier", "Y">>>>, <<<<"(", "">>, v, <<")", "">>>>,
                <<<<"(", "">>, v, CommaSymbol, <<"identifier", "X">>, <<")", "">>>>,
                <<<<"(", "">>, v, <<")", "">>, CommaSymbol, <<"identifier", "Y">>>>}

(* An operand, written out in that form. *)
WrittenOut(op) ==
  LET value == IF op.kind = "number"
                 THEN <<<<"number", IF op.immediate THEN "immediate" ELSE "">>>>
                 ELSE (IF op.immediate THEN <<<<"#", "immediate">>>> ELSE << >>)
                        \o <<<<"identifier", op.label>>>>
      register == IF op.index_register = "none" THEN << >>
               ELSE <<CommaSymbol, <<"identifier", op.index_register>>>>
  IN  IF ~op.indirect THEN value \o register
      ELSE IF op.index_register = "X"
        THEN <<<<"(", "">>>> \o value \o register \o <<<<")", "">>>>
        ELSE <<<<"(", "">>>> \o value \o <<<<")", "">>>> \o register

(* An instruction with an operand in a documented form is parsed to that
   operand: written out, it is what stands in the source.  Other forms lose
   something: of "(p,X),Y" the X, and "(p),X" is taken for "(p,X)". *)
OperandsMeanWhatIsWritten ==
  reading = "parsed" /\ Cardinality(Ends) = 1 =>
    LET s == LineUpTo(Min(Ends))
    IN  Len(s) > 1 /\ s[1][1] = "identifier" /\ Documented(Tail(s)) =>
          WrittenOut(statements[1].operands[1]) = Tail(s)
=============================================================================

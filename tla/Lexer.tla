-------------------------------- MODULE Lexer --------------------------------
(***************************************************************************)
(* assembler/src/lexer.cpp.  The text is a sequence of characters; a       *)
(* letter may stand for a whole word, since the lexer looks only at what   *)
(* class a character belongs to, and "X" and "b" also stand in numbers.    *)
(* One call of NextToken is one step.                                      *)
(***************************************************************************)
EXTENDS Integers, SequencesExt

CONSTANTS
  Letters,      \* characters isalpha accepts, "X", "b" and "f" among them
  NumberModulus \* 2^32, where uint32_t wraps

(* What isalpha accepts is on a line. *)
ASSUME LettersAssumption == Letters \cap {"newline", "null"} = {}

VARIABLES
  text,     \* source_
  index,    \* index_, from 1
  line,     \* line_
  column,   \* column_
  tokens,   \* the result of Lex; each with the place it was found at
  reading   \* "none", "lex", "parse", "parsed" or, after a throw, "rejected"

lexVars == <<text, index, line, column, tokens, reading>>

Newline == "newline"
Blanks == {" ", "tab", "return"}
DigitChars == {"0", "1", "9"}
AlNum == Letters \cup DigitChars
IdentifierChars == AlNum \cup {"_"}
IsIdentifierStart(ch) == ch \in Letters \cup {"_"}

(* Peek: the character at i, or a null character behind the end. *)
Char(i) == IF i \in DOMAIN text THEN text[i] ELSE "null"

(* The first position from i on whose character does not satisfy a class. *)
RunEnd(i, class) ==
  CHOOSE j \in i .. Len(text) + 1 :
    /\ j > Len(text) \/ text[j] \notin class
    /\ \A k \in i .. j - 1 : text[k] \in class

(* Mutant: a comment takes the end of its line with it. *)
SkipWithLine(i) ==
  LET j == RunEnd(i, Blanks)
  IN  IF Char(j) = ";" THEN Min({Len(text) + 1, RunEnd(j, Range(text) \ {Newline}) + 1})
      ELSE j

(* SkipWhitespace, SkipComment: blanks, and a comment up to its newline. *)
Skip(i) ==
  LET j == RunEnd(i, Blanks)
  IN  IF Char(j) = ";" THEN RunEnd(j, Range(text) \ {Newline}) ELSE j

(* A token kind with the position behind it; 0 for an exception. *)
Found(kind, end) == [kind |-> kind, end |-> end, number |-> 0, value |-> << >>]
Thrown == Found("error", 0)

LexIdentifierOrDirective(i) ==
  LET start == IF Char(i) = "." THEN i + 1 ELSE i
  IN  IF IsIdentifierStart(Char(start))
        THEN Found(IF Char(i) = "." THEN "directive" ELSE "identifier",
                   RunEnd(start, IdentifierChars))
        ELSE Thrown

(* ParseNumberLiteral on the characters from p up to end. *)
Digit(ch) ==
  CASE ch = "0" -> 0 [] ch = "1" -> 1 [] ch = "9" -> 9 [] ch = "b" -> 11 [] ch = "f" -> 15
    [] OTHER -> 99
ParseNumberLiteral(p, end) ==
  LET long == end - p > 2 /\ Char(p) = "0"
      base == CASE Char(p) = "$" -> 16 [] Char(p) = "%" -> 2
                [] long /\ Char(p + 1) = "X" -> 16 [] long /\ Char(p + 1) = "b" -> 2
                [] OTHER -> 10
      prefix == CASE Char(p) \in {"$", "%"} -> 1
                  [] long /\ Char(p + 1) \in {"X", "b"} -> 2 [] OTHER -> 0
      digits == [k \in 1 .. end - p - prefix |-> Digit(text[p + prefix + k - 1])]
  IN  IF digits # << >> /\ \A k \in DOMAIN digits : digits[k] < base
        THEN [Found("number", end) EXCEPT !.number =
                FoldLeft(LAMBDA n, d : (n * base + d) % NumberModulus, 0, digits)]
        ELSE Thrown

LexNumber(i) ==
  LET p == IF Char(i) = "#" THEN i + 1 ELSE i
      q == CASE Char(p) \in {"$", "%"} -> p + 1
             [] Char(p) = "0" /\ Char(p + 1) \in {"X", "b"} -> p + 2
             [] OTHER -> p
  IN  ParseNumberLiteral(p, RunEnd(q, AlNum))

(* A string literal, put together from behind: only a quote and a backslash may
   be escaped, and the literal must end on its line. *)
Prepend(ch, found) ==
  IF found.kind = "error" THEN Thrown ELSE [found EXCEPT !.value = <<ch>> \o @]

LexString(i) ==
  LET rest[k \in 1 .. Len(text) + 1] ==
        CASE Char(k) \in {"null", Newline} -> Thrown
          [] Char(k) = "quote" -> Found("string", k + 1)
          [] Char(k) = "backslash" -> IF Char(k + 1) \in {"quote", "backslash"}
                                        THEN Prepend(Char(k + 1), rest[k + 2]) ELSE Thrown
          [] OTHER -> Prepend(Char(k), rest[k + 1])
  IN  rest[i + 1]

(* NextToken at i, where neither a blank nor a comment is. *)
Lexeme(i) ==
  LET ch == Char(i)
  IN  CASE ch = "null" -> Found("eof", i)
        [] ch \in {Newline, ",", "(", ")", ":"} -> Found(ch, i + 1)
        [] ch = "quote" -> LexString(i)
        [] ch = "." \/ IsIdentifierStart(ch) -> LexIdentifierOrDirective(i)
        [] ch = "#" /\ IsIdentifierStart(Char(i + 1)) -> Found("#", i + 1)
        [] ch \in {"#", "$", "%"} \cup DigitChars -> LexNumber(i)
        [] OTHER -> Thrown

(* MakeToken is called after Advance: these tokens lie at the place behind. *)
OneChar == {Newline, ",", "(", ")", ":", "#"}

(* The column after Advance from one position up to another on its line. *)
ColumnAt(from, end) == column + (end - from)

NextToken ==
  LET start == Skip(index)
      found == Lexeme(start)
      behind == IF found.kind = Newline
                  THEN [line |-> line + 1, column |-> 1]
                  ELSE [line |-> line, column |-> ColumnAt(index, found.end)]
      at == IF found.kind \in OneChar THEN behind
            ELSE [line |-> line, column |-> ColumnAt(index, start)]
  IN  /\ reading = "lex"
      /\ IF found.kind = "error"
           THEN reading' = "rejected" /\ UNCHANGED <<index, line, column, tokens>>
           ELSE /\ tokens' = Append(tokens,
                     [kind |-> found.kind, number |-> found.number, value |-> found.value,
                      line |-> at.line, column |-> at.column,
                      first |-> start, end |-> found.end])
                /\ index' = found.end
                /\ line' = behind.line
                /\ column' = behind.column
                /\ reading' = IF found.kind = "eof" THEN "parse" ELSE "lex"
      /\ UNCHANGED text

(***************************************************************************)
(* Properties.                                                             *)
(***************************************************************************)

Newlines(i) == {k \in 1 .. i - 1 : text[k] = Newline}
PlaceOf(i) == [line |-> 1 + Cardinality(Newlines(i)),
               column |-> i - Max(Newlines(i) \cup {0})]

(* The span of every token names its place in the text: line_ and column_
   stay in step with index_ over comments, strings, escapes and prefixes.
   Tokens of one character are placed one character late, a newline at the
   start of the next line. *)
SpansNameText ==
  \A t \in Range(tokens) :
    [line |-> t.line, column |-> t.column] =
      PlaceOf(IF t.kind \in OneChar THEN t.end ELSE t.first)

(* Between two tokens the lexer passes over blanks and over comments, which
   end before their newline, and over nothing else: no comment joins two
   lines and no part of a statement is lost. *)
NothingLost ==
  \A n \in DOMAIN tokens :
    LET from == IF n = 1 THEN 1 ELSE tokens[n - 1].end
        gap == SubSeq(text, from, tokens[n].first - 1)
        comment == {k \in DOMAIN gap : gap[k] = ";"}
    IN  /\ from <= tokens[n].first /\ tokens[n].first <= tokens[n].end
        /\ \A k \in DOMAIN gap : gap[k] \in Blanks \/ \E c \in comment : c <= k
        /\ Newline \notin Range(gap)
        /\ comment # {} => Char(tokens[n].first) \in {"null", Newline}

(* The tokens of Lex are the text: they say where it stands, and leave out
   only what is between them. *)
TokensCoverText == SpansNameText /\ NothingLost
=============================================================================

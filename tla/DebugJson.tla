------------------------------ MODULE DebugJson ------------------------------
(***************************************************************************)
(* The debug symbols as a file: EncodeDebugJson of the assembler and       *)
(* LoadDebugSymbols of the simulator with its JSON parser.                 *)
(*                                                                         *)
(* A document is a sequence of tokens: punctuation, numbers, and strings   *)
(* with their characters as they stand in the file, escapes included.      *)
(* Space between tokens is left out.  A character is named; a name that    *)
(* needs no escape, such as that of a field, counts as one character.      *)
(***************************************************************************)
EXTENDS Integers, Sequences, FiniteSets, SequencesExt

(* Characters that EscapeJson or ParseString treat on their own. *)
Ascii == [quote |-> 34, backslash |-> 92, slash |-> 47, newline |-> 10,
          return |-> 13, tab |-> 9, backspace |-> 8, formfeed |-> 12,
          bell |-> 7, escape |-> 27]
HexDigits == <<"0", "1", "2", "3", "4", "5", "6", "7", "8", "9", "a", "b", "c",
               "d", "e", "f">>

(* The lowest n hexadecimal digits of v, highest first. *)
Hex(v, n) == [i \in 1 .. n |-> HexDigits[1 + ((v \div 16 ^ (n - i)) % 16)]]

(* "0x" and as many digits as the number has. *)
HexString(v) ==
  <<"0", "x">> \o Hex(v, CHOOSE n \in 1 .. 8 :
                           v < 16 ^ n /\ (n = 1 \/ v >= 16 ^ (n - 1)))

(* EscapeJson, for one character. *)
EscapeChar(c) ==
  CASE c \in {"quote", "backslash"} -> <<"backslash", c>>
    [] c = "newline" -> <<"backslash", "n">>
    [] c = "return" -> <<"backslash", "r">>
    [] c = "tab" -> <<"backslash", "t">>
    [] c \in DOMAIN Ascii /\ Ascii[c] < 32 ->
         <<"backslash", "u">> \o Hex(Ascii[c], 4)
    [] OTHER -> <<c>>
EscapeJson(s) == FlattenSeq([i \in DOMAIN s |-> EscapeChar(s[i])])

-----------------------------------------------------------------------------
(***************************************************************************)
(* EncodeDebugJson.                                                        *)
(***************************************************************************)

Mark(p) == <<[kind |-> p]>>
Text(s) == <<[kind |-> "string", chars |-> EscapeJson(s)]>>
Number(n) == <<[kind |-> "number", number |-> n]>>

Commas(parts) ==
  FlattenSeq([i \in DOMAIN parts |-> IF i = 1 THEN parts[i] ELSE Mark(",") \o parts[i]])
Pair(key, value) == Text(key) \o Mark(":") \o value
Object(pairs) == Mark("{") \o Commas(pairs) \o Mark("}")
Array(values) == Mark("[") \o Commas(values) \o Mark("]")

Place(location) ==
  <<Pair(<<"file">>, Text(location.file)), Pair(<<"line">>, Number(location.line)),
    Pair(<<"column">>, Number(location.column)), Pair(<<"text">>, Text(location.text))>>

(* pc_entries: emplace keeps the first record of an address. *)
PcEntries(records) ==
  [a \in {r.address : r \in Range(records)} |->
     SelectSeq(records, LAMBDA r : r.address = a)[1].location]

EncodeDebugJson(build) ==
  LET names == SetToSeq(DOMAIN build.symbols)
      pcs == PcEntries(build.records)
      addresses == SetToSeq(DOMAIN pcs)
  IN  Object(<<
        Pair(<<"version">>, Text(<<"v1">>)),
        Pair(<<"cartridge_version">>, Number(1)),
        Pair(<<"entry">>, Text(HexString(build.entry))),
        Pair(<<"rom_size">>, Number(Len(build.rom))),
        Pair(<<"source_root">>, Text(build.source_root)),
        Pair(<<"source_files">>,
             Array([i \in DOMAIN build.source_files |-> Text(build.source_files[i])])),
        Pair(<<"symbols">>,
             Object([i \in DOMAIN names |->
                       Pair(names[i], Text(HexString(build.symbols[names[i]])))])),
        Pair(<<"pc_to_source">>,
             Object([i \in DOMAIN addresses |->
                       Pair(HexString(addresses[i]), Object(Place(pcs[addresses[i]])))])),
        Pair(<<"records">>,
             Array([i \in DOMAIN build.records |->
                      LET r == build.records[i]
                      IN  Object(<<Pair(<<"address">>, Text(HexString(r.address))),
                                   Pair(<<"rom_offset">>, Number(r.rom_offset))>>
                                 \o Place(r.location))]))>>)

-----------------------------------------------------------------------------
(***************************************************************************)
(* JsonParser.  A parse is refused or gives a value and the place of the   *)
(* token behind it.                                                        *)
(***************************************************************************)

NoParse == [ok |-> FALSE]
Parsed(value, next) == [ok |-> TRUE, value |-> value, next |-> next]
Is(t, i, kind) == i <= Len(t) /\ t[i].kind = kind

DigitValue(d) == CHOOSE v \in 0 .. 15 : HexDigits[v + 1] = d
HexValue(digits) == FoldLeft(LAMBDA v, d : 16 * v + DigitValue(d), 0, digits)

(* ParseUnicodeEscape *)
CharOf(v) ==
  IF v >= 128 THEN "?"
  ELSE IF \E c \in DOMAIN Ascii : Ascii[c] = v
    THEN CHOOSE c \in DOMAIN Ascii : Ascii[c] = v ELSE "other"

Unescaped == [quote |-> "quote", backslash |-> "backslash", slash |-> "slash",
              b |-> "backspace", f |-> "formfeed", n |-> "newline", r |-> "return",
              t |-> "tab"]

(* ParseString, behind the opening quote.  Bad escapes are refused; a quote
   that no backslash precedes would end the string, and what follows it fits
   no document. *)
RECURSIVE ParseString(_)
ParseString(s) ==
  IF s = << >> THEN [ok |-> TRUE, string |-> << >>]
  ELSE LET unicode == Len(s) >= 2 /\ s[1] = "backslash" /\ s[2] = "u"
           used == IF unicode THEN 6 ELSE IF s[1] = "backslash" THEN 2 ELSE 1
           good == /\ Len(s) >= used /\ s[1] # "quote"
                   /\ unicode => \A i \in 3 .. 6 : s[i] \in Range(HexDigits)
                   /\ used = 2 => s[2] \in DOMAIN Unescaped
           char == CASE unicode -> CharOf(HexValue(SubSeq(s, 3, 6)))
                     [] used = 2 -> Unescaped[s[2]]
                     [] OTHER -> s[1]
       IN  IF ~good THEN NoParse
           ELSE LET rest == ParseString(SubSeq(s, used + 1, Len(s)))
                IN  IF rest.ok THEN [ok |-> TRUE, string |-> <<char>> \o rest.string]
                               ELSE NoParse

(* ParseValue, ParseObject and ParseArray; emplace keeps the first of two
   values of a key. *)
RECURSIVE ParseValue(_, _)
RECURSIVE ParseMembers(_, _, _)
RECURSIVE ParseElements(_, _, _)

ParseValue(t, i) ==
  IF i > Len(t) THEN NoParse
  ELSE CASE t[i].kind \in {"null", "true", "false"} ->
              Parsed([type |-> t[i].kind], i + 1)
         [] t[i].kind = "{" ->
              IF Is(t, i + 1, "}") THEN Parsed([type |-> "object", object |-> << >>], i + 2)
                                   ELSE ParseMembers(t, i + 1, << >>)
         [] t[i].kind = "[" ->
              IF Is(t, i + 1, "]") THEN Parsed([type |-> "array", array |-> << >>], i + 2)
                                   ELSE ParseElements(t, i + 1, << >>)
         [] t[i].kind = "string" ->
              LET s == ParseString(t[i].chars)
              IN  IF s.ok THEN Parsed([type |-> "string", string |-> s.string], i + 1)
                          ELSE NoParse
         [] t[i].kind = "number" -> Parsed([type |-> "number", number |-> t[i].number], i + 1)
         [] OTHER -> NoParse

ParseMembers(t, i, object) ==
  IF ~(Is(t, i, "string") /\ Is(t, i + 1, ":")) THEN NoParse
  ELSE LET key == ParseString(t[i].chars)
           p == ParseValue(t, i + 2)
       IN  IF ~key.ok \/ ~p.ok THEN NoParse
           ELSE LET more == IF key.string \in DOMAIN object THEN object
                            ELSE [k \in DOMAIN object \cup {key.string} |->
                                    IF k = key.string THEN p.value ELSE object[k]]
                IN  CASE Is(t, p.next, "}") ->
                           Parsed([type |-> "object", object |-> more], p.next + 1)
                      [] Is(t, p.next, ",") -> ParseMembers(t, p.next + 1, more)
                      [] OTHER -> NoParse

ParseElements(t, i, array) ==
  LET p == ParseValue(t, i)
  IN  IF ~p.ok THEN NoParse
      ELSE CASE Is(t, p.next, "]") ->
                  Parsed([type |-> "array", array |-> Append(array, p.value)], p.next + 1)
             [] Is(t, p.next, ",") -> ParseElements(t, p.next + 1, Append(array, p.value))
             [] OTHER -> NoParse

(* JsonParser::Parse *)
Parse(t) ==
  LET p == ParseValue(t, 1) IN IF p.ok /\ p.next = Len(t) + 1 THEN p ELSE NoParse

-----------------------------------------------------------------------------
(***************************************************************************)
(* LoadDebugSymbols: what is required of the document, and what is made of *)
(* it.                                                                     *)
(***************************************************************************)

Has(v, key, type) ==
  v.type = "object" /\ <<key>> \in DOMAIN v.object /\ v.object[<<key>>].type = type
Get(v, key) == v.object[<<key>>]

(* ParseHexWord: stoul reads the digits behind 0x up to the first character
   that is none. *)
Digits(s) ==
  LET ends == {i \in 3 .. Len(s) : s[i] \notin Range(HexDigits)} \cup {Len(s) + 1}
  IN  SubSeq(s, 3, Min(ends) - 1)
IsHexWord(s) ==
  /\ Len(s) >= 2 /\ s[1] = "0" /\ s[2] \in {"x", "X"}
  /\ Digits(s) # << >> /\ HexValue(Digits(s)) <= 65535
ParseHexWord(s) == HexValue(Digits(s))

HasHexWord(v, key) == Has(v, key, "string") /\ IsHexWord(Get(v, key).string)
GetHexWord(v, key) == ParseHexWord(Get(v, key).string)

IsLocation(v) ==
  /\ Has(v, "file", "string") /\ Has(v, "text", "string")
  /\ Has(v, "line", "number") /\ Get(v, "line").number >= 1
  /\ Has(v, "column", "number") /\ Get(v, "column").number >= 1
LocationOf(v) ==
  [file |-> Get(v, "file").string, line |-> Get(v, "line").number,
   column |-> Get(v, "column").number, text |-> Get(v, "text").string]

IsRecord(v, rom_size) ==
  /\ HasHexWord(v, "address")
  /\ Has(v, "rom_offset", "number")
  /\ Get(v, "rom_offset").number \in 0 .. rom_size - 1
  /\ IsLocation(v)
RecordOf(v) ==
  [address |-> GetHexWord(v, "address"), rom_offset |-> Get(v, "rom_offset").number,
   location |-> LocationOf(v)]

IsDebugSymbols(root) ==
  /\ Has(root, "version", "string")
  /\ HasHexWord(root, "entry")
  /\ Has(root, "rom_size", "number") /\ Get(root, "rom_size").number > 0
  /\ Has(root, "cartridge_version", "number") =>
       Get(root, "cartridge_version").number >= 0
  /\ Has(root, "source_root", "string")
  /\ Has(root, "source_files", "array")
  /\ \A f \in Range(Get(root, "source_files").array) : f.type = "string"
  /\ Has(root, "symbols", "object")
  /\ LET names == Get(root, "symbols").object
     IN  \A n \in DOMAIN names : names[n].type = "string" /\ IsHexWord(names[n].string)
  /\ Has(root, "pc_to_source", "object")
  /\ LET pcs == Get(root, "pc_to_source").object
     IN  /\ \A s \in DOMAIN pcs : IsLocation(pcs[s]) /\ IsHexWord(s)
         /\ \A s, u \in DOMAIN pcs : s # u => ParseHexWord(s) # ParseHexWord(u)
  /\ Has(root, "records", "array")
  /\ \A v \in Range(Get(root, "records").array) :
       IsRecord(v, Get(root, "rom_size").number)

LoadDebugSymbols(tokens) ==
  LET document == Parse(tokens)
      root == document.value
      names == Get(root, "symbols").object
      pcs == Get(root, "pc_to_source").object
      list == Get(root, "records").array
      files == Get(root, "source_files").array
  IN  IF ~document.ok THEN NoParse
      ELSE IF ~IsDebugSymbols(root) THEN NoParse
      ELSE [ok |-> TRUE,
            entry |-> GetHexWord(root, "entry"),
            rom_size |-> Get(root, "rom_size").number,
            source_root |-> Get(root, "source_root").string,
            source_files |-> [i \in DOMAIN files |-> files[i].string],
            symbols |-> [n \in DOMAIN names |-> ParseHexWord(names[n].string)],
            pc_to_source |->
              [a \in {ParseHexWord(s) : s \in DOMAIN pcs} |->
                 LocationOf(pcs[CHOOSE s \in DOMAIN pcs : ParseHexWord(s) = a])],
            records |-> [i \in DOMAIN list |-> RecordOf(list[i])]]
=============================================================================

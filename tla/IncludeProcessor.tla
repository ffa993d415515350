--------------------------- MODULE IncludeProcessor ---------------------------
(***************************************************************************)
(* The include processor of assembler/src/include_processor.cpp.  A call   *)
(* of ProcessProgram is a frame: the file it works on, the next statement  *)
(* and the statements collected so far.  A directive of kind "include"     *)
(* names a path; any other statement is copied.                            *)
(***************************************************************************)
EXTENDS Integers, SequencesExt

CONSTANTS
  Root,     \* the file that is assembled
  Garbage   \* contents of a file that the lexer or the parser rejects

VARIABLES
  files,          \* the file system: for each file its statements
  frames,         \* the calls of ProcessProgram, the innermost last
  include_stack,
  loading,        \* the argument of the LoadAndParse under way, or << >>
  error           \* an exception has been thrown

vars == <<files, frames, include_stack, loading, error>>

Frame(file) == [file |-> file, next |-> 1, result |-> << >>]

(* Process is called with the parsed root. *)
Init ==
  /\ frames = <<Frame(Root)>>
  /\ include_stack = {}
  /\ loading = << >>
  /\ error = FALSE

Top == Last(frames)
AtEnd == Top.next > Len(files[Top.file])
Statement == files[Top.file][Top.next]
IsInclude(stmt) == stmt.kind = "include"
Running == ~error /\ loading = << >>
Finished == Running /\ Len(frames) = 1 /\ AtEnd

(* The innermost call goes on to its next statement with more collected. *)
Collect(stack, statements) ==
  Append(Front(stack), [Last(stack) EXCEPT !.next = @ + 1,
                                           !.result = @ \o statements])

CopyStatement ==
  /\ Running /\ ~AtEnd /\ ~IsInclude(Statement)
  /\ frames' = Collect(frames, <<Statement>>)
  /\ UNCHANGED <<files, include_stack, loading, error>>

(* canonical() throws for a missing file, the check for a file on the stack. *)
BeginInclude ==
  /\ Running /\ ~AtEnd /\ IsInclude(Statement)
  /\ LET include_path == Statement.include_path
     IN  IF include_path \notin DOMAIN files \/ include_path \in include_stack
           THEN error' = TRUE /\ UNCHANGED <<include_stack, loading>>
           ELSE /\ include_stack' = include_stack \cup {include_path}
                /\ loading' = <<include_path>>
                /\ UNCHANGED error
  /\ UNCHANGED <<files, frames>>

(* Mutant: the path stays on the stack for ever. *)
FileParsedNoErase ==
  /\ ~error /\ loading # << >>
  /\ error' = (files[loading[1]] = Garbage)
  /\ loading' = << >>
  /\ frames' = IF error' THEN frames ELSE Append(frames, Frame(loading[1]))
  /\ UNCHANGED <<files, include_stack>>

(* LoadAndParse returns, the path leaves the stack, and only then the
   included program is processed. *)
FileParsed ==
  /\ ~error /\ loading # << >>
  /\ IF files[loading[1]] = Garbage
       THEN error' = TRUE /\ UNCHANGED <<frames, include_stack, loading>>
       ELSE /\ include_stack' = include_stack \ {loading[1]}
            /\ frames' = Append(frames, Frame(loading[1]))
            /\ loading' = << >>
            /\ UNCHANGED error
  /\ UNCHANGED files

(* Mutants: the included statements are put first, or the includer does not
   get past its directive. *)
ReturnAhead ==
  /\ Running /\ AtEnd /\ Len(frames) > 1
  /\ frames' = LET includer == Last(Front(frames))
               IN  Append(Front(Front(frames)),
                          [includer EXCEPT !.next = @ + 1,
                                           !.result = Top.result \o @])
  /\ UNCHANGED <<files, include_stack, loading, error>>
ReturnInPlace ==
  /\ Running /\ AtEnd /\ Len(frames) > 1
  /\ frames' = Front(frames)
  /\ UNCHANGED <<files, include_stack, loading, error>>

(* A nested ProcessProgram returns; its statements are merged. *)
Return ==
  /\ Running /\ AtEnd /\ Len(frames) > 1
  /\ frames' = Collect(Front(frames), Top.result)
  /\ UNCHANGED <<files, include_stack, loading, error>>

Next ==
  \/ CopyStatement
  \/ BeginInclude
  \/ FileParsed
  \/ Return

-----------------------------------------------------------------------------
(***************************************************************************)
(* Properties.                                                             *)
(***************************************************************************)

(* The text of a file with every directive replaced by the text of the file
   it names.  Files that do not include themselves are nested no deeper than
   there are files. *)
Expansion(file) ==
  LET expanded(stmt, level) ==
        IF IsInclude(stmt) THEN level[stmt.include_path] ELSE <<stmt>>
      text[depth \in 0 .. Cardinality(DOMAIN files)] ==
        IF depth = 0 THEN [f \in DOMAIN files |-> << >>]
        ELSE [f \in DOMAIN files |->
                FlattenSeq([k \in DOMAIN files[f] |-> expanded(files[f][k], text[depth - 1])])]
  IN  text[Cardinality(DOMAIN files)][file]

(* Processing throws only if a file is missing or cannot be parsed: files that
   do not include themselves may be included any number of times. *)
ThrowsForGoodReason ==
  error => \/ \E f \in DOMAIN files : files[f] = Garbage
           \/ \E f \in DOMAIN files : \E s \in Range(files[f]) :
                IsInclude(s) /\ s.include_path \notin DOMAIN files

(* A file is not processed while it is being processed. *)
NoFileInsideItself ==
  \A i, j \in DOMAIN frames : frames[i].file = frames[j].file => i = j
=============================================================================

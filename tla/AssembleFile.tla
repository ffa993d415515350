----------------------------- MODULE AssembleFile -----------------------------
(***************************************************************************)
(* AssembleFile and Assemble of assembler/src/assembler.cpp: the source is *)
(* read and parsed, its includes are processed, and the statements that    *)
(* come of it go through both passes.  A file is given by its statements,  *)
(* or the root by its text, which the lexer and the parser then read.      *)
(***************************************************************************)
EXTENDS Assembler, Parser

CONSTANTS
  Options,  \* the options AssembleFile may be called with
  Trees(_), \* the file systems it may then find
  Texts(_), \* the texts the root may have; none if Trees has its statements
  Root,     \* the file named to AssembleFile
  Garbage   \* contents of a file that cannot be parsed

(* A file is found or not, and if it is, it has statements or cannot be parsed;
   a text has characters, one after the other. *)
ASSUME FilesAssumption ==
  \A o \in Options :
    /\ \A tree \in Trees(o) :
         /\ IsFiniteSet(DOMAIN tree) /\ Root \in DOMAIN tree
         /\ \A f \in DOMAIN tree : tree[f] = Garbage \/ IsSequence(tree[f])
    /\ \A t \in Texts(o) : IsSequence(t)

VARIABLES files, frames, include_stack, loading, error

Include == INSTANCE IncludeProcessor

includeVars == <<files, frames, include_stack, loading, error>>
readVars == <<lexVars, parseVars>>
allVars == <<vars, includeVars, readVars>>

AssembleInit ==
  /\ options \in Options
  /\ files \in Trees(options)
  /\ Init
  /\ Include!Init
  /\ IF Texts(options) = {}
       THEN text = << >> /\ reading = "none"
       ELSE text \in Texts(options) /\ reading = "lex"
  /\ index = 1 /\ line = 1 /\ column = 1 /\ tokens = << >>
  /\ parsed_to = 1 /\ statements = << >>

(* Lexer and parser on the text of the root. *)
ReadRoot ==
  /\ stage = "parse"
  /\ ReadNext
  /\ UNCHANGED <<vars, includeVars>>

(* They return; the file may not be readable either. *)
ParseRoot ==
  /\ reading \in {"none", "parsed", "rejected"}
  /\ IF files[Root] = Garbage \/ reading = "rejected"
       THEN SourceRejected /\ UNCHANGED files
       ELSE /\ SourceParsed
            /\ files' = IF reading = "none" THEN files
                        ELSE [files EXCEPT ![Root] = statements]
  /\ UNCHANGED <<frames, include_stack, loading, error, readVars>>

ProcessIncludes ==
  /\ stage = "include"
  /\ Include!Next
  /\ UNCHANGED <<vars, readVars>>

(* Process returns to Assemble. *)
IncludesProcessed ==
  /\ Include!Finished
  /\ BeginFirstPass(Include!Top.result)
  /\ UNCHANGED <<includeVars, readVars>>

RunPasses == Next /\ UNCHANGED <<includeVars, readVars>>

AssembleStep ==
  \/ ParseRoot
  \/ ProcessIncludes
  \/ IncludesProcessed
  \/ RunPasses

AssembleNext ==
  \/ ReadRoot
  \/ AssembleStep

FileSpec == AssembleInit /\ [][AssembleNext]_allVars

-----------------------------------------------------------------------------
(***************************************************************************)
(* Properties.                                                             *)
(***************************************************************************)

(* The passes work on the root with every include directive replaced, at its
   place, by the text of the file: nothing is lost, repeated or moved, also
   where a file is included from two places. *)
ProgramIsExpansion ==
  stage \in {"first_pass", "encode", "done"} =>
    program = Include!Expansion(Root)

(* ProcessProgram throws only for a missing or unparsable file, as long as
   no file includes itself: including one twice is no circle. *)
NoFalseAlarm == Include!ThrowsForGoodReason

(* When no file includes itself, Assemble returns or throws. *)
AssemblingEnds == <>(error \/ stage \in {"done", "error"})

(* "Circular includes are detected and prevented": ProcessProgram never
   comes to a file that it is processing. *)
CircularIncludesDetected == Include!NoFileInsideItself
=============================================================================

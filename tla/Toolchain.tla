------------------------------ MODULE Toolchain ------------------------------
(***************************************************************************)
(* From source to a loaded cartridge and back: the assembler's main        *)
(* assembles a file and writes a cartridge and its debug symbols over      *)
(* those of an older build; the simulator and the disassembler read the    *)
(* two files whenever they are started; the listing is assembled again.    *)
(*                                                                         *)
(* Writing can go wrong in ways main does not see: the process is killed,  *)
(* or the disk is full and a stream takes only part of what it is given.   *)
(* Files are opened, written and read in steps of their own, so that a     *)
(* reader may find one that the assembler is writing.                      *)
(***************************************************************************)
EXTENDS AssembleFile, CartridgeFile, DebugJson, Disassembler

CONSTANTS
  Ships(_),       \* is the result under these options followed onto the disk?
  Faults(_),      \* may writing it fail?
  FileName,       \* the path of the source, its directory and the text of
  SourceRoot,     \* its statements, as sequences of characters
  SourceText(_),
  OlderBuild      \* what the output files hold before

VARIABLES
  tool,    \* how far the assembler's main is: "assembling",
           \* "writing_cartridge", "writing_symbols", "exit_0", "exit_1",
           \* "killed"; "again" for the second assembly
  built,   \* the result of Assemble, << >> before it
  bin,     \* the cartridge and the symbols on disk: the build they were
  json,    \* written for and how much of it is there
  reader   \* the program that loads them: how far the assembler was when it
           \* began; the size it measured, what it has read and, as a ghost,
           \* what the file was then; what it made of each file, and as a
           \* ghost the files that did not change while they were read

diskVars == <<tool, built, bin, json, reader>>
toolVars == <<allVars, diskVars>>

(* AssemblerResult.  Each statement stands on a line of its own. *)
Build ==
  [entry |-> options.origin,
   rom |-> [i \in 1 .. options.rom_size |-> rom[i - 1]],
   source_root |-> SourceRoot,
   source_files |-> <<FileName>>,
   symbols |-> [name \in {<<l>> : l \in DOMAIN symbols} |-> symbols[name[1]]],
   records |-> [i \in DOMAIN records |->
                  [address |-> records[i].address, rom_offset |-> records[i].rom_offset,
                   location |-> [file |-> FileName, line |-> records[i].statement,
                                 column |-> 1,
                                 text |-> SourceText(program[records[i].statement])]]]]

(* A file holds a part of the contents WriteFile has for it. *)
Parts == <<"none", "header", "most", "all">>
File(build, part) == [build |-> build, part |-> part]
Whole(build) == File(build, "all")

(* What another write may make of it. *)
MoreOf(file) ==
  LET taken == CHOOSE n \in DOMAIN Parts : Parts[n] = file.part
      later == {n \in DOMAIN Parts : n > taken}
  IN  {File(file.build, Parts[n]) :
         n \in IF Faults(options) THEN later ELSE later \cap {Len(Parts)}}
MayClose(file) == Faults(options) \/ file = Whole(file.build)

Portion(part, n) ==
  CASE part = "none" -> 0 [] part = "header" -> Min({n, kCartridgeHeaderSize})
    [] part = "most" -> n - 1 [] part = "all" -> n
BinBytes ==
  LET bytes == CartridgeBytes(bin.build.entry, bin.build.rom)
  IN  SubSeq(bytes, 1, Portion(bin.part, Len(bytes)))
JsonTokens ==
  LET encoded == EncodeDebugJson(json.build)
  IN  SubSeq(encoded, 1, Portion(json.part, Len(encoded)))

NotStarted ==
  [began |-> "never", reads |-> "size", size |-> 0, data |-> << >>,
   found |-> Whole(OlderBuild), cartridge |-> Refused, symbols |-> NoParse, calm |-> {}]

ToolInit ==
  /\ AssembleInit
  /\ tool = "assembling"
  /\ built = << >>
  /\ bin = Whole(OlderBuild)
  /\ json = Whole(OlderBuild)
  /\ reader = NotStarted

(* AssembleFile, up to its return or the exception that main reports. *)
RunAssembler ==
  /\ AssembleNext
  /\ UNCHANGED diskVars

AssemblerFails ==
  /\ tool = "assembling" /\ Ships(options)
  /\ stage = "error"
  /\ tool' = "exit_1"
  /\ UNCHANGED <<allVars, built, bin, json, reader>>

(* WriteFile: opening truncates, and nobody looks whether the stream took
   everything. *)
OpenCartridge ==
  /\ tool = "assembling" /\ stage = "done" /\ Ships(options)
  /\ built' = Build
  /\ bin' = File(built', "none")
  /\ tool' = "writing_cartridge"
  /\ UNCHANGED <<allVars, json, reader>>

WriteCartridge ==
  /\ tool = "writing_cartridge"
  /\ bin' \in MoreOf(bin)
  /\ UNCHANGED <<allVars, tool, built, json, reader>>

(* Mutant: the symbols are not written. *)
SkipDebugInfo ==
  /\ tool = "writing_cartridge" /\ MayClose(bin)
  /\ tool' = "exit_0"
  /\ UNCHANGED <<allVars, built, bin, json, reader>>

OpenDebugInfo ==
  /\ tool = "writing_cartridge" /\ MayClose(bin)
  /\ json' = File(built, "none")
  /\ tool' = "writing_symbols"
  /\ UNCHANGED <<allVars, built, bin, reader>>

WriteDebugInfo ==
  /\ tool = "writing_symbols"
  /\ json' \in MoreOf(json)
  /\ UNCHANGED <<allVars, tool, built, bin, reader>>

Return ==
  /\ tool = "writing_symbols" /\ MayClose(json)
  /\ tool' = "exit_0"
  /\ UNCHANGED <<allVars, built, bin, json, reader>>

(* A file cannot be opened for writing. *)
OpenFails ==
  /\ Faults(options)
  /\ tool = "writing_cartridge" \/ (tool = "assembling" /\ stage = "done" /\ Ships(options))
  /\ tool' = "exit_1"
  /\ UNCHANGED <<allVars, built, bin, json, reader>>

Kill ==
  /\ Faults(options) /\ tool \in {"writing_cartridge", "writing_symbols"}
  /\ tool' = "killed"
  /\ UNCHANGED <<allVars, built, bin, json, reader>>

(* main of the simulator, the inspector and the disassembler: the cartridge,
   then the symbols, unless the cartridge is refused.  ReadFile takes the
   size of the cartridge first, 0 being refused. *)
MeasureCartridge ==
  /\ Ships(options) /\ stage \in {"done", "error"} /\ tool # "again"
  /\ Faults(options) \/ tool = "exit_0"
  /\ reader.reads = "size"
  /\ reader' = [reader EXCEPT !.began = tool, !.found = bin, !.size = Len(BinBytes),
                              !.reads = IF BinBytes = << >> THEN "nothing" ELSE "cartridge"]
  /\ UNCHANGED <<allVars, tool, built, bin, json>>

(* What the file has now behind the place the stream has come to.  Reading
   takes all of it, or stops within it and goes on with the file as it is
   then. *)
Behind(contents) == SubSeq(contents, Len(reader.data) + 1, Len(contents))
Blocks(rest) ==
  {rest} \cup (IF Faults(options) /\ reader.data = << >>
                 THEN {SubSeq(rest, 1, Min({Len(rest), kCartridgeHeaderSize}))} ELSE {})

(* The vector has the size that was measured, whatever the file has now; what
   the read does not fill is 0, and nobody asks how much that is. *)
WithinSize == Behind(SubSeq(BinBytes, 1, Min({reader.size, Len(BinBytes)})))
ReadContents ==
  /\ reader.reads = "cartridge" /\ WithinSize # << >>
  /\ \E block \in Blocks(WithinSize) : reader' = [reader EXCEPT !.data = @ \o block]
  /\ UNCHANGED <<allVars, tool, built, bin, json>>

LoadWhatWasRead ==
  /\ reader.reads = "cartridge" /\ WithinSize = << >>
  /\ LET zeros == [i \in 1 .. reader.size - Len(reader.data) |-> 0]
         cartridge == LoadCartridge(reader.data \o zeros)
     IN  reader' = [reader EXCEPT !.cartridge = cartridge, !.data = << >>, !.size = 0,
                      !.calm = IF bin = reader.found THEN {"cartridge"} ELSE {},
                      !.reads = IF cartridge.ok THEN "symbols" ELSE "nothing"]
  /\ UNCHANGED <<allVars, tool, built, bin, json>>

(* The symbols are read up to the end of the file. *)
ReadSymbols ==
  /\ reader.reads = "symbols" /\ Behind(JsonTokens) # << >>
  /\ \E block \in Blocks(Behind(JsonTokens)) :
       reader' = [reader EXCEPT !.data = @ \o block,
                                !.found = IF reader.data = << >> THEN json ELSE @]
  /\ UNCHANGED <<allVars, tool, built, bin, json>>

ParseWhatWasRead ==
  /\ reader.reads = "symbols" /\ Behind(JsonTokens) = << >>
  /\ reader' = [reader EXCEPT !.symbols = LoadDebugSymbols(reader.data), !.data = << >>,
                   !.calm = IF json = reader.found THEN @ \cup {"symbols"} ELSE @,
                   !.reads = "nothing"]
  /\ UNCHANGED <<allVars, tool, built, bin, json>>

(* The disassembler is given the entry as origin, and its listing takes the
   place of the source.  An address with several labels shows one of them. *)
Names == [name \in {n[1] : n \in DOMAIN reader.symbols.symbols} |->
            reader.symbols.symbols[<<name>>]]
AssembleListing ==
  /\ tool = "exit_0" /\ reader.began = "exit_0"
  /\ reader.symbols.ok /\ ~Faults(options)
  /\ \E labels \in LabelMaps(Names) :
       files' = [files EXCEPT ![Root] =
                   Disassemble(reader.cartridge.rom, reader.cartridge.entry, labels)]
  /\ tool' = "again"
  /\ frames' = <<Include!Frame(Root)>> /\ include_stack' = {}
  /\ loading' = << >> /\ error' = FALSE
  /\ program' = << >> /\ stage' = "parse" /\ next' = 1
  /\ cursor' = options.origin /\ max_address' = options.origin
  /\ items' = << >> /\ symbols' = << >> /\ constants' = << >>
  /\ rom' = << >> /\ records' = << >>
  /\ UNCHANGED <<options, readVars, built, bin, json, reader>>

ToolNext ==
  \/ RunAssembler
  \/ AssemblerFails
  \/ OpenCartridge
  \/ WriteCartridge
  \/ OpenDebugInfo
  \/ WriteDebugInfo
  \/ Return
  \/ OpenFails
  \/ Kill
  \/ MeasureCartridge
  \/ ReadContents
  \/ LoadWhatWasRead
  \/ ReadSymbols
  \/ ParseWhatWasRead
  \/ AssembleListing

(* One thread works through the program and waits for nobody.  Of ReadRoot,
   which is enabled wherever the text is being read, weak fairness is
   written out. *)
AssemblerGoesOn ==
  /\ []<>(~Reading) \/ []<><<Reading>>_toolVars
  /\ WF_toolVars(AssembleStep /\ UNCHANGED diskVars)

ToolSpec == ToolInit /\ [][ToolNext]_toolVars /\ AssemblerGoesOn

-----------------------------------------------------------------------------
(***************************************************************************)
(* Properties.                                                             *)
(***************************************************************************)

Builds == {OlderBuild} \cup (IF built = << >> THEN {} ELSE {built})

HoldsCartridge(build) ==
  reader.cartridge = [ok |-> TRUE, entry |-> build.entry, rom |-> build.rom]

(* The symbols a debugger should see of a build: of two statements that wrote
   the same address the first is named. *)
HoldsSymbols(build) ==
  LET s == reader.symbols
      at(a) == {i \in DOMAIN build.records : build.records[i].address = a}
  IN  /\ s.entry = build.entry /\ s.rom_size = Len(build.rom)
      /\ s.source_root = build.source_root /\ s.source_files = build.source_files
      /\ s.symbols = build.symbols
      /\ s.records = build.records
      /\ DOMAIN s.pc_to_source = {r.address : r \in Range(build.records)}
      /\ \A a \in DOMAIN s.pc_to_source :
           s.pc_to_source[a] = build.records[Min(at(a))].location

(* LoadCartridge and LoadDebugSymbols never take a part of a file for the
   whole: whatever kept the assembler from writing all of it, a cartridge or
   a set of symbols that is accepted is that of one build, to the last byte,
   and no name or source line is changed by the escapes on the way.  This is
   so only of a file that did not change while it was read: one the assembler
   was writing may be accepted although it is filled with zeros or mixed of
   two builds. *)
NoPartIsLoaded ==
  /\ reader.cartridge.ok /\ "cartridge" \in reader.calm =>
       \E build \in Builds : HoldsCartridge(build)
  /\ reader.symbols.ok /\ "symbols" \in reader.calm =>
       \E build \in Builds : HoldsSymbols(build)

(* The simulator compares the two files in nothing, so a cartridge can be run
   with the symbols of another build: but only if it began to read before the
   assembler was done, or the assembler did not get to the symbols. *)
SymbolsBelongToCartridge ==
  reader.symbols.ok /\ reader.began = "exit_0" =>
    \E build \in Builds : HoldsCartridge(build) /\ HoldsSymbols(build)

(* What the assembler wrote in full is what a program started afterwards
   loads: neither file is refused. *)
WholeBuildLoads ==
  /\ reader.began = "exit_0" /\ reader.reads = "nothing"
  /\ bin = Whole(built) /\ json = Whole(built)
  => HoldsCartridge(built) /\ reader.symbols.ok /\ HoldsSymbols(built)

(* LoadCartridge and LoadDebugSymbols take an undisturbed build whole or not
   at all, and refuse none that is whole. *)
BuildArrivesWhole == NoPartIsLoaded /\ WholeBuildLoads

(* Listings that mean something else to the assembler.  An address below 256
   that has no name is read back as a zero page address, if the instruction
   has such a mode.  A label within an instruction or outside the cartridge
   is used, and not declared. *)
Shrinks(i) ==
  /\ built.rom[i] \in Opcodes /\ i + 2 <= Len(built.rom)
  /\ InstructionAt[built.rom[i]][2] \in {"ABS", "ABX", "ABY"}
  /\ built.rom[i + 2] = 0
Undeclared(stmt) ==
  /\ stmt.kind = "instruction" /\ stmt.operands # << >>
  /\ stmt.operands[1].kind = "label"
  /\ \A d \in Range(files[Root]) :
       d.kind = "label" => d.name # stmt.operands[1].label

(* Away from the ends of the address space, the disassembled cartridge,
   assembled again, is the same cartridge, except for the listings above:
   data that was taken for code, code entered in the middle, and labels and
   branches come out the same. *)
DisassemblyReassembles ==
  tool = "again" =>
    \/ \E i \in DOMAIN built.rom : Shrinks(i)
    \/ \E s \in Range(files[Root]) : Undeclared(s)
    \/ /\ stage # "error"
       /\ stage = "done" => Build.rom = built.rom
=============================================================================

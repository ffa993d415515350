SPECIFICATION ToolSpec
CONSTANTS
  Options <- MCOptions
  Trees <- MCTrees
  Texts <- MCTexts
  Letters <- MCLetters
  NumberModulus = 256
  Root = "root"
  Garbage <- MCGarbage
  Ships <- MCShips
  Faults <- MCFaults
  FileName <- MCFileName
  SourceRoot <- MCSourceRoot
  SourceText <- MCSourceText
  OlderBuild <- Older
INVARIANTS ProgramIsExpansion NoFalseAlarm TokensCoverText ParserAcceptsGrammar OperandsMeanWhatIsWritten ImageMatchesSource LabelsReachCode ItemsFit SourceMapNamesWriter BuildArrivesWhole SymbolsBelongToCartridge DisassemblyReassembles
PROPERTY AssemblingEnds
CHECK_DEADLOCK FALSE

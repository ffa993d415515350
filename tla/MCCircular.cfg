SPECIFICATION ToolSpec
CONSTANTS
  Options <- CyclicOptions
  Trees <- CyclicTrees
  Texts <- MCTexts
  Letters <- MCLetters
  NumberModulus = 256
  Root = "root"
  Garbage <- MCGarbage
  Ships <- MCShips
  Faults <- MCFaults
  FileName <- MCFileName
  SourceRoot <- MCSourceRoot
  SourceText <- MCSourceText
  OlderBuild <- Older
INVARIANT CircularIncludesDetected
CHECK_DEADLOCK FALSE

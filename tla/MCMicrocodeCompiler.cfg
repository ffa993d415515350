SPECIFICATION LoaderSpec
CONSTANTS
  Control <- MCControl
  Sources <- MCSources
  Expected <- MCExpected
  StatusBits <- MCStatusBits
  BusOf <- MCBusOf
  MAX_STEPS = 4
  HdlOrder <- Order
  HdlBits <- Bits
  Cpus <- MCCpus
  MAX_CONTROLS = 6
INVARIANTS MeaningKept WalksEnd ControlsArrive DumpReadsBack
CHECK_DEADLOCK FALSE

SPECIFICATION LoaderSpec
CONSTANTS
  Control <- MCControl
  Sources <- MCSources
  Expected <- MCExpected
  StatusBits <- MCStatusBits
  BusOf <- MCBusOf
  MAX_STEPS = 4
  HdlOrder <- Order
  HdlBits <- Bits
  Cpus <- MCCpus
  MAX_CONTROLS = 6
INVARIANT EmptyStepsGo
CHECK_DEADLOCK FALSE

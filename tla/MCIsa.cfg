SPECIFICATION IsaSpec
CONSTANTS
  Mnemonics <- AllMnemonics
  Images <- MCImages
  Cartridge <- Vector
  MaxInstructions = 1
  NoValue = NoValue
  Keys = {}
  KeyBits = {}
  QUEUE_SIZE = 1
PROPERTIES ImplementsIsa EveryInstructionCompletes
CHECK_DEADLOCK FALSE

SPECIFICATION IsaSpec
CONSTANTS
  Mnemonics = {"SBC"}
  Images <- MCImages
  Cartridge <- Vector
  MaxInstructions = 1
  NoValue = NoValue
  Keys = {}
  KeyBits = {}
  QUEUE_SIZE = 1
PROPERTY SbcOverflow
CHECK_DEADLOCK FALSE

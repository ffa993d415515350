SPECIFICATION Spec
CONSTANTS
  Cartridge <- Echo
  Entry = 33277
  Images <- StartImages
  NoValue = NoValue
  Keys = {1, 4}
  KeyBits = {}
  QUEUE_SIZE = 2
INVARIANTS NoEmptyRead StackBalanced StaysOnTrack

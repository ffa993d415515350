SPECIFICATION FairSpec
CONSTANTS
  Cartridge <- Masked
  Entry = 33277
  Images <- StartImages
  NoValue = NoValue
  Keys = {1}
  KeyBits = {}
  QUEUE_SIZE = 2
PROPERTY OldestKeyIsServed

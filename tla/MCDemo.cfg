SPECIFICATION DemoSpec
CONSTANTS
  Cartridge <- Demo
  Entry = 33277
  Images <- StartImages
  NoValue = NoValue
  Keys = {1, 13, 48}
  KeyBits = {1}
  QUEUE_SIZE = 2
  Options <- DemoOptions
  Keyboard <- DemoKeyboard
INVARIANTS DumpNamesCulprit TraceIsPath
CHECK_DEADLOCK FALSE
PROPERTIES KeysAreServed QuitEndsRun

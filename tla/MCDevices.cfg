SPECIFICATION DevSpec
CONSTANTS
  Keys = {k1, k2}
  NoKey = NoKey
  QUEUE_SIZE = 3
  KeyBits = {up}
  Fill = 0
  SizeBits = 30
  UintRange = 262144
  Layouts <- MCLayouts
  Probes <- MCProbes
  Loads <- MCLoads
  Stores <- MCStores
  Typed <- MCTyped
INVARIANTS IInv EveryCellIsReached RamKeepsWrites OnCourse
PROPERTIES ImplementsFifo PendingKeyRaisesIrq Approaches LineIsWhole
CHECK_DEADLOCK FALSE

CONSTANTS
  r1 = r1
  r2 = r2
  r3 = r3
  data_bus = data_bus
  address_bus = address_bus
  Components = {r1, r2, r3}
  Buses = {data_bus, address_bus}
  BusOf <- MCBusOf
  Values = {0, 1}
  Zero = 0
  NoValue = NoValue
  Program <- MCProgram
  Wide <- MCWide
  Starts <- MCStarts
SPECIFICATION DatapathSpec
INVARIANTS NoBusError TransferComplete SumsAreExact ShiftsAreExact AddOverflowIsExact

CONSTANTS
  Sources = {s1, s2}
  Dests <- DestsDef
  PortLo = 3
  PortHi = 4
  Tries = 1
  Hosts = {h1, h2, h3}
  First = 4
  Last = 7
  Max = 2
  Loops = 3
  Skipped = {5}
  NoHost = NoHost
SYMMETRY Symmetry
SPECIFICATION StackSpec
INVARIANTS MapsInverse PoolExact RightHost AddressKept
PROPERTIES PortsStable NoneOnlyWhenFull

CONSTANTS
  AddressLists <- Lists
  MaxRace = 2
SPECIFICATION DialSpec
INVARIANTS DialsAsListed SecretsProtected GivesUpLast
PROPERTIES DialEnds
CHECK_DEADLOCK FALSE

CONSTANTS
  MaxBytes = 2
  MaxFrames = 3
  MaxUp = 3
  MaxChunk = 2
  MaxEmpty = 1
SPECIFICATION Spec
INVARIANTS ErrorHasCause UplinkDecodes
PROPERTIES RefinesPipe EndIsSeen
CHECK_DEADLOCK FALSE

SPECIFICATION Spec
CONSTANTS
  a = a
  b = b
  c = c
  Idle = idle
  NoTask = none
  INV = INV
  Bad = Bad
  Task <- MCTask
  length = 3
  Byte <- MCByte
  Key <- MCKey
  Physical <- MCPhysical
  keymap <- MCKeymap
  Letters <- MCLetters
  Counts = {0, 2}
  MaxLine = 3
SYMMETRY Symmetry
INVARIANTS
  NoByteUnnoticed
  KeymapIsWhatIsPressed
PROPERTIES
  IsBlockingReader

SPECIFICATION OutputSpec
CONSTANTS
  a = a
  Blank = Blank
  WIDTH = 2
  HEIGHT = 2
  MEM_SIZE = 11
  Text <- MCText
  MaxCount = 4
  init = init
  child = child
  test = test
  kernel = kernel
  Task <- MCTask
  Masked <- MCMasked
  Kernel = kernel
  Programs <- OutputPrograms
  Char <- MCChar
  BufSize = 16
  WORD = 65536
INVARIANTS
  CursorIsOnScreen
  WindowInMemory
  ShowsTheFormat
  CountsAreItsOwn
PROPERTIES
  IsTerminal

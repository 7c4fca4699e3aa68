SPECIFICATION PrintfSpec
CONSTANTS
  init = init
  child = child
  test = test
  kernel = kernel
  Task <- MCTask
  Masked <- MCMasked
  Kernel = kernel
  Programs <- MCNegatives
  Char <- MCChar
  BufSize = 16
  WORD = 65536
INVARIANT NegativesHaveASign

SPECIFICATION Spec
CONSTANTS
  l1 = l1
  l2 = l2
  n1 = n1
  n2 = n2
  n3 = n3
  n4 = n4
  NULL = NULL
  List <- MCList
  Node <- MCNode
INVARIANTS
  LinksAreTwoWay
PROPERTIES
  IsQueues

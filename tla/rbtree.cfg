SPECIFICATION Spec
CONSTANTS
  Node <- MCNode
  rt <- MCRt
  Nil = Nil
INVARIANTS TreeSorted RedBlack WalkExact SizesExact
CHECK_DEADLOCK FALSE

CONSTANTS
    N = 6
    BST_MAX_HEIGHT = 3
    Kinds = {"bst", "avl", "rb", "tbst", "tavl", "trb", "rtbst", "rtavl", "rtrb", "pbst", "pavl", "prb"}
    ParamSet = FALSE
    TagSet = FALSE
SPECIFICATION Spec
INVARIANTS
  TreesTypeOK
  ShapeKept
  TraversersExact
  OperationsExact
  
PROPERTIES
  TableKept

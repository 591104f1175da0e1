SPECIFICATION FairSpec
CONSTANTS
  Docs = {d1, d2}
  Nodes = {n1, n2, n3, n4}
  Null = Null
  MaxDepth = 4
INVARIANTS
  LinksAgree
  UnlinkedExact
  NothingLeftBehind
  CopyInOrder
  InsertsWhereTold
PROPERTIES
  ListsSpec
  CallsEnd

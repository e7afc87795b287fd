CONSTANTS
  Block <- Ring
  Hash <- RingHash
  Account = {"G", "A", "B", "C"}
  Zero = "0"
  Genesis = "g0"
  Modes = {"bounded"}
  unbounded_cutoff = 6
  BatchWriteSizes = {2}
  max_items = 2
  pending_writes_max_size = 3
  MaxAdds = 2
CHECK_DEADLOCK FALSE
SPECIFICATION Spec
INVARIANTS
  BooksRight
PROPERTIES
  ImplementsCementer
  UncementedAnswered

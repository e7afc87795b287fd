CONSTANTS
  Block <- Fan
  Hash <- FanHash
  Account = {"G", "A", "B"}
  Zero = "0"
  Genesis = "g0"
  Modes = {"automatic"}
  unbounded_cutoff = 6
  BatchWriteSizes = {2}
  max_items = 2
  pending_writes_max_size = 3
  MaxAdds = 2
CHECK_DEADLOCK FALSE
SPECIFICATION Spec
INVARIANTS
  BooksRight
PROPERTIES
  ImplementsCementer
  UncementedAnswered

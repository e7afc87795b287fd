CONSTANTS
  process_batch = process_batch
  confirmation_height = confirmation_height
  local = local
  none = none
  Writer <- MCWriter
  MaxBlocks = 2
  MaxHashes = 2
  MaxLocal = 1
  MaxWrites = 2
  Pieces = 2
  batch_write_size = 2
  pending_writes_max_size = 3
CHECK_DEADLOCK FALSE
SPECIFICATION Spec
INVARIANTS
  GuardsExclusive
  NoLostWakeup
  TicketsRedeemed
  TransactionsGuarded
PROPERTIES
  BlocksProcessed
  LocalWritten
  PendingWritten
  StopReaches

CONSTANTS
  Hash <- ForkHash
  Account = {"G", "D"}
  Zero = "0"
  Block <- ForkBlock
  Genesis = "g"
  Legacy = {"g", "b", "d"}
  Live = {"a", "d"}
  quarter_size = 1
  MaxArrivals = 1
  Traffic = {{"a", "b", "d"}, {"a", "d", "x"}}
  Rank <- ForkRank
  Rep <- Voters
  weight <- Weights
  online_weight_minimum = 1
  delta = 2
  HashOrder <- ForkOrder
  MaxSequence = 1
  MaxVotes = 2
  Candidates <- Ballots
  max_blocks = 10
  tenth = 1
  recently_confirmed_size = 1
CHECK_DEADLOCK FALSE
SPECIFICATION Spec
INVARIANTS
  NoBlockStranded
  WinnersOwned
  CementedReported
  NoMissedActivation
PROPERTIES
  ConfirmedStays

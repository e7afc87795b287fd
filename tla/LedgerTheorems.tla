--------------------------- MODULE LedgerTheorems ---------------------------
(***************************************************************************)
(* The next step, and the theorems about the specification of the ledger   *)
(* and of its restarts.                                                    *)
(***************************************************************************)
EXTENDS LedgerRestart, LedgerProcessProofs, LedgerUndoProofs, LedgerPropertyProofs, Sums

(* Enough time for a step on a busy machine.                                *)
USE ZenonT(60)

(* The laws the lemmas assume.                                              *)
LEMMA LawsHold ==
  CountLaws /\ RankLaw /\ RecursionLaw /\ SumLaws /\ BelowLaw /\ RepresentativeInForce
BY BelowLawHolds, CountLawsHold, RankLawHolds, RecursionLawHolds, SumLawsHold, RepresentativeFound

(* ledger::process preserves the invariant, whatever block it is given.     *)
LEMMA ProcessInv ==
  ASSUME LedgerInv, NEW b \in Hash, Process(b)
  PROVE  LedgerInv'
<1>1. CASE process_refused(b)
  BY <1>1, UnchangedInv DEF process_refused
<1>2. CASE Appended(b)
  BY <1>2, AppendedInv, AppendedCounts, LawsHold
<1> QED BY <1>1, <1>2, SendAppends, ReceiveAppends, OpenAppends, ChangeAppends, StateAppends,
           EpochAppends DEF Process

(* A step of the ledger adds a block, undoes one, cements one, or leaves    *)
(* the tables and counters alone.                                           *)
LEMMA StepKinds ==
  ASSUME LedgerInv, [Next]_vars
  PROVE  \/ \E b \in Hash : Appended(b)
         \/ \E h : Removed(h)
         \/ \E a \in Account : Cement(a)
         \/ UNCHANGED <<tables, block_count, account_count, cemented_count, epoch_2_started>>
<1>1. CASE \E b \in Hash : Process(b)
  BY <1>1, SendAppends, ReceiveAppends, OpenAppends, ChangeAppends, StateAppends, EpochAppends
     DEF Process, process_refused, vars, tables
<1>2. CASE \E h \in Hash : RollbackStart(h)
  BY <1>2 DEF RollbackStart, caches
<1>3. CASE RollbackStep
  <2>1. CASE \E h \in Hash : visit_send(h) \/ visit_state_send(h)
    BY <2>1 DEF visit_send, visit_state_send, caches
  <2>2. CASE rollback_receiver \/ rollback_return \/ rollback_refused
    BY <2>2 DEF rollback_receiver, rollback_return, rollback_refused, caches
  <2> QED BY <1>3, <2>1, <2>2, ReceiveRemoves, OpenRemoves, ChangeRemoves, StateRemoves,
             SendRemoves, StateSendRemoves, LawsHold DEF RollbackStep
<1>4. CASE \E a \in Account : Cement(a)
  BY <1>4
<1>5. CASE UNCHANGED vars
  BY <1>5 DEF vars, tables
<1> QED BY <1>1, <1>2, <1>3, <1>4, <1>5 DEF Next

(* Every step preserves the invariant.                                      *)
LEMMA NextInv == LedgerInv /\ [Next]_vars => LedgerInv'
<1> SUFFICES ASSUME LedgerInv, [Next]_vars PROVE LedgerInv'
  OBVIOUS
<1>1. CASE \E b \in Hash : Process(b)
  BY <1>1, ProcessInv
<1>2. CASE \E h \in Hash : RollbackStart(h)
  BY <1>2, StartInv
<1>3. CASE RollbackStep
  <2>1. CASE \E h \in Hash : visit_send(h) \/ visit_state_send(h)
    BY <2>1, VisitSendInv, LawsHold
  <2>2. CASE \E h : Removed(h)
    BY <2>2, RemovedInv, RemovedCounts, LawsHold
  <2>3. CASE rollback_receiver
    BY <2>3, ReceiverInv
  <2>4. CASE rollback_return \/ rollback_refused
    BY <2>4, ReturnInv
  <2> QED BY <1>3, <2>1, <2>2, <2>3, <2>4, ReceiveRemoves, OpenRemoves, ChangeRemoves,
             StateRemoves, SendRemoves, StateSendRemoves, LawsHold DEF RollbackStep
<1>4. CASE \E a \in Account : Cement(a)
  BY <1>4, CementStep
<1>5. CASE UNCHANGED vars
  BY <1>5, UnchangedInv
<1> QED BY <1>1, <1>2, <1>3, <1>4, <1>5 DEF Next

(* The tables, counters and rollback stack of the ledger fit together in    *)
(* every reachable state, for every universe of blocks.                     *)
THEOREM LedgerInvariance == Spec => []LedgerInv
<1>1. Init => LedgerInv
  BY InitInv, InitCounts, LawsHold
<1>2. LedgerInv /\ [Next]_vars => LedgerInv'
  BY NextInv
<1> QED BY <1>1, <1>2, PTL DEF Spec

(* Every table and cache keeps its type; balances, weights and pending      *)
(* amounts in particular stay unsigned 128 bit values.                      *)
THEOREM TypeCorrect == Spec => []TypeOK
<1>1. LedgerInv => TypeOK
  BY DEF LedgerInv
<1> QED BY <1>1, LedgerInvariance, PTL

(* A nested rollback is never refused: the receiver of an uncemented send   *)
(* is not cemented, nor is any block on top of it.                          *)
THEOREM NestedNeverRefused == Spec => []NestedRollbackAllowed
<1>1. LedgerInv => NestedRollbackAllowed
  BY DEF LedgerInv, StackInv, NestedAtHead, NestedRollbackAllowed, above_confirmation_height,
         block_exists, stored
<1> QED BY <1>1, LedgerInvariance, PTL

(* The account_info the state block visitor read before a nested rollback   *)
(* is still the stored one afterwards.                                      *)
THEOREM WaitingUndisturbed == Spec => []VisitedUntouched
<1>1. LedgerInv => VisitedUntouched
  BY DEF LedgerInv, StackInv, VisitedAreHeads, VisitedUntouched, block_exists, stored
<1> QED BY <1>1, LedgerInvariance, PTL

(* Cemented blocks stand on cemented blocks, and each confirmation height   *)
(* names the block at that height.                                          *)
THEOREM CementedOnly == Spec => []CementedClosed
<1>1. LedgerInv => CementedClosed
  <2> SUFFICES ASSUME LedgerInv PROVE CementedClosed
    OBVIOUS
  <2>1. BlocksOwned /\ HeightsKnown /\ CementedOnCemented /\ CementedFrontiers
    BY DEF LedgerInv, ChainInv, CementInv
  <2>2. \A h \in stored : block_account(h) = owner(h)
    BY <2>1, Confirmed
  <2> QED BY <2>1, <2>2 DEF CementedClosed, HeightsKnown, CementedOnCemented, CementedFrontiers,
                            stored, block_exists
<1> QED BY <1>1, LedgerInvariance, PTL

(* The blocks of an account form one chain, known from both ends.           *)
THEOREM ChainsAlwaysLinked == Spec => []ChainsLinked
BY ChainsFollow, LedgerInvariance, PTL

(* account_info holds what the head block gives the account.                *)
THEOREM AccountsAlwaysMatch == Spec => []AccountsMatchHeads
BY AccountsFollow, LedgerInvariance, PTL

(* Every send is pending with its amount and epoch, or received once by its *)
(* destination.                                                             *)
THEOREM SendsNeverLost == Spec => []SendsPendingOrReceived
BY SendsFollow, LawsHold, LedgerInvariance, PTL

(* The epoch never falls along a chain.                                     *)
THEOREM EpochsAlwaysOrdered == Spec => []EpochsOrdered
BY EpochsFollow, LedgerInvariance, PTL

(* A block refused as a fork has a stored rival, which forked_block finds,  *)
(* or is on the head of another account, where it finds none.               *)
THEOREM ForksHaveRivals == Spec => []ForkHasRival
BY ForksFollow, LedgerInvariance, PTL

(* A block refused for a gap misses what it names, or is of the two kinds   *)
(* that are parked for ever and never taken.                                *)
THEOREM GapsMissDependencies == Spec => []GapMissesDependency
BY GapsFollow, LedgerInvariance, PTL

(* Balances on record are the ones recomputed from the blocks alone.        *)
THEOREM BalancesAlwaysSumUp == Spec => []BalancesSumUp
BY BalancesFollow, LawsHold, LedgerInvariance, PTL

(* No step of the ledger un-cements a block or moves it.                    *)
LEMMA CementedKept ==
  ASSUME LedgerInv, [Next]_vars, NEW h, block_confirmed(h)
  PROVE  block_confirmed(h)' /\ blocks'[h].height = blocks[h].height
<1>0. h \in stored
  BY DEF block_confirmed, block_exists, stored
<1>1. CASE \E b \in Hash : Appended(b)
  BY <1>0, <1>1, AppendedCement, AppendedFacts DEF AppendedReads
<1>2. ASSUME NEW k, Removed(k)
      PROVE  block_confirmed(h)' /\ blocks'[h].height = blocks[h].height
  <2>1. h # k /\ \A x \in stored' : block_confirmed(x)' <=> block_confirmed(x)
    BY <1>2, RemovedCement
  <2>2. stored' = stored \ {k} /\ \A x \in stored' : blocks'[x].height = blocks[x].height
    BY <1>2, RemovedFacts DEF RemovedReads
  <2>3. h \in stored'
    BY <1>0, <2>1, <2>2
  <2> QED BY <2>1, <2>2, <2>3
<1>3. CASE \E a \in Account : Cement(a)
  BY <1>0, <1>3, CementStep DEF Cement
<1>4. CASE UNCHANGED <<tables, block_count, account_count, cemented_count, epoch_2_started>>
  BY <1>4 DEF tables, block_confirmed, block_exists, block_account
<1> QED BY <1>1, <1>2, <1>3, <1>4, StepKinds

(* No step un-cements a block: whatever is rolled back, and however deep    *)
(* the rollback recurses, cemented blocks stay.                             *)
THEOREM CementedForever == Spec => CementedStay
<1> DEFINE Stay == \A h \in Hash : block_confirmed(h) => block_confirmed(h)'
<1>1. LedgerInv /\ [Next]_vars => Stay
  BY CementedKept
<1> QED BY <1>1, LedgerInvariance, PTL DEF Spec, CementedStay

(* Every step keeps the weights.                                            *)
LEMMA NextWeights ==
  LedgerInv /\ LedgerInv' /\ RepWeightsDelegated /\ [Next]_vars => RepWeightsDelegated'
<1> SUFFICES ASSUME LedgerInv, LedgerInv', RepWeightsDelegated, [Next]_vars
             PROVE  RepWeightsDelegated'
  OBVIOUS
<1>0. ASSUME UNCHANGED <<blocks, accounts, rep_weights, stack>> PROVE RepWeightsDelegated'
  <2>1. \A h : balance(h)' = balance(h)
    BY <1>0 DEF balance, block_balance_calculated
  <2>2. \A a \in DOMAIN accounts : standing(a)' = standing(a)
    BY <1>0, <2>1 DEF standing, waits, representative_before
  <2> QED BY <1>0, <2>2, WeightsStay
<1>1. CASE \E b \in Hash : Appended(b)
  BY <1>1, AppendedRepresentation, LawsHold
<1>2. CASE \E h : Removed(h)
  BY <1>2, RemovedRepresentation, LawsHold
<1>3. CASE \E b \in Hash : Process(b)
  BY <1>0, <1>1, <1>3, SendAppends, ReceiveAppends, OpenAppends, ChangeAppends, StateAppends,
     EpochAppends DEF Process, process_refused, vars
<1>4. CASE \E h \in Hash : RollbackStart(h)
  BY <1>4, CallsKeepWeights, LawsHold
<1>5. CASE RollbackStep
  <2>1. CASE \E h \in Hash : visit_state_send(h)
    BY <2>1, VisitRepresentation, LawsHold
  <2>2. CASE \/ \E h \in Hash : visit_send(h)
             \/ rollback_receiver \/ rollback_return \/ rollback_refused
    BY <2>2, CallsKeepWeights, LawsHold
  <2> QED BY <1>2, <1>5, <2>1, <2>2, ReceiveRemoves, OpenRemoves, ChangeRemoves,
             StateRemoves, SendRemoves, StateSendRemoves, LawsHold DEF RollbackStep
<1>6. CASE (\E a \in Account : Cement(a)) \/ UNCHANGED vars
  BY <1>0, <1>6 DEF Cement, vars
<1> QED BY <1>3, <1>4, <1>5, <1>6 DEF Next

(* Each representative's cached weight is what is delegated to it, also     *)
(* in the middle of a rollback, whatever state sends wait for their         *)
(* receivers.                                                               *)
THEOREM WeightsAlwaysDelegated == Spec => []RepWeightsDelegated
<1>1. Init => RepWeightsDelegated
  BY InitWeights, LawsHold
<1> QED BY <1>1, NextWeights, LedgerInvariance, PTL DEF Spec

-----------------------------------------------------------------------------
(* Every step keeps the sum of all balances and pending amounts.            *)
LEMMA NextBooks == LedgerInv /\ LedgerInv' /\ Books /\ [Next]_vars => Books'
<1> SUFFICES ASSUME LedgerInv, LedgerInv', Books, [Next]_vars PROVE Books'
  OBVIOUS
<1>0. CountLaws /\ SumLaws /\ Conservation /\ ReceiptsExact
  BY LawsHold DEF Books
<1>1. CASE \E b \in Hash : Appended(b)
  BY <1>0, <1>1, AppendedConserves, AppendedExact DEF Books
<1>2. CASE \E h : Removed(h)
  BY <1>0, <1>2, RemovedConserves, RemovedExact DEF Books
<1>3. CASE UNCHANGED <<blocks, accounts, pending>>
  BY <1>3, SameBooks
<1> QED BY <1>1, <1>2, <1>3, StepKinds DEF Cement, tables

(* Money is neither made nor lost: what the accounts hold and what is       *)
(* pending add up to the genesis amount in every reachable state, and no    *)
(* receipt ever wrapped around.                                             *)
THEOREM AmountsConserved == Spec => []Conservation
<1>1. Init => Books
  BY InitBooks, LawsHold
<1>2. Books => Conservation
  BY DEF Books
<1> QED BY <1>1, <1>2, NextBooks, LedgerInvariance, PTL DEF Spec

(* The counters in the ledger cache agree with the tables: block_count,     *)
(* account_count, and cemented_count with the confirmation heights.         *)
THEOREM CountersMatch == Spec => []CountsMatchTables
<1>1. Init => CementedSum
  BY InitCemented, LawsHold
<1>2. LedgerInv /\ LedgerInv' /\ CementedSum /\ [Next]_vars => CementedSum'
  BY StepKinds, CementedCounted, LawsHold DEF tables
<1>3. LedgerInv /\ CementedSum => CountsMatchTables
  BY DEF LedgerInv, CountsRight, CementedSum, heights, CountsMatchTables, stored
<1> QED BY <1>1, <1>2, <1>3, LedgerInvariance, PTL DEF Spec

(* The tables fit what blocks require and exclude.                          *)
LEMMA FitsBefore == LedgerInv => Fits
BY FitsFollow, LawsHold
(* The same after a step.                                                   *)
LEMMA FitsAfter == LedgerInv' => Fits'
BY FitsBefore, PTL

(* The ledger implements the lattice of blocks: every step, those within a  *)
(* nested rollback included, adds a block whose dependencies are stored,    *)
(* removes one nothing depends on, cements one whose dependencies are       *)
(* cemented, or changes neither set.                                        *)
THEOREM LedgerIsLattice == Spec => ImplementsLattice
<1>1. Init => Abstract!LatticeInit
  BY InitLattice
<1>2. LedgerInv /\ LedgerInv' /\ [Next]_vars
      => [Abstract!LatticeNext]_(Abstract!lattice_vars)
  BY FitsBefore, FitsAfter, StepKinds, LatticeSteps
<1> QED BY <1>1, <1>2, LedgerInvariance, PTL DEF Spec, ImplementsLattice, Abstract!LatticeSpec

-----------------------------------------------------------------------------
(* What a rollback removes.                                                 *)

(* Every step keeps the activations below the target of the rollback.       *)
LEMMA NextOnStack == LedgerInv /\ OnStack /\ [Next]_vars => OnStack'
<1> SUFFICES ASSUME LedgerInv, OnStack, [Next]_vars PROVE OnStack'
  OBVIOUS
<1>0. RankLaw /\ AncestorsUnfold /\ RepresentativeInForce
  BY AncestorsFound, LawsHold
<1>1. CASE stack' = stack
  BY <1>1 DEF OnStack, Descends
<1>2. CASE \E h : Removed(h)
  BY <1>0, <1>2, RemovedDescends
<1>3. CASE \E b \in Hash : Process(b)
  BY <1>1, <1>3, SendAppends, ReceiveAppends, OpenAppends, ChangeAppends, StateAppends,
     EpochAppends DEF Process, process_refused, vars, Appended
<1>4. CASE \E h \in Hash : RollbackStart(h)
  BY <1>0, <1>4, CallsDescend
<1>5. CASE RollbackStep
  <2>1. CASE \/ \E h \in Hash : visit_send(h) \/ visit_state_send(h)
             \/ rollback_return \/ rollback_refused
    BY <1>0, <2>1, CallsDescend
  <2>2. CASE rollback_receiver
    BY <1>0, <2>2, ReceiverDescends
  <2> QED BY <1>2, <1>5, <2>1, <2>2, ReceiveRemoves, OpenRemoves, ChangeRemoves,
             StateRemoves, SendRemoves, StateSendRemoves, LawsHold DEF RollbackStep
<1>6. CASE (\E a \in Account : Cement(a)) \/ UNCHANGED vars
  BY <1>1, <1>6 DEF Cement, vars
<1> QED BY <1>3, <1>4, <1>5, <1>6 DEF Next

(* A rollback removes its target and blocks that depend on it, nothing      *)
(* else, however many accounts the nested rollbacks reach.                  *)
THEOREM RollbacksConfined == Spec => OnlyDependentsRemoved
<1> DEFINE Confined == \A h \in DOMAIN blocks \ DOMAIN blocks' :
                         h = stack[1].block \/ stack[1].block \in ancestors[h]
<1>1. Init => OnStack
  <2>1. Init => stack = <<>>
    BY DEF Init
  <2> QED BY <2>1, NoneOnStack
<1>2. LedgerInv /\ OnStack /\ [Next]_vars => Confined
  <2> SUFFICES ASSUME LedgerInv, OnStack, [Next]_vars PROVE Confined
    OBVIOUS
  <2>1. CASE \E b \in Hash : Appended(b)
    BY <2>1 DEF Appended, AppendedBlocks, stored
  <2>2. ASSUME NEW h, Removed(h) PROVE Confined
    <3>1. Descends(h, stack[1].block) /\ stored \ stored' = {h}
      BY <2>2, RemovedDescends, AncestorsFound, LawsHold
    <3> QED BY <3>1 DEF Descends, stored
  <2>3. CASE blocks' = blocks
    BY <2>3
  <2> QED BY <2>1, <2>2, <2>3, StepKinds DEF Cement, tables
<1> QED BY <1>1, <1>2, NextOnStack, LedgerInvariance, PTL DEF Spec, OnlyDependentsRemoved

-----------------------------------------------------------------------------
(* A node that comes up on saved tables satisfies the invariant.            *)
LEMMA ResumedRead ==
  Tables(tables)!LedgerInv /\ Resumed => LedgerInv /\ RepWeightsDelegated /\ CementedSum
BY ResumedInv, LawsHold
(* The same after a step.                                                   *)
LEMMA ResumedAfter ==
  Tables(tables)!LedgerInv' /\ Resumed' => LedgerInv' /\ RepWeightsDelegated' /\ CementedSum'
BY ResumedRead, PTL

(* The same after a step.                                                   *)
LEMMA SavedReadAfter == Saved(tables)' => Tables(tables)!LedgerInv' /\ Books'
BY SavedRead, PTL

(* What is cemented on disk is cemented in memory, at the same height.      *)
DiskKept ==
  \A h : committed(h) => block_confirmed(h) /\ blocks[h].height = disk[1][h].height

(* The invariant of a node that crashes and comes up again.                 *)
RestartInv == /\ LedgerInv /\ RepWeightsDelegated /\ Books /\ CementedSum
              /\ Saved(disk) /\ DiskKept

(* The same after a step.                                                   *)
LEMMA ConfirmedReadAfter == LedgerInv' => ConfirmedRight'
BY ConfirmedRead, PTL

(* A new node has its genesis block on disk.                                *)
LEMMA InitRestart == RestartInit => RestartInv
<1> SUFFICES ASSUME Init, disk = tables PROVE RestartInv
  BY DEF RestartInit
<1>1. LedgerInv /\ RepWeightsDelegated /\ Books /\ CementedSum
  BY InitInv, InitCounts, InitWeights, InitBooks, InitCemented, LawsHold
<1>2. Saved(tables)
  BY <1>1, TablesSaved
<1>3. DiskKept
  BY <1>1, ConfirmedRead
     DEF ConfirmedRight, InTables, DiskKept, committed, committed_height, tables, owner
<1> QED BY <1>1, <1>2, <1>3 DEF RestartInv

(* Every step of a node that crashes and comes up preserves it.             *)
LEMMA NextRestart == RestartInv /\ [RestartNext]_restart_vars => RestartInv'
<1> SUFFICES ASSUME RestartInv, [RestartNext]_restart_vars PROVE RestartInv'
  OBVIOUS
<1>0. LedgerInv /\ RepWeightsDelegated /\ Books /\ CementedSum /\ Saved(disk) /\ DiskKept
  BY DEF RestartInv
<1>1. ASSUME [Next]_vars
      PROVE  LedgerInv' /\ RepWeightsDelegated' /\ Books' /\ CementedSum'
  <2>1. LedgerInv'
    BY <1>0, <1>1, NextInv
  <2>2. CementedSum'
    BY <1>0, <1>1, <2>1, StepKinds, CementedCounted, LawsHold DEF tables
  <2> QED BY <1>0, <1>1, <2>1, <2>2, NextWeights, NextBooks
<1>2. CASE [Next]_vars /\ disk' = disk
  <2>1. Saved(disk)'
    BY <1>0, <1>2
  <2>2. DiskKept'
    <3> SUFFICES ASSUME NEW h, committed(h)
                 PROVE  block_confirmed(h)' /\ blocks'[h].height = disk[1][h].height
      BY <1>2 DEF DiskKept, committed, committed_height
    <3>1. block_confirmed(h) /\ blocks[h].height = disk[1][h].height
      BY <1>0 DEF DiskKept
    <3> QED BY <1>0, <1>2, <3>1, CementedKept
  <2> QED BY <1>1, <1>2, <2>1, <2>2 DEF RestartInv
<1>3. CASE Commit
  <2>1. [Next]_vars /\ disk' = tables /\ UNCHANGED vars
    BY <1>3 DEF Commit
  <2>2. Saved(disk)'
    BY <1>0, <2>1, TablesSaved
  <2>3. DiskKept'
    <3>1. /\ blocks' = blocks /\ confirmation_height' = confirmation_height
          /\ disk'[1] = blocks /\ disk'[5] = confirmation_height
      BY <2>1 DEF vars, tables
    <3> SUFFICES ASSUME NEW h, committed(h)'
                 PROVE  block_confirmed(h)' /\ blocks'[h].height = disk'[1][h].height
      BY DEF DiskKept
    <3>2. InTables(h)'
      BY <3>1 DEF InTables, committed, committed_height, owner
    <3> QED BY <1>1, <2>1, <3>1, <3>2, ConfirmedReadAfter DEF ConfirmedRight
  <2> QED BY <1>1, <2>1, <2>2, <2>3 DEF RestartInv
<1>4. CASE Restart
  <2>1. disk' = disk /\ tables' = disk /\ Resumed'
    <3>1. tables' = <<disk[1], disk[2], disk[3], disk[4], disk[5]>>
      BY <1>4 DEF Restart, tables
    <3>2. Resumed'
      BY <1>4 DEF Restart, generate_cache, Resumed, heights, holding
    <3> QED BY <1>0, <1>4, <3>1, <3>2 DEF Restart, Saved
  <2>2. Saved(disk)' /\ Saved(tables)'
    BY <1>0, <2>1
  <2>3. LedgerInv' /\ RepWeightsDelegated' /\ CementedSum' /\ Books'
    BY <2>1, <2>2, SavedReadAfter, ResumedAfter
  <2>4. DiskKept'
    <3> SUFFICES ASSUME NEW h, committed(h)
                 PROVE  block_confirmed(h)' /\ blocks'[h].height = disk[1][h].height
      BY <2>1 DEF DiskKept, committed, committed_height
    <3>1. blocks' = disk[1] /\ confirmation_height' = disk[5]
      BY <1>4 DEF Restart
    <3>2. InTables(h)'
      BY <3>1 DEF InTables, committed, committed_height, owner
    <3> QED BY <2>3, <3>1, <3>2, ConfirmedReadAfter DEF ConfirmedRight, committed
  <2> QED BY <2>2, <2>3, <2>4 DEF RestartInv
<1> QED BY <1>2, <1>3, <1>4 DEF RestartNext, restart_vars

(* A restarted node finds whole tables, and rebuilds the caches the ledger  *)
(* had: exact weights, counters that match, epochs in order.                *)
THEOREM CachesAlwaysFollow == RestartSpec => []CachesFollowTables
<1>1. RestartInv => CachesFollowTables
  <2> SUFFICES ASSUME RestartInv, stack = <<>>
               PROVE  /\ \A r \in Account :
                           rep_weights[r] = SumFunction([a \in DOMAIN accounts |-> delegated(a, r)])
                      /\ CountsMatchTables /\ EpochsOrdered
    BY DEF CachesFollowTables
  <2>0. LedgerInv /\ RepWeightsDelegated /\ Books /\ CementedSum
    BY DEF RestartInv
  <2>1. \A r \in Account : rep_weights[r] = SumFunction(weighed(r))
    BY <2>0, WeightsExact, LawsHold
  <2>2. CountsMatchTables
    BY <2>0 DEF LedgerInv, CountsRight, CementedSum, heights, CountsMatchTables, stored
  <2>3. EpochsOrdered
    BY <2>0, EpochsFollow
  <2> QED BY <2>1, <2>2, <2>3 DEF weighed
<1> QED BY <1>1, InitRestart, NextRestart, PTL DEF RestartSpec

(* A confirmation that was committed outlives every crash.                  *)
THEOREM CommittedForever == RestartSpec => CommittedCementedStay
<1>1. RestartInv /\ [RestartNext]_restart_vars => CommittedKept
  <2> SUFFICES ASSUME RestartInv, [RestartNext]_restart_vars, NEW h \in Hash, committed(h)
               PROVE  committed(h)' /\ disk'[1][h].height = disk[1][h].height
    BY DEF CommittedKept
  <2>1. CASE disk' = disk
    BY <2>1 DEF committed, committed_height
  <2>2. CASE Commit
    <3>1. disk'[1] = blocks /\ disk'[5] = confirmation_height
      BY <2>2 DEF Commit, tables
    <3>2. block_confirmed(h) /\ blocks[h].height = disk[1][h].height
      BY DEF RestartInv, DiskKept
    <3>3. InTables(h)
      BY <3>2, ConfirmedRead DEF RestartInv, ConfirmedRight
    <3> QED BY <3>1, <3>2, <3>3 DEF InTables, committed, committed_height, owner
  <2> QED BY <2>1, <2>2 DEF RestartNext, Restart, restart_vars
<1> QED BY <1>1, InitRestart, NextRestart, PTL DEF RestartSpec, CommittedCementedStay

=============================================================================

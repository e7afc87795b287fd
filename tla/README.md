# Futurehead node: TLA+ models and proofs

This directory holds TLA+ modules for the part of the node that decides what is in
the ledger, who may write to it and what is confirmed, TLC configurations that check
them on small instances, and TLAPS proofs of the main safety properties. Definitions
carry the names of the functions in `src/futurehead/` that they translate;
`PROJECT.json` maps each of them to its lines.

## The system

| Part | State | Operations | Interacts with |
|---|---|---|---|
| ledger (`secure/ledger.cpp`) | none of its own beyond the cache | `process` for five block types, `rollback`, `change_latest`, queries | store, cache |
| store (`secure/blockstore*`) | block, account, pending, frontier, confirmation height, unchecked tables | put, get, del, transactions | LMDB or RocksDB |
| ledger cache (`lib/rep_weights.cpp`, `ledger_cache`) | weights, counts, `epoch_2_started` | incremental updates, rebuild at start | ledger, elections |
| write queue (`node/write_database_queue.cpp`) | tickets, guards | `wait`, `process`, `pop`, `release` | the two writer threads |
| block processor (`node/blockprocessor.cpp`) | `blocks`, `forced`, `awaiting_write`, `flushing` | `add`, `force`, `process_batch`, `process_one`, `flush`, `stop` | ledger, queue, unchecked, elections |
| signature verification (`node/state_block_signature_verification.cpp`) | `state_blocks`, `active` | `add`, verify a batch, callbacks | block processor |
| confirmation height processors (`node/confirmation_height_*.cpp`) | `awaiting_processing`, pending writes, cached heights | `add`, `process`, `cement_blocks`, observers | ledger, queue, elections |
| elections (`node/election.cpp`, `active_transactions.cpp`) | roots, tallies, winner details, caches | start, vote, confirm, erase, cemented callbacks | votes, block processor, cementing |
| votes, online representatives, request aggregator, bootstrap, network, wallets, work, RPC | queues and connections | I/O | sources of blocks and votes |

A block arrives, has its signature verified, and is processed in a batch by the block
processor, which holds the write guard and one write transaction. After the commit,
elections are started for live blocks. Votes give an election a winner, whose rival is
rolled back if the ledger has it; a quorum confirms it, and the winner is handed to
the confirmation height processor, which cements it together with all it rests on and
calls observers, which start elections for the blocks above.

What makes this hard: rollback is recursive across accounts and runs on tables it is
changing; the caches are outside the write transaction; three kinds of threads write,
and only two of them take turns through the queue; a refused `process` leaves its
ticket behind; cementing walks chains with bounded memory, in batches between which
the ledger changes; and elections, processor and observers look at one another's state
from three threads. `PROJECT.json` lists each hazard at its line with the properties
that cover it.

## Modules

| Module | Models |
|---|---|
| `LedgerTables` | the tables and caches, `change_latest`, the queries the checks are made of, and the effect of cementing one block |
| `LedgerProcess` | `process` with all result codes in the order of the checks |
| `LedgerRollback` | `rollback` with its call stack as the variable `stack` and one action per step |
| `Ledger` | the specification made of these three |
| `LedgerInvariant`, `LedgerProperties` | the type invariant and `LedgerInv`, the inductive invariant; the other properties of tables, caches and rollbacks |
| `Lattice` | abstract specification: a set of blocks that grows by dependencies, shrinks from the top, and a cemented part that only grows |
| `LedgerLattice` | the refinement mapping from `Ledger` to `Lattice`, and `summation_visitor` |
| `LedgerRestart` | `Ledger` with commits, crashes and the cache rebuild of the constructor |
| `Cementer` | what the confirmation height processor promises: `Lattice` with requests, batches and announcements |
| `Chains` | chains of blocks, reduced to account, previous block and source |
| `ConfirmationHeightProcessor`, `ConfirmationHeightBounded`, `ConfirmationHeightUnbounded` | the shared state, and the two ways to walk down from a hash, gather pending writes and cement them |
| `ConfirmationHeight` | the processor's thread over both, and the refinement mapping to `Cementer` |
| `BlockProcessor` | the queues, forced blocks, `process_one` by result, unchecked table, post events, over `Chains` |
| `Elections` | `BlockProcessor` with elections, votes and callbacks, the confirmation height processor being `Cementer` |
| `BlockIntake` | adding, verifying, processing, flushing and stopping around the two condition variables |
| `WriteDatabaseQueue` | the write queue and its guards |
| `NodeWriters` | block processor, confirmation height processor, local blocks and `node::stop` over that queue and the one write transaction |
| `Laws`, `Sums` | the facts about counting, recursion and sums the proofs rest on, and their proofs |
| `LedgerFacts`, `LedgerProcessProofs`, `LedgerUndoProofs`, `LedgerPropertyProofs`, `LedgerTheorems` | lemmas and theorems about `Ledger` and `LedgerRestart` |
| `NodeProofs` | theorems about `Lattice`, `Cementer`, `WriteDatabaseQueue`, `NodeWriters` and `BlockIntake` |
| `ElectionsProofs` | theorems about `Elections` and the block processor in it |
| `MC*` | instances for TLC |

Operators marked "Defect" are variants with a plausible mistake. No specification
uses them; substituting one for its original makes the property that `PROJECT.json`
pairs with it fail.

### How state and code correspond

**Ledger.** A block's contents are determined by its hash, so `Block` is a constant
and the variables say which hashes are stored and with which sideband. The account and
pending tables, split by epoch in some store versions, are one function each.
Amounts are integers below `Modulus` (2^128 in the code) and weights wrap, as
`uint128_t` does. Signatures and work are the key a signature verifies against and a
difficulty. `process` runs to completion in one transaction and is one action per
block type; a refused block changes nothing. Where rollback would abort on a missing
entry the model has no step, which shows as a deadlock or as a violation of
`RollbackEnds`.

**Cementing.** One action is one turn of a loop of `process`, one pending write of
`cement_blocks`, or one round of observers. `unbounded` and `bounded` are records of
the members and locals of the two classes. An assertion that fails, or a dereference
of something missing, sets `failed`. Timers are choices: a batch may be written when
the code's clock would allow it. Blocks are stored between the steps, as the block
processor may. Nothing that was requested is rolled back (see Findings for what that
assumption is worth).

**Elections.** The ledger is reduced to which blocks are stored, with `dependencies`
and `rivals`; `committed` is what other threads see of an open batch. `result` is what
`process` answers for such a block: a gap, a fork or `progress`, and also the odd answers
for a block on another account's chain and for an opening block without a source. Its
signature and amounts are taken to be right, and its source to be a send to its account;
an epoch block of an account that is not open is left to `Ledger`. The state of an
election is idle, ongoing or confirmed: passive, active, broadcasting and backtracking
differ only in what is asked of the network. `tallies` keeps one block of each weight,
as the `std::map` of the code does. An insertion and the transition after it are two
steps (`duty`), and `block_cemented_callback` is as many steps as it takes and releases
locks (`activating`).

**Writers.** A batch is a number of blocks and a pending write a number of pieces.
`iterated` and the actions after it cover both confirmation height processors, which
share the control that matters here: a threshold at which they try for the queue, one
at which they wait for it, and the final flush. `cement_flush` is the bounded
processor's only.

**Intake.** A critical section is one action, and a notification after it another;
`flush` keeps the mutex over several actions, because it looks into the verification,
which has a mutex of its own, in between. Wakeups are never spurious, so no property
leans on them. One thread flushes at a time: with the default
`bootstrap_initiator_threads = 1` (`nodeconfig.hpp:68`) there is one bootstrap attempt that
calls `flush`. With several, the first to return would clear `flushing` for the others
(`blockprocessor.cpp:66`) and `notify_one` (line 150) might wake the wrong one; the
properties of `BlockIntake` say nothing about that.

### How the modules compose

`Elections` uses `Cementer` for the confirmation height processor, and
`ConfirmationHeight` is checked to implement `Cementer` (`ImplementsCementer`).
`Cementer` is proved to implement `Lattice` (`CementerIsLattice`), and so is `Ledger`,
with its real tables (`LedgerIsLattice`). So the reduced ledger of `Elections` and `ConfirmationHeight` and the detailed one of `Ledger`
meet in one abstract specification. `Elections` reads the processor's
`is_processing_block` as "requested and not answered"; the last conjunct of
`BooksRight` is what makes that true when the observers are called.

## Runs

| Run | Instance | Distinct states | Shows |
|---|---|---|---|
| `mix` | 20 blocks beside genesis, 5 keys, supply 3 | 795 | legacy and state blocks, forks, nested rollbacks |
| `epoch` | 18 blocks beside genesis | 3,083 | epoch upgrades and their rollback, gaps |
| `restart` | 6 blocks beside genesis, any last commit | 4,245 | crash at any step |
| `writers` | 2 blocks, 2 hashes, 1 local block, up to 2 writes per hash | 53,784 | turns, tickets, stop |
| `cement_bounded` | 9 blocks of 4 accounts in a ring, 2 requests | 35,946 | the bounded processor |
| `cement_unbounded` | 8 blocks of 3 accounts, 2 requests | 47,088 | the unbounded processor and the switch between the two |
| `elections` | a fork, a block above it and a misplaced block, 2 representatives, 2 votes | 360,888 | elections, forced blocks, callbacks |
| `intake` | 3 blocks, 2 of them to be verified one at a time | 405,574 | flush and stop |
| `wakeup`, `answer` | 4 blocks of 2 accounts | — | findings 1 and 2 |
| `missing` | as `elections` | — | finding 3 |
| `forked` | as `mix` | — | finding 4 |

The properties of each run are in its cfg and, with a comment each, at the end of the
modules.

### Bounds

A universe of blocks is closed and every order of arrival, rollback and
cementing within it is explored. `mix` is chosen so that each block type is processed
and undone, each root has a rival, an account sends to itself, rollbacks nest three deep
(sender, receiver, receiver of the receiver), and most refusals occur, among them that
of a block on another account's chain. `epoch` has two such blocks, of an account that
can open and of one that cannot, and a block that opens an account with no source. A
supply of 3 makes weights wrap in the middle of a rollback.

In `writers`, two hashes with two writes each exceed both thresholds, and two pieces
let a write be split once; `MaxBlocks`, `MaxHashes`, `MaxLocal`, `MaxWrites` and
`Pieces` are bounds of the model, not of the code.

In the cementing runs `max_items` is 2 instead of 131,072 and
`pending_writes_max_size` 3 instead of 131,072, so that the circular buffer overflows, a
checkpoint is needed and writes are forced; a batch size of 2 cuts a pending write in
two. The ring makes two pending writes of one account overlap, the fan reaches a source
twice. `MaxAdds` bounds the calls of `add`: two requests are the least that meet each
other's pending writes.

In `elections` one vote of `q` makes a winner, one of `p` a quorum; two votes let the
winner change after the block has been forced, and confirm what is being replaced.
`MaxArrivals` is how often each block comes from the network and `Traffic` which blocks
come together: the fork `a`, `b` with the block `d` above `a`, or `a` and `d` with the
misplaced block `x`, which is then parked or a fork. `MaxSequence`, `MaxVotes` and
`Candidates` bound the votes: `p` may confirm `a` or `d`, `q` may make `a` or `b` the winner.
A `recently_confirmed_size` of 1 makes it forget. `a` and `d` are live, `b` and `x` are not,
so blocks with and without an event after the commit occur.

Deadlock is checked in the ledger runs. The others switch it off: everything may be
cemented, answered or stopped.

### Fairness

`Ledger` assumes weak fairness of the rollback steps: a rollback is a synchronous
call. `NodeWriters`, `ConfirmationHeight` and `BlockIntake` assume weak fairness of
each thread, and of `stop` once it has begun. That is what an operating system gives
runnable threads. For speed it is written out where the actions are large:
`BlockIntake` says for each thread when it can go on and what its steps change, and
`ConfirmationHeight` has it both as `WF_vars(run)` in `RunSpec` and, for the larger
instances, as the thread taking steps for ever unless it waits in `Spec`. Nothing is assumed about arrivals, requests or votes. One timing
assumption is made in `NodeWriters`: a batch ends by its deadline only after a block was
processed, because the deadline (5 s by default) is taken just before the loop. With a
deadline of zero a batch could end empty, and `BlocksProcessed` would not hold.

`Elections` has safety properties only: with no fairness from the network, nothing need
ever be voted on. It makes two assumptions about time:

- `alarm` gives up on a confirmed block only when its election is gone.
  `process_confirmed` gives up after four times `block_processor_batch_max_time`
  (`node.cpp:1266`), 20 s by default, and a confirmed election ends after
  `confirmed_duration_factor` times the base latency (`election.cpp:266`), 5 s. Were it the
  other way round, the winner details could go while the election is still there, and
  `WinnersOwned` would not hold as it stands.
- Whether a block is `Live` does not change: it stands for `block_arrival.recent` and an
  age below 300 s, so a live block is processed before it is too old. One that waits
  longer in the unchecked table is not live in this sense, and `NoMissedActivation` does
  not speak of it.

## Findings

1. **Lost wakeup** (`wakeup`, `AddedTaken`). The thread of the confirmation height
   processor looks at `awaiting_processing`, unlocks (`confirmation_height_processor.cpp:97`),
   locks again and waits (line 121) without looking again. A hash added in between stays
   in the queue until another one is added. A stop in the same window is missed too, and
   the join does not return; `StopReaches` excepts the thread that overslept the stop in
   this way, and no other.
2. **No answer for a cemented block** (`answer`, `TakenAnswered`). A cemented block that
   is added again is answered only if its account is not in the processor's map of
   accounts with pending writes (`confirmation_height_bounded.cpp:95-110`,
   `confirmation_height_unbounded.cpp:78-93`). Otherwise its winner details stay.
   `UncementedAnswered` is the part that does hold. `WinnersOwned` shows that
   `election_winner_details` keeps only what the processor owes an answer for, what
   `process_confirmed` retries or what a callback is settling; because of this finding,
   the answer that is owed for a cemented block may not come.
3. **Requested block rolled back** (`missing`, `RequestedStay`). Each change of an
   election's winner forces the new one. If the winner changes to `a` and back to `b` and
   `b` is confirmed while the ledger still has it, `b` goes to the confirmation height
   processor with `a` still in `forced`. `a` then rolls `b` back, and if the batch ends
   before `b` is forced again, the processor fails `release_assert (block)`. `Elections`
   goes no further after that (`aborted`); its other properties, and those of
   `ConfirmationHeight` and `Cementer`, are about executions in which it has not happened.
4. **Fork without a rival** (`forked`, `ForkedBlockFound`). A state block of an open account
   is a fork whenever its previous block exists and is not the account's head
   (`ledger.cpp:290-296`), whoever's block that is. If it is the head of another account,
   `forked_block` finds neither a successor of the root nor an account, and its
   `debug_assert`s (`ledger.cpp:1216`, `1218`) fail; a release build returns no block and
   `process_fork` starts no election. `ForkHasRival` says what holds of every other fork.

One more thing the models show is no contradiction to any line of the code, and is stated
as the exception in `GapMissesDependency` and `NoBlockStranded`: a block of an unopened
account on a stored block of another one (`ledger.cpp:304`), or one that opens an account
with no source (line 308), is answered with a gap although nothing is missing. It is put
in the unchecked table under a block that is there already, or under the zero hash, and
stays until `unchecked_cleanup` drops it by age. No ledger takes such a block, so nothing
of worth is lost.

## Proofs

`PROJECT.json` lists the theorems. Each holds for every value of the constants that
satisfies the `ASSUME`s, and so for every universe of blocks, not only for the instances
of the runs.

**Ledger** (`LedgerTheorems`). `LedgerInvariance` is `Spec => []LedgerInv`. The
properties are not inductive by themselves. `NestedRollbackAllowed`, for example, needs
that a cemented receive has a cemented send (in `CementInv`), that a send which is not
pending has exactly one receiver (`SendInv`), and that a nested rollback works on blocks
created after the ones waiting for it (`StackInv`), so that it cannot reach them.
`WorthInv` ties balances, representatives and epochs to the contents of blocks, and
`CountsRight` the counters to the tables. Each conjunct speaks of single blocks, accounts,
entries or activations. `LedgerFacts` defines one step, `Appended`, of which the six ways
to add a block are instances, and one, `Removed`, for the six ways to undo one;
`LedgerProcessProofs` and `LedgerUndoProofs` show that and carry the invariant through
both. From it follow:

- the chains, the account table, the pending table and the epochs (`ChainsAlwaysLinked`,
  `AccountsAlwaysMatch`, `SendsNeverLost`, `EpochsAlwaysOrdered`), and what a fork or gap
  result means (`ForksHaveRivals`, `GapsMissDependencies`): that what `forked_block`
  returns is a rival of the same root, that what a parked block waits for is missing, and
  that the exceptions are just the misplaced blocks, which are never taken;
- that nested rollbacks are never refused, leave alone the account that waits for them,
  and remove only what rests on the block rolled back (`NestedNeverRefused`,
  `WaitingUndisturbed`, `RollbacksConfined`);
- that cementing is closed and final (`CementedOnly`, `CementedForever`);
- the sums: `AmountsConserved`, `WeightsAlwaysDelegated` and `CountersMatch` hold also in
  the middle of a nested rollback. `Conservation` needs that a legacy
  receive added just the amount sent, without a wrap-around (`ReceiptsExact`), and the other
  way round, so the two are proved together (`Books`);
- `BalancesAlwaysSumUp`: the recursion of `summation_visitor` over previous and link is
  well defined and gives the stored balances;
- `LedgerIsLattice`: the ledger implements `Lattice`, step by step.

Counting, recursion over the rank of blocks and sums over finite sets enter as formulas
(`Laws`) that lemmas assume and `Sums` proves from the library; `ElectionsProofs` assumes
four of them under the name `General` and discharges them before its theorems.

**Restarts** (`LedgerTheorems`). `CachesAlwaysFollow`: after any number of crashes, weights
and counters are what the tables give. `CommittedForever`: what is cemented on disk stays
so. The invariant `RestartInv` says of the disk what `LedgerInv` and `Books` say of
the tables in memory (`Saved`), and that the cemented blocks of the disk are cemented in
memory at the same height (`DiskKept`).

**Elections** (`ElectionsProofs`). `ElectionsInvariant` is `Spec => []ElectionsInv`, for
every set of blocks, representatives, votes and arrivals. It has five parts:

- `ElectionsTypeOK`: types, and which duties and callbacks name a block;
- `LedgerSound`: the ledger, as the writer sees it and as readers do, has with a block
  what it depends on, no two rivals and no misplaced block; the cemented part is in both;
- `WinnersRight`: an entry of `election_winner_details` has a thread that will remove it,
  and the winner of a confirmed election has such an entry or is cemented and settled;
- `ReportsRight`: every announcement of the confirmation height processor is reported or
  is the one the callback is working on;
- `NothingMissed`: for every live block that is stored and not cemented somebody is about
  to look at it, or has proposed it for election since its dependencies were cemented.

The last part is what makes `ActivationsNeverMissed` provable: the block may be stored
before or after its dependencies are cemented, and the two threads that could notice look
at each other's state with locks released in between. `WinnersAlwaysOwned`,
`CementedAlwaysReported` and `ConfirmedForever` follow from the invariant too.
`NoBlockStranded` is inductive by itself (`NeverStranded`): a rollback can only make a wait
right, and a block that goes in takes with it the entries that waited for it. A block that
is parked with nothing missing is a misplaced one, and `MisplacedNeverTaken` shows that
`result` takes it over no set of stored blocks.

**Around them** (`NodeProofs`). `LatticeConsistent` and `LatticeFinal` prove the abstract
specification correct for every graph that satisfies `LatticeAssumption`, which
`LatticeConstants` proves of the ledger's blocks, and `CementerIsLattice` that the contract
of cementing implements it. `QueueCorrect` proves the write
queue for every set of writers. `NodeTransactionsGuarded`, `NodeWakeupsKept` and
`NodeTicketsRedeemed` prove the node's use of it for all bounds; their invariant
`WritersInv` ties the control of each thread to its guard and transaction.
`FlushAlwaysComplete` proves `flush` for every set of blocks and batch size; its invariant
says where each block is and what each flag tells about the queues.

### Assumptions

- `RankAssumption` (`LedgerTables`, `BlockProcessor`): hashes are acyclic; in
  `BlockProcessor` also that the blocks in play are finitely many, so that what rests on a
  block is well defined.
- `BlockAssumption`: a legacy block belongs to the chain of its previous block, and so
  does a block that the epoch key signed, which the code does not check when the block
  opens an account.
- `BlocksAssumption` (`Chains`): fields have their types and genesis depends on nothing. It
  does not say that a block's previous block is of its account, or that it has a source.
- `LegacyAssumption` (`BlockProcessor`): a block that is not a state block names no account,
  so it is of its previous block's.
- `GenesisAssumption`, `ConstantsAssumption`, `ElectionsAssumption` and the others give
  constants their types and, where the code divides or waits, sizes above zero.

TLC evaluates all of them on the instances.

### Only model-checked

- All liveness: `RollbackEnds`, `BlocksProcessed`, `LocalWritten`, `PendingWritten`,
  `StopReaches`, `UncementedAnswered` and `FlushAndStopEnd`. Fairness and `ENABLED` are out
  of the prover's reach.
- `BooksRight` and `ImplementsCementer`: the walks of the two confirmation height
  processors. An inductive invariant would have to describe a half-finished traversal with
  its circular buffer, checkpoints and overlapping pending writes of one account. Since
  `Elections` builds on `Cementer`, its theorems reach the real processors only as far as
  these two runs do.

## Not modelled

- Of the modelled parts: `process_old` and the restart of elections,
  `recently_dropped`, the work watcher, difficulty and prioritisation of elections, the
  limit of the inactive votes cache, the node's own votes, `pause` and `unpause` of the
  confirmation height processor (only tests call them), refreshing a read transaction
  inside one walk, the thread pool of the signature checker, several threads in `flush`,
  `unchecked_cleanup`, and in `BlockProcessor` the epoch blocks that open an account.
- The vote processor, vote generator, online representatives and rep crawler: they
  decide which votes come and what a quorum is, which `Elections` leaves open or takes
  as constants. The gap cache only starts bootstraps.
- Bootstrap, network, request aggregator, telemetry, work, RPC, IPC, websocket and
  wallets: I/O around the modelled core. Blocks and votes arrive in any order and not at
  all, which is all the core can rely on.
- LMDB and RocksDB: exclusive, atomic write transactions. The schema upgrades convert
  files of old versions once.
- Cryptography, serialisation and number formatting are data: hashes are acyclic names,
  a signature is the key it verifies against.

Most of `src/` is therefore outside the map: it holds, besides the node's core, vendored
libraries, tests, the wallet's user interface and the parts listed above. The models
cover the files in which ledger, cementing and election state changes.

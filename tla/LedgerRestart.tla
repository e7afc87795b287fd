--------------------------- MODULE LedgerRestart ---------------------------
(***************************************************************************)
(* Ledger with its write transactions.  The tables written since the last  *)
(* commit are lost in a crash; the caches live in memory and change while  *)
(* the transaction is still open.  A restarted node rebuilds them from the *)
(* tables in the constructor of ledger.                                    *)
(***************************************************************************)
EXTENDS Ledger, LedgerProperties

VARIABLE disk  \* the tables as of the last commit

restart_vars == <<vars, disk>>

RestartInit == Init /\ disk = tables

(* The callers end a write transaction between calls into the ledger.       *)
Commit ==
  /\ stack = <<>>
  /\ disk' = tables
  /\ UNCHANGED vars

(* Defect: epoch 2 is not looked for.                                       *)
generate_cache_without_epoch(table, heights) ==
  /\ rep_weights' =
       [r \in Account |->
          SumFunction([a \in DOMAIN table |->
                         IF table[a].representative = r THEN table[a].balance ELSE 0]) % Modulus]
  /\ account_count' = Cardinality(DOMAIN table)
  /\ epoch_2_started' = FALSE
  /\ cemented_count' = SumFunction([a \in DOMAIN heights |-> heights[a].height])
(* The loops of the constructor over the accounts and the confirmation      *)
(* heights.                                                                 *)
generate_cache(table, heights) ==
  /\ rep_weights' =
       [r \in Account |->
          SumFunction([a \in DOMAIN table |->
                         IF table[a].representative = r THEN table[a].balance ELSE 0]) % Modulus]
  /\ account_count' = Cardinality(DOMAIN table)
  /\ epoch_2_started' = (\E a \in DOMAIN table : table[a].epoch = 2)
  /\ cemented_count' = SumFunction([a \in DOMAIN heights |-> heights[a].height])

(* The process dies at any point, in the middle of a rollback too, and the  *)
(* node comes up on what was committed.                                     *)
Restart ==
  /\ blocks' = disk[1] /\ accounts' = disk[2] /\ pending' = disk[3]
  /\ frontiers' = disk[4] /\ confirmation_height' = disk[5]
  /\ generate_cache(disk[2], disk[5])
  /\ block_count' = Cardinality(DOMAIN disk[1])
  /\ stack' = <<>>
  /\ UNCHANGED disk

RestartNext == (Next /\ UNCHANGED disk) \/ Commit \/ Restart

RestartSpec == RestartInit /\ [][RestartNext]_restart_vars

-----------------------------------------------------------------------------
committed_height(a) == IF a \in DOMAIN disk[5] THEN disk[5][a].height ELSE 0
committed(h) == h \in DOMAIN disk[1] /\ disk[1][h].height <= committed_height(Block[h].account)

(* What is cemented on disk stays cemented on disk, at its height: no       *)
(* crash, rollback or later transaction takes a committed confirmation      *)
(* back.                                                                    *)
CommittedKept ==
  \A h \in Hash : committed(h) => committed(h)' /\ disk'[1][h].height = disk[1][h].height
CommittedCementedStay == [][CommittedKept]_restart_vars

(* A crash between the writes of a rollback leaves no half-undone block:    *)
(* what a restarted node finds on disk is a state ledger calls left behind, *)
(* and the caches it rebuilds are the ones the ledger had then.  Epoch 2 is *)
(* the exception: a node that rolled the upgrade back remembers it until it *)
(* is restarted.                                                            *)
CachesFollowTables ==
  stack = <<>> =>
    /\ \A r \in Account :
         rep_weights[r] = SumFunction([a \in DOMAIN accounts |-> delegated(a, r)])
    /\ CountsMatchTables
    /\ EpochsOrdered

=============================================================================

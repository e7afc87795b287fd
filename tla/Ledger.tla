---- MODULE Ledger ----
(***************************************************************************)
(* The block lattice kept by secure/ledger.cpp on top of the tables: blocks*)
(* are processed, rolled back and cemented.                                *)
(***************************************************************************)
EXTENDS LedgerProcess, LedgerRollback

Next ==
  \/ \E h \in Hash : Process(h) \/ RollbackStart(h)
  \/ RollbackStep
  \/ \E a \in Account : Cement(a)

(* A rollback is a synchronous call: once begun, its thread runs it to the  *)
(* end.  Nothing forces blocks to arrive or to be cemented.                 *)
Fairness == WF_vars(RollbackStep)

Spec == Init /\ [][Next]_vars /\ Fairness

====

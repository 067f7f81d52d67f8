--------------------------- MODULE MCTxnProtocol ---------------------------
(* TxnProtocol on small instances: transactions with the same WAL are interchangeable. *)
EXTENDS TxnIsolation, TLC

TxSymmetry == Permutations(WalTxs) \cup Permutations(Txs \ WalTxs)
=============================================================================

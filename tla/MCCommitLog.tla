---------------------------- MODULE MCCommitLog ----------------------------
(* Small instances of CommitLog for TLC, and the map to AtomicLog.          *)
EXTENDS CommitLog, TLC

CONSTANTS t1, t2, t3

MCTxns == {t1, t2, t3}
MCSize == (t1 :> 1) @@ (t2 :> 2) @@ (t3 :> 0)

=============================================================================

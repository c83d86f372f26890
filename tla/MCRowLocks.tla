---------------------------- MODULE MCRowLocks -----------------------------
(* Small instances of RowLocks.  Transactions, and accounts, are              *)
(* interchangeable.                                                           *)
EXTENDS RowLocks, TLC

CONSTANTS t1, t2, t3, a1, a2

ProfileFirst == {"edit", "step", "goal", "roadmap", "plan"}
AccountFirst == {"erase", "deleteGoal", "submit", "claim"}
Background   == {"finalize", "reconcile", "keyed"}

WithEdits   == ProfileFirst \cup AccountFirst

=============================================================================

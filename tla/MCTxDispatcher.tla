---------------------------- MODULE MCTxDispatcher ----------------------------
(* Three callers share the dispatcher; one transmit spends two units of a      *)
(* bucket of three, as verify_bug_049.py's 200 ms spend against a 100 ms       *)
(* reserve, so one completed send closes the gate for several ticks.           *)
EXTENDS TxDispatcher

CONSTANTS s1, s2, s3

MCSenders == {s1, s2, s3}
MCTwoSenders == {s1, s2}
MCBudgeted == BOOLEAN
MCAlwaysBudgeted == {TRUE}

=============================================================================

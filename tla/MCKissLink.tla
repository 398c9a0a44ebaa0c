----------------------------- MODULE MCKissLink -----------------------------
(* Three commands, two of which set the same parameter, a buffer of two, and  *)
(* three connects that come as far as the worker.                            *)
EXTENDS KissLink

CONSTANTS c1, c2, c3, txdelay, persist
Commands == {c1, c2, c3}
MCSets == [c \in Commands |-> IF c = c3 THEN persist ELSE txdelay]
=============================================================================

---------------------------- MODULE TransmitArbiter ----------------------------
(* What Dispatcher.send_packet promises of the radio, without budget, frames   *)
(* or results: "Uses a lock to serialize transmissions instead of dropping     *)
(* packets".  One owner at a time, a request is kept until it is granted or    *)
(* withdrawn, ownership never passes over without being given up, and nobody   *)
(* is served at once while another one waits.                                  *)

CONSTANTS Clients, Nobody

VARIABLES owner, waiters

vars == <<owner, waiters>>

Init ==
    /\ owner = Nobody
    /\ waiters = {}

\* A client finds the radio taken, or others waiting for it.
Wait(c) ==
    /\ owner # Nobody \/ waiters # {}
    /\ c \notin waiters /\ owner # c
    /\ waiters' = waiters \cup {c}
    /\ UNCHANGED owner

TakeAtOnce(c) ==
    /\ owner = Nobody /\ waiters = {}
    /\ owner' = c
    /\ UNCHANGED waiters

Grant(c) ==
    /\ owner = Nobody
    /\ c \in waiters
    /\ owner' = c
    /\ waiters' = waiters \ {c}

Withdraw(c) ==
    /\ c \in waiters
    /\ waiters' = waiters \ {c}
    /\ UNCHANGED owner

GiveUp(c) ==
    /\ owner = c
    /\ owner' = Nobody
    /\ UNCHANGED waiters

Next ==
    \E c \in Clients :
        Wait(c) \/ TakeAtOnce(c) \/ Grant(c) \/ Withdraw(c) \/ GiveUp(c)

Spec == Init /\ [][Next]_vars
=============================================================================

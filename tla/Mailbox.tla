-------------------------------- MODULE Mailbox --------------------------------
(* What a companion's inbox promises of a message, whatever its stores and      *)
(* their threads do: it is refused or put in; putting it in makes a copy, and   *)
(* making it permanent may make one more; the client reads a copy at most once  *)
(* and only one that was put there; copies that are gone do not come back.      *)
EXTENDS Naturals

CONSTANT Msgs

VARIABLES
    status,     \* "new", "refused", "queued", or "stored"
    left,       \* copies of each message that can still be read
    read        \* copies of each message the client has read

vars == <<status, left, read>>

Init ==
    /\ status = [m \in Msgs |-> "new"]
    /\ left = [m \in Msgs |-> 0]
    /\ read = [m \in Msgs |-> 0]

Turns(m, from, to) == status[m] = from /\ status' = [status EXCEPT ![m] = to]

Refuse(m) ==
    /\ Turns(m, "new", "refused")
    /\ UNCHANGED <<left, read>>

\* Copies may be let go in any step; m gets one more at most.
Gains(m) ==
    /\ left' \in [Msgs -> Nat]
    /\ \A n \in Msgs : left'[n] <= left[n] + (IF n = m THEN 1 ELSE 0)

\* The message is there when it is put in, at the cost of others perhaps.
Queue(m) ==
    /\ Turns(m, "new", "queued")
    /\ Gains(m) /\ left'[m] = 1
    /\ UNCHANGED read

Store(m) ==
    /\ Turns(m, "queued", "stored")
    /\ Gains(m)
    /\ UNCHANGED read

Read(m) ==
    /\ left[m] > 0
    /\ left' = [left EXCEPT ![m] = @ - 1]
    /\ read' = [read EXCEPT ![m] = @ + 1]
    /\ UNCHANGED status

LetGo ==
    /\ left' \in [Msgs -> Nat]
    /\ \A m \in Msgs : left'[m] <= left[m]
    /\ UNCHANGED <<status, read>>

Next ==
    \/ \E m \in Msgs : Refuse(m) \/ Queue(m) \/ Store(m) \/ Read(m)
    \/ LetGo

Spec == Init /\ [][Next]_vars

\* A client reads nothing that was not put in, and no message more often than it was
\* put in.
ReadIsBounded ==
    \A m \in Msgs :
        read[m] + left[m] <= CASE status[m] \in {"new", "refused"} -> 0
                               [] status[m] = "queued" -> 1
                               [] status[m] = "stored" -> 2
=============================================================================

------------------------------ MODULE TxDispatcher ------------------------------
(* The transmit path of openhop_core/node/dispatcher.py: send_packet, the      *)
(* client-repeat airtime gate _await_tx_budget, the transmit lock and          *)
(* _send_packet_immediate.                                                     *)
(*                                                                             *)
(* One step is what an asyncio task does between two suspension points.  The   *)
(* only suspension points of the path are the gate's sleep, the wait for the   *)
(* lock, radio.send and what follows a confirmed send (callback, ACK wait).    *)
(* Time is a Tick that refills the budget, so `budget` is always what          *)
(* _refill_tx_budget would yield and `pace` is _tx_next_time minus now.        *)
EXTENDS Integers

CONSTANTS
    Senders,     \* the concurrent callers of send_packet
    NoSender,    \* nobody holds the transmit lock
    Budgeted,    \* values set_client_repeat_enabled is called with
    MaxBudget,   \* cap of the token bucket
    Reserve,     \* reserve_ms, what the gate requires before a send
    PaceFloor,   \* MIN_TX_BUDGET_RESERVE_MS, below it a debit sets the pacing
    AirCost,     \* what one completed transmit spends
    RefillRate   \* budget earned in one tick (the duty cycle)

ASSUME TxAssumption ==
    /\ NoSender \notin Senders
    /\ Budgeted \subseteq BOOLEAN
    /\ MaxBudget \in Nat /\ Reserve \in Nat /\ Reserve <= MaxBudget
    /\ PaceFloor \in Nat /\ AirCost \in Nat
    /\ RefillRate \in Nat \ {0}

VARIABLES
    pc,            \* where each send_packet call is suspended
    holder,        \* the task inside `async with self._tx_lock`
    dstate,        \* self.state, "IDLE" or "TRANSMIT"
    clientRepeat,  \* self._client_repeat_enabled
    budget,        \* self._tx_budget_ms, refilled to now
    pace,          \* ticks until self._tx_next_time
    outcome,       \* what the caller's last send_packet returned
    gated,         \* the current send passed _await_tx_budget (history)
    overtaken      \* another send was debited since it passed (history)

txVars == <<pc, holder, dstate, clientRepeat, budget, pace, outcome>>
history == <<gated, overtaken>>
vars == <<pc, holder, dstate, clientRepeat, budget, pace, outcome,
          gated, overtaken>>

Phases == {"idle", "gate", "queued", "radio", "post"}
Outcomes == {"none", "dropped", "sent", "failed"}

Waiting == {s \in Senders : pc[s] = "queued"}

-----------------------------------------------------------------------------
(* The airtime budget.                                                       *)

\* The loop of _await_tx_budget returns at once: no reserve or pacing wait.
GateOpen == budget >= Reserve /\ pace = 0

\* Ticks until `deficit` is earned back: the firmware's needed / duty_cycle.
TicksFor(deficit) == (deficit + RefillRate - 1) \div RefillRate

\* _debit_tx_budget: the bucket never goes below zero, and a bucket left below
\* the floor sets the pacing for the next transmit.
AfterDebit == IF budget > AirCost THEN budget - AirCost ELSE 0

Debit ==
    /\ budget' = AfterDebit
    /\ pace' = IF AfterDebit < PaceFloor THEN TicksFor(PaceFloor - AfterDebit)
                                         ELSE pace

Init ==
    /\ pc = [s \in Senders |-> "idle"]
    /\ holder = NoSender
    /\ dstate = "IDLE"
    /\ clientRepeat \in Budgeted
    /\ budget = MaxBudget
    /\ pace = 0
    /\ outcome = [s \in Senders |-> "none"]
    /\ gated = [s \in Senders |-> FALSE]
    /\ overtaken = [s \in Senders |-> FALSE]

\* Fault: a newcomer overtakes those who wait.
LockFreeBarging == holder = NoSender

\* asyncio.Lock.acquire: immediate when the lock is free and nobody waits.
LockFree == holder = NoSender /\ Waiting = {}

\* The call is over: what the history says of its admission is forgotten.
ForgetAdmission(s) ==
    /\ gated' = [gated EXCEPT ![s] = FALSE]
    /\ overtaken' = [overtaken EXCEPT ![s] = FALSE]

\* _send_packet_immediate up to `await self.radio.send(raw)`.
StartRadio(s) ==
    /\ pc' = [pc EXCEPT ![s] = "radio"]
    /\ holder' = s
    /\ dstate' = "TRANSMIT"

\* `async with self._tx_lock` in send_packet.
EnterLock(s) ==
    \/ /\ LockFree
       /\ StartRadio(s)
    \/ /\ ~LockFree
       /\ pc' = [pc EXCEPT ![s] = "queued"]
       /\ UNCHANGED <<holder, dstate>>

-----------------------------------------------------------------------------
(* send_packet.                                                              *)

\* A flood TRACE is refused before anything else happens.
SubmitFloodTrace(s) ==
    /\ pc[s] = "idle"
    /\ outcome' = [outcome EXCEPT ![s] = "dropped"]
    /\ UNCHANGED <<pc, holder, dstate, clientRepeat, budget, pace>>
    /\ UNCHANGED history

\* Fault: the gate looks at the reserve and not at the pacing.
SubmitUnpaced(s) ==
    /\ pc[s] = "idle"
    /\ outcome' = [outcome EXCEPT ![s] = "none"]
    /\ gated' = [gated EXCEPT ![s] = clientRepeat /\ budget >= Reserve]
    /\ IF clientRepeat /\ budget < Reserve
         THEN /\ pc' = [pc EXCEPT ![s] = "gate"]
              /\ UNCHANGED <<holder, dstate>>
         ELSE EnterLock(s)
    /\ UNCHANGED <<clientRepeat, budget, pace, overtaken>>

\* The call runs without suspending to the gate's sleep, the lock or the radio.
Submit(s) ==
    /\ pc[s] = "idle"
    /\ outcome' = [outcome EXCEPT ![s] = "none"]
    /\ gated' = [gated EXCEPT ![s] = clientRepeat /\ GateOpen]
    /\ IF clientRepeat /\ ~GateOpen
         THEN /\ pc' = [pc EXCEPT ![s] = "gate"]
              /\ UNCHANGED <<holder, dstate>>
         ELSE EnterLock(s)
    /\ UNCHANGED <<clientRepeat, budget, pace, overtaken>>

\* Fault: the re-check after the sleep forgets the pacing.
PassGateUnpaced(s) ==
    /\ pc[s] = "gate"
    /\ budget >= Reserve
    /\ EnterLock(s)
    /\ gated' = [gated EXCEPT ![s] = TRUE]
    /\ UNCHANGED <<clientRepeat, budget, pace, outcome, overtaken>>

\* The gate's sleep ends and its re-check passes.  A re-check that fails sleeps
\* again and changes nothing.
PassGate(s) ==
    /\ pc[s] = "gate"
    /\ GateOpen
    /\ EnterLock(s)
    /\ gated' = [gated EXCEPT ![s] = TRUE]
    /\ UNCHANGED <<clientRepeat, budget, pace, outcome, overtaken>>

\* A waiter of the lock runs: it does not look at the budget again.
Acquire(s) ==
    /\ pc[s] = "queued"
    /\ holder = NoSender
    /\ StartRadio(s)
    /\ UNCHANGED <<clientRepeat, budget, pace, outcome>>
    /\ UNCHANGED history

-----------------------------------------------------------------------------
(* The end of radio.send.                                                    *)

\* Fault: the early return leaves the lock taken.
FailSendKeepsLock(s) ==
    /\ pc[s] = "radio"
    /\ pc' = [pc EXCEPT ![s] = "idle"]
    /\ dstate' = "IDLE"
    /\ outcome' = [outcome EXCEPT ![s] = "failed"]
    /\ ForgetAdmission(s)
    /\ UNCHANGED <<holder, clientRepeat, budget, pace>>

\* radio.send raised, or returned no metadata, as a KISS adapter does for every frame
\* it has queued: IDLE, False, lock released.
FailSend(s) ==
    /\ pc[s] = "radio"
    /\ pc' = [pc EXCEPT ![s] = "idle"]
    /\ holder' = NoSender
    /\ dstate' = "IDLE"
    /\ outcome' = [outcome EXCEPT ![s] = "failed"]
    /\ ForgetAdmission(s)
    /\ UNCHANGED <<clientRepeat, budget, pace>>

\* Metadata came back: the budget is spent if client-repeat is on by now.
RadioConfirms(s) ==
    /\ pc[s] = "radio"
    /\ pc' = [pc EXCEPT ![s] = "post"]
    /\ IF clientRepeat
         THEN /\ Debit
              /\ overtaken' = [t \in Senders |-> overtaken[t] \/ pc[t] = "queued"]
         ELSE UNCHANGED <<budget, pace, overtaken>>
    /\ UNCHANGED <<holder, dstate, clientRepeat, outcome, gated>>

\* The sent callback and the ACK wait are over, still under the lock.
Finish(s) ==
    /\ pc[s] = "post"
    /\ pc' = [pc EXCEPT ![s] = "idle"]
    /\ holder' = NoSender
    /\ dstate' = "IDLE"
    /\ outcome' = [outcome EXCEPT ![s] = "sent"]
    /\ ForgetAdmission(s)
    /\ UNCHANGED <<clientRepeat, budget, pace>>

-----------------------------------------------------------------------------
(* What surrounds the path.                                                  *)

\* Fault: cancelling any send, queued ones too, resets the dispatcher's state.
CancelResetsState(s) ==
    /\ pc[s] # "idle"
    /\ pc' = [pc EXCEPT ![s] = "idle"]
    /\ holder' = IF holder = s THEN NoSender ELSE holder
    /\ dstate' = "IDLE"
    /\ ForgetAdmission(s)
    /\ UNCHANGED <<clientRepeat, budget, pace, outcome>>

\* Fault: the lock is not released by a task that is cancelled.
CancelKeepsLock(s) ==
    /\ pc[s] # "idle"
    /\ pc' = [pc EXCEPT ![s] = "idle"]
    /\ ForgetAdmission(s)
    /\ UNCHANGED <<holder, dstate, clientRepeat, budget, pace, outcome>>

\* The task is cancelled at its suspension point.  CancelledError passes the
\* `except Exception` around radio.send, so self.state keeps its value.
Cancel(s) ==
    /\ pc[s] # "idle"
    /\ pc' = [pc EXCEPT ![s] = "idle"]
    /\ holder' = IF holder = s THEN NoSender ELSE holder
    /\ ForgetAdmission(s)
    /\ UNCHANGED <<dstate, clientRepeat, budget, pace, outcome>>

SetClientRepeat(on) ==
    /\ clientRepeat # on
    /\ clientRepeat' = on
    /\ UNCHANGED <<pc, holder, dstate, budget, pace, outcome>>
    /\ UNCHANGED history

\* Fault: an empty bucket earns nothing.
TickStarved ==
    /\ budget' = IF budget > 0 /\ budget + RefillRate < MaxBudget
                   THEN budget + RefillRate ELSE budget
    /\ pace' = IF pace > 0 THEN pace - 1 ELSE 0
    /\ UNCHANGED <<pc, holder, dstate, clientRepeat, outcome>>
    /\ UNCHANGED history

\* One tick of time.monotonic(), with the refill it earns.
Tick ==
    /\ budget' = IF budget + RefillRate < MaxBudget THEN budget + RefillRate
                                                    ELSE MaxBudget
    /\ pace' = IF pace > 0 THEN pace - 1 ELSE 0
    /\ UNCHANGED <<pc, holder, dstate, clientRepeat, outcome>>
    /\ UNCHANGED history

Step(s) ==
    \/ SubmitFloodTrace(s)
    \/ Submit(s)
    \/ PassGate(s)
    \/ Acquire(s)
    \/ FailSend(s)
    \/ RadioConfirms(s)
    \/ Finish(s)
    \/ Cancel(s)

Next ==
    \/ \E s \in Senders : Step(s)
    \/ \E on \in Budgeted : SetClientRepeat(on)
    \/ Tick

Spec == Init /\ [][Next]_vars

\* A driver's send returns, the ACK wait times out, timers fire, and asyncio.Lock
\* is first-in first-out, so a waiter is not passed over for ever.
Fairness ==
    /\ WF_vars(Tick)
    /\ \A s \in Senders :
         /\ WF_vars(PassGate(s))
         /\ SF_vars(Acquire(s))
         /\ WF_vars(FailSend(s) \/ RadioConfirms(s))
         /\ WF_vars(Finish(s))

FairSpec == Spec /\ Fairness

-----------------------------------------------------------------------------
(* Properties.                                                               *)

TypeOK ==
    /\ pc \in [Senders -> Phases]
    /\ holder \in Senders \cup {NoSender}
    /\ dstate \in {"IDLE", "TRANSMIT"}
    /\ clientRepeat \in BOOLEAN
    /\ budget \in 0..MaxBudget
    /\ pace \in Nat
    /\ outcome \in [Senders -> Outcomes]
    /\ gated \in [Senders -> BOOLEAN]
    /\ overtaken \in [Senders -> BOOLEAN]

\* The lock is held exactly by the task that is in radio.send or in the work
\* after it: no two frames are in the radio at once ("Uses a lock to serialize
\* transmissions"), and no path out of _send_packet_immediate keeps the lock.
LockIsTransmitter ==
    \A s \in Senders : (holder = s) <=> pc[s] \in {"radio", "post"}

\* While a frame is in the radio the dispatcher says TRANSMIT, whatever
\* cancelled or failed sends left behind.
RadioMeansTransmit ==
    \A s \in Senders : pc[s] = "radio" => dstate = "TRANSMIT"

\* An admission decision goes stale only through another send's debit: while a
\* gated send waits for the lock and nobody was debited, the reserve it was
\* admitted on is still there and no pacing is pending.
AdmissionStillGood ==
    \A s \in Waiting : gated[s] /\ ~overtaken[s] => GateOpen

\* The gate works except in the window between the check and the lock: a gated
\* send that reaches the radio while the reserve is missing or the pacing is
\* running was overtaken by another send's debit while it was queued.
OnlyOvertakenSendsBypass ==
    [][\A s \in Senders :
         /\ pc[s] # "radio"
         /\ pc'[s] = "radio"
         /\ gated'[s]
         /\ ~GateOpen
         => pc[s] = "queued" /\ overtaken[s]]_vars

\* The contract of _await_tx_budget's docstring: at least the reserve is there
\* and next_tx_time is honoured whenever a gated send reaches the radio.
ReserveBeforeSending ==
    [][\A s \in Senders :
         pc[s] # "radio" /\ pc'[s] = "radio" /\ gated'[s] => GateOpen]_vars

\* The dispatcher implements the abstract arbiter of the radio: its lock is the
\* owner and its queued sends are the waiters.
Arbiter == INSTANCE TransmitArbiter WITH
    Clients <- Senders, Nobody <- NoSender, owner <- holder, waiters <- Waiting

ArbiterSpec == Arbiter!Spec

\* A task queued on the transmit lock leaves the queue: nothing holds the lock
\* for ever.
LockIsServed ==
    \A s \in Senders : pc[s] = "queued" ~> pc[s] # "queued"

\* How long the gate stays closed, counted in ticks and in budget: zero when it is open.
Missing(b) == IF b < Reserve THEN Reserve - b ELSE 0
GateDistance == pace + Missing(budget)

\* Only the debit of a confirmed send moves the gate away, and every tick brings it
\* closer, for the bucket can hold the reserve.
GateComesCloser ==
    [][/\ GateDistance' > GateDistance =>
            \E s \in Senders : clientRepeat /\ pc[s] = "radio" /\ pc'[s] = "post"
       /\ Tick /\ ~GateOpen => GateDistance' < GateDistance]_vars

\* The gate "never drops": a send waits at the gate for ever only if other sends
\* keep completing and spending the budget it waits for.
GateNeverWedges ==
    \A s \in Senders :
        []<>(pc[s] # "gate") \/ []<>(\E t \in Senders : pc[t] = "post")

=============================================================================

--------------------------- MODULE TxDispatcherProofs ---------------------------
(* Machine-checked safety of the transmit path, for any number of concurrent   *)
(* callers and any budget parameters that satisfy TxAssumption.                *)
EXTENDS TxDispatcher, TLAPS

\* The firmware's wait is a natural number of ticks.
LEMMA TicksForType ==
    ASSUME NEW d \in Nat
    PROVE  TicksFor(d) \in Nat
<1>1. RefillRate \in Nat /\ RefillRate > 0
  BY TxAssumption
<1>2. d + RefillRate - 1 \in Nat
  BY <1>1
<1> QED
  BY <1>1, <1>2 DEF TicksFor

\* A debit leaves the bucket between zero and its cap and never raises it.
LEMMA DebitType ==
    ASSUME budget \in 0..MaxBudget, pace \in Nat, Debit
    PROVE  budget' \in 0..MaxBudget /\ pace' \in Nat
<1>1. AfterDebit \in 0..MaxBudget
  BY TxAssumption DEF AfterDebit
<1>2. CASE AfterDebit < PaceFloor
  <2>1. PaceFloor - AfterDebit \in Nat
    BY <1>1, <1>2, TxAssumption
  <2> QED
    BY <1>1, <1>2, <2>1, TicksForType DEF Debit
<1>3. CASE ~(AfterDebit < PaceFloor)
  BY <1>1, <1>3 DEF Debit
<1> QED
  BY <1>2, <1>3

\* Entering the lock keeps the shape of the lock's variables.
LEMMA EnterLockType ==
    ASSUME TypeOK, NEW s \in Senders, EnterLock(s)
    PROVE  /\ pc' \in [Senders -> Phases]
           /\ holder' \in Senders \cup {NoSender}
           /\ dstate' \in {"IDLE", "TRANSMIT"}
BY DEF TypeOK, EnterLock, StartRadio, Phases

THEOREM TypeCorrect == Spec => []TypeOK
<1>1. Init => TypeOK
  BY TxAssumption DEF Init, TypeOK, Phases, Outcomes
<1>2. TypeOK /\ [Next]_vars => TypeOK'
  <2> SUFFICES ASSUME TypeOK, [Next]_vars PROVE TypeOK'
    OBVIOUS
  <2>1. ASSUME NEW s \in Senders, SubmitFloodTrace(s) PROVE TypeOK'
    BY <2>1 DEF TypeOK, SubmitFloodTrace, history, Outcomes
  <2>2. ASSUME NEW s \in Senders, Submit(s) PROVE TypeOK'
    <3>1. GateOpen \in BOOLEAN
      BY DEF GateOpen
    <3>2. CASE clientRepeat /\ ~GateOpen
      BY <2>2, <3>1, <3>2 DEF TypeOK, Submit, Phases, Outcomes
    <3>3. CASE ~(clientRepeat /\ ~GateOpen)
      BY <2>2, <3>1, <3>3, EnterLockType DEF TypeOK, Submit, Outcomes
    <3> QED
      BY <3>2, <3>3
  <2>3. ASSUME NEW s \in Senders, PassGate(s) PROVE TypeOK'
    BY <2>3, EnterLockType DEF TypeOK, PassGate
  <2>4. ASSUME NEW s \in Senders, Acquire(s) PROVE TypeOK'
    BY <2>4 DEF TypeOK, Acquire, StartRadio, history, Phases
  <2>5. ASSUME NEW s \in Senders, FailSend(s)
        PROVE  TypeOK'
    BY <2>5, TxAssumption
    DEF TypeOK, FailSend, ForgetAdmission, Phases,
        Outcomes
  <2>6. ASSUME NEW s \in Senders, RadioConfirms(s) PROVE TypeOK'
    <3>1. /\ pc' \in [Senders -> Phases]
          /\ overtaken' \in [Senders -> BOOLEAN]
      BY <2>6 DEF TypeOK, RadioConfirms, Phases
    <3>2. budget' \in 0..MaxBudget /\ pace' \in Nat
      BY <2>6, DebitType DEF TypeOK, RadioConfirms
    <3> QED
      BY <2>6, <3>1, <3>2 DEF TypeOK, RadioConfirms
  <2>7. ASSUME NEW s \in Senders, Finish(s) PROVE TypeOK'
    BY <2>7 DEF TypeOK, Finish, ForgetAdmission, Phases, Outcomes
  <2>8. ASSUME NEW s \in Senders, Cancel(s) PROVE TypeOK'
    BY <2>8 DEF TypeOK, Cancel, ForgetAdmission, Phases
  <2>9. ASSUME NEW on \in Budgeted, SetClientRepeat(on) PROVE TypeOK'
    BY <2>9, TxAssumption DEF TypeOK, SetClientRepeat, history
  <2>10. CASE Tick
    BY <2>10, TxAssumption DEF TypeOK, Tick, history
  <2>11. CASE UNCHANGED vars
    BY <2>11 DEF TypeOK, vars
  <2> QED
    BY <2>1, <2>2, <2>3, <2>4, <2>5, <2>6, <2>7, <2>8, <2>9, <2>10, <2>11
    DEF Next, Step
<1> QED
  BY <1>1, <1>2, PTL DEF Spec

-----------------------------------------------------------------------------
(* The transmit lock.                                                        *)

\* Entering the lock gives it to s only if nobody holds it.
LEMMA EnterLockKeepsLock ==
    ASSUME TypeOK, LockIsTransmitter,
           NEW s \in Senders, pc[s] \in {"idle", "gate"}, EnterLock(s)
    PROVE  LockIsTransmitter'
<1>1. CASE LockFree /\ StartRadio(s)
  BY <1>1, TxAssumption
  DEF TypeOK, LockIsTransmitter, LockFree, StartRadio, Phases
<1>2. CASE ~LockFree /\ pc' = [pc EXCEPT ![s] = "queued"]
                     /\ UNCHANGED <<holder, dstate>>
  BY <1>2 DEF TypeOK, LockIsTransmitter, Phases
<1> QED
  BY <1>1, <1>2 DEF EnterLock

\* Leaving radio.send or the work after it gives the lock back.
LEMMA LeaveKeepsLock ==
    ASSUME TypeOK, LockIsTransmitter, NEW s \in Senders,
           pc' = [pc EXCEPT ![s] = "idle"],
           holder' = IF holder = s THEN NoSender ELSE holder
    PROVE  LockIsTransmitter'
BY TxAssumption DEF TypeOK, LockIsTransmitter, Phases

LEMMA LockStep == TypeOK /\ LockIsTransmitter /\ [Next]_vars => LockIsTransmitter'
<1> SUFFICES ASSUME TypeOK, LockIsTransmitter, [Next]_vars
             PROVE  LockIsTransmitter'
  OBVIOUS
<1>1. ASSUME NEW s \in Senders, Submit(s) PROVE LockIsTransmitter'
  <2>1. CASE clientRepeat /\ ~GateOpen
    BY <1>1, <2>1 DEF Submit, TypeOK, LockIsTransmitter, Phases
  <2>2. CASE ~(clientRepeat /\ ~GateOpen)
    BY <1>1, <2>2, EnterLockKeepsLock DEF Submit
  <2> QED
    BY <2>1, <2>2
<1>2. ASSUME NEW s \in Senders, PassGate(s) PROVE LockIsTransmitter'
  BY <1>2, EnterLockKeepsLock DEF PassGate
<1>3. ASSUME NEW s \in Senders, Acquire(s) PROVE LockIsTransmitter'
  BY <1>3, TxAssumption
  DEF Acquire, StartRadio, TypeOK, LockIsTransmitter, Phases
<1>4. ASSUME NEW s \in Senders, FailSend(s)
      PROVE  LockIsTransmitter'
  <2>1. holder = s
    BY <1>4 DEF FailSend, LockIsTransmitter
  <2> QED
    BY <1>4, <2>1, LeaveKeepsLock
    DEF FailSend
<1>5. ASSUME NEW s \in Senders, RadioConfirms(s) PROVE LockIsTransmitter'
  BY <1>5 DEF RadioConfirms, TypeOK, LockIsTransmitter, Phases
<1>6. ASSUME NEW s \in Senders, Finish(s) PROVE LockIsTransmitter'
  <2>1. holder = s
    BY <1>6 DEF Finish, LockIsTransmitter
  <2> QED
    BY <1>6, <2>1, LeaveKeepsLock DEF Finish
<1>7. ASSUME NEW s \in Senders, Cancel(s) PROVE LockIsTransmitter'
  BY <1>7, LeaveKeepsLock DEF Cancel
<1>8. CASE UNCHANGED <<pc, holder>>
  BY <1>8 DEF LockIsTransmitter
<1> QED
  BY <1>1, <1>2, <1>3, <1>4, <1>5, <1>6, <1>7, <1>8
  DEF Next, Step, SubmitFloodTrace, SetClientRepeat, Tick, vars

\* At most one frame is in the radio, and the lock is never left behind: for
\* every number of callers, failures and cancellations included.
THEOREM LockCorrect == Spec => []LockIsTransmitter
<1>1. Init => LockIsTransmitter
  BY TxAssumption DEF Init, LockIsTransmitter
<1> QED
  BY <1>1, LockStep, TypeCorrect, PTL DEF Spec

\* self.state says TRANSMIT as long as a frame is in the radio.
LEMMA RadioStep ==
    TypeOK /\ LockIsTransmitter /\ RadioMeansTransmit /\ [Next]_vars
        => RadioMeansTransmit'
<1> SUFFICES ASSUME TypeOK, LockIsTransmitter, RadioMeansTransmit, [Next]_vars
             PROVE  RadioMeansTransmit'
  OBVIOUS
<1>1. ASSUME NEW s \in Senders, Submit(s) \/ PassGate(s)
      PROVE  RadioMeansTransmit'
  BY <1>1 DEF Submit, PassGate, EnterLock, StartRadio, RadioMeansTransmit, TypeOK
<1>2. ASSUME NEW s \in Senders, Acquire(s) PROVE RadioMeansTransmit'
  BY <1>2 DEF Acquire, StartRadio, RadioMeansTransmit, TypeOK
<1>3. ASSUME NEW s \in Senders, FailSend(s) \/ Finish(s)
      PROVE  RadioMeansTransmit'
  <2>1. holder = s
    BY <1>3 DEF FailSend, Finish, LockIsTransmitter
  <2>2. \A t \in Senders \ {s} : pc[t] # "radio"
    BY <2>1 DEF LockIsTransmitter
  <2> QED
    BY <1>3, <2>2
    DEF FailSend, Finish, RadioMeansTransmit, TypeOK
<1>4. ASSUME NEW s \in Senders, RadioConfirms(s) \/ Cancel(s)
      PROVE  RadioMeansTransmit'
  BY <1>4 DEF RadioConfirms, Cancel, RadioMeansTransmit, TypeOK
<1>5. CASE UNCHANGED <<pc, dstate>>
  BY <1>5 DEF RadioMeansTransmit
<1> QED
  BY <1>1, <1>2, <1>3, <1>4, <1>5
  DEF Next, Step, SubmitFloodTrace, SetClientRepeat, Tick, vars

\* No cancelled or failed send makes the state lie about a frame on air.
THEOREM RadioStateCorrect == Spec => []RadioMeansTransmit
<1>1. Init => RadioMeansTransmit
  BY DEF Init, RadioMeansTransmit
<1> QED
  BY <1>1, RadioStep, TypeCorrect, LockCorrect, PTL DEF Spec

-----------------------------------------------------------------------------
(* The airtime gate.                                                         *)

\* Time alone never closes an open gate.
LEMMA TickKeepsGate ==
    ASSUME TypeOK, Tick, GateOpen
    PROVE  GateOpen'
BY TxAssumption DEF TypeOK, Tick, GateOpen

LEMMA AdmissionStep ==
    TypeOK /\ AdmissionStillGood /\ [Next]_vars => AdmissionStillGood'
<1> SUFFICES ASSUME TypeOK, AdmissionStillGood, [Next]_vars
             PROVE  AdmissionStillGood'
  OBVIOUS
<1>1. ASSUME NEW s \in Senders, Submit(s) PROVE AdmissionStillGood'
  <2>1. GateOpen' = GateOpen
    BY <1>1 DEF Submit, GateOpen
  <2>2. \A t \in Senders \ {s} :
          /\ pc'[t] = pc[t] /\ gated'[t] = gated[t]
          /\ overtaken'[t] = overtaken[t]
    BY <1>1 DEF Submit, EnterLock, StartRadio, TypeOK
  <2>3. gated'[s] => GateOpen
    BY <1>1 DEF Submit, TypeOK
  <2> QED
    BY <2>1, <2>2, <2>3 DEF AdmissionStillGood, Waiting
<1>2. ASSUME NEW s \in Senders, PassGate(s) PROVE AdmissionStillGood'
  <2>1. GateOpen /\ GateOpen'
    BY <1>2 DEF PassGate, GateOpen
  <2> QED
    BY <2>1 DEF AdmissionStillGood, Waiting
<1>3. ASSUME NEW s \in Senders, RadioConfirms(s) PROVE AdmissionStillGood'
  <2>1. \A t \in Senders : pc'[t] = "queued" => pc[t] = "queued" /\ t # s
    BY <1>3 DEF RadioConfirms, TypeOK
  <2>2. CASE clientRepeat
    <3>1. \A t \in Waiting : overtaken'[t]
      BY <1>3, <2>2 DEF RadioConfirms, Waiting
    <3> QED
      BY <2>1, <3>1 DEF AdmissionStillGood, Waiting
  <2>3. CASE ~clientRepeat
    <3>1. UNCHANGED <<gated, overtaken>> /\ GateOpen' = GateOpen
      BY <1>3, <2>3 DEF RadioConfirms, GateOpen
    <3> QED
      BY <2>1, <3>1 DEF AdmissionStillGood, Waiting
  <2> QED
    BY <2>2, <2>3
<1>4. ASSUME NEW s \in Senders,
             \/ Acquire(s) \/ FailSend(s)
             \/ Finish(s) \/ Cancel(s)
      PROVE  AdmissionStillGood'
  <2>1. \A t \in Senders :
          pc'[t] = "queued" =>
            /\ pc[t] = "queued"
            /\ gated'[t] = gated[t] /\ overtaken'[t] = overtaken[t]
    BY <1>4
    DEF Acquire, StartRadio, FailSend, Finish,
        Cancel, ForgetAdmission, history, TypeOK
  <2>2. GateOpen' = GateOpen
    BY <1>4
    DEF Acquire, FailSend, Finish, Cancel,
        GateOpen
  <2> QED
    BY <2>1, <2>2 DEF AdmissionStillGood, Waiting
<1>5. CASE Tick
  <2>1. GateOpen => GateOpen'
    BY <1>5, TickKeepsGate
  <2> QED
    BY <1>5, <2>1 DEF Tick, history, AdmissionStillGood, Waiting
<1>6. CASE UNCHANGED <<pc, gated, overtaken, budget, pace>>
  BY <1>6 DEF AdmissionStillGood, Waiting, GateOpen
<1> QED
  BY <1>1, <1>2, <1>3, <1>4, <1>5, <1>6
  DEF Next, Step, SubmitFloodTrace, SetClientRepeat, vars, history

\* An admission decision goes stale only through another send's debit.
THEOREM AdmissionCorrect == Spec => []AdmissionStillGood
<1>1. Init => AdmissionStillGood
  BY DEF Init, AdmissionStillGood, Waiting
<1> QED
  BY <1>1, AdmissionStep, TypeCorrect, PTL DEF Spec

\* A step that puts a gated frame into the radio while the gate is closed is
\* the Acquire of an overtaken waiter.
LEMMA BypassStep ==
    TypeOK /\ AdmissionStillGood /\ [Next]_vars =>
      [\A s \in Senders :
         /\ pc[s] # "radio"
         /\ pc'[s] = "radio"
         /\ gated'[s]
         /\ ~GateOpen
         => pc[s] = "queued" /\ overtaken[s]]_vars
<1> SUFFICES ASSUME TypeOK, AdmissionStillGood, Next, NEW s \in Senders,
                    pc[s] # "radio", pc'[s] = "radio", gated'[s], ~GateOpen
             PROVE  pc[s] = "queued" /\ overtaken[s]
  BY DEF vars
<1>1. ASSUME NEW t \in Senders, Submit(t) PROVE FALSE
  <2>1. t = s
    BY <1>1 DEF Submit, EnterLock, StartRadio, TypeOK
  <2> QED
    BY <1>1, <2>1 DEF Submit, TypeOK
<1>2. ASSUME NEW t \in Senders, PassGate(t) PROVE FALSE
  BY <1>2 DEF PassGate
<1>3. ASSUME NEW t \in Senders, Acquire(t) PROVE pc[s] = "queued" /\ overtaken[s]
  <2>1. t = s /\ pc[s] = "queued" /\ gated[s]
    BY <1>3 DEF Acquire, StartRadio, history, TypeOK
  <2> QED
    BY <2>1 DEF AdmissionStillGood, Waiting, TypeOK
<1>4. ASSUME NEW t \in Senders,
             \/ SubmitFloodTrace(t) \/ FailSend(t)
             \/ RadioConfirms(t) \/ Finish(t) \/ Cancel(t)
      PROVE  FALSE
  BY <1>4
  DEF SubmitFloodTrace, FailSend, RadioConfirms,
      Finish, Cancel, TypeOK
<1>5. CASE Tick \/ \E on \in Budgeted : SetClientRepeat(on)
  BY <1>5 DEF Tick, SetClientRepeat
<1> QED
  BY <1>1, <1>2, <1>3, <1>4, <1>5 DEF Next, Step

\* The gate can be bypassed only in the window between the check and the lock.
THEOREM GateCorrect == Spec => OnlyOvertakenSendsBypass
  BY BypassStep, TypeCorrect, AdmissionCorrect, PTL
  DEF Spec, OnlyOvertakenSendsBypass

-----------------------------------------------------------------------------
(* Refinement of the abstract arbiter.                                       *)

\* Entering the lock is a Wait or a TakeAtOnce of the arbiter.
LEMMA EnterLockRefines ==
    ASSUME TypeOK, LockIsTransmitter, NEW s \in Senders,
           pc[s] \in {"idle", "gate"}, EnterLock(s)
    PROVE  Arbiter!Next
<1>1. CASE LockFree /\ StartRadio(s)
  <2>1. Waiting' = Waiting
    BY <1>1 DEF StartRadio, Waiting, TypeOK
  <2> QED
    BY <1>1, <2>1
    DEF LockFree, StartRadio, Arbiter!Next, Arbiter!TakeAtOnce
<1>2. CASE /\ ~LockFree
           /\ pc' = [pc EXCEPT ![s] = "queued"]
           /\ UNCHANGED <<holder, dstate>>
  <2>1. Waiting' = Waiting \cup {s}
    BY <1>2 DEF Waiting, TypeOK
  <2>2. s \notin Waiting /\ holder # s
    BY DEF Waiting, LockIsTransmitter
  <2> QED
    BY <1>2, <2>1, <2>2 DEF LockFree, Arbiter!Next, Arbiter!Wait
<1> QED
  BY <1>1, <1>2 DEF EnterLock

\* The owner leaving radio.send, or the work after it, gives the radio up.
LEMMA LeaveRefines ==
    ASSUME TypeOK, LockIsTransmitter, NEW s \in Senders,
           pc[s] \in {"radio", "post"}, pc' = [pc EXCEPT ![s] = "idle"],
           holder' = NoSender
    PROVE  Arbiter!Next
<1>1. holder = s
  BY DEF LockIsTransmitter
<1>2. Waiting' = Waiting
  BY DEF Waiting, TypeOK
<1> QED
  BY <1>1, <1>2 DEF Arbiter!Next, Arbiter!GiveUp

LEMMA RefinementStep ==
    TypeOK /\ LockIsTransmitter /\ [Next]_vars => [Arbiter!Next]_(Arbiter!vars)
<1> SUFFICES ASSUME TypeOK, LockIsTransmitter, [Next]_vars
             PROVE  Arbiter!Next \/ UNCHANGED <<holder, Waiting>>
  BY DEF Arbiter!vars
<1>1. ASSUME NEW s \in Senders, Submit(s)
      PROVE  Arbiter!Next \/ UNCHANGED <<holder, Waiting>>
  <2>1. CASE clientRepeat /\ ~GateOpen
    BY <1>1, <2>1 DEF Submit, Waiting, TypeOK
  <2>2. CASE ~(clientRepeat /\ ~GateOpen)
    BY <1>1, <2>2, EnterLockRefines DEF Submit
  <2> QED
    BY <2>1, <2>2
<1>2. ASSUME NEW s \in Senders, PassGate(s) PROVE Arbiter!Next
  BY <1>2, EnterLockRefines DEF PassGate
<1>3. ASSUME NEW s \in Senders, Acquire(s) PROVE Arbiter!Next
  <2>1. s \in Waiting /\ Waiting' = Waiting \ {s}
    BY <1>3 DEF Acquire, StartRadio, Waiting, TypeOK
  <2> QED
    BY <1>3, <2>1 DEF Acquire, StartRadio, Arbiter!Next, Arbiter!Grant
<1>4. ASSUME NEW s \in Senders,
             FailSend(s) \/ Finish(s)
      PROVE  Arbiter!Next
  BY <1>4, LeaveRefines
  DEF FailSend, Finish
<1>5. ASSUME NEW s \in Senders, RadioConfirms(s)
      PROVE  UNCHANGED <<holder, Waiting>>
  BY <1>5 DEF RadioConfirms, Waiting, TypeOK
<1>6. ASSUME NEW s \in Senders, Cancel(s)
      PROVE  Arbiter!Next \/ UNCHANGED <<holder, Waiting>>
  <2>1. CASE pc[s] \in {"radio", "post"}
    BY <1>6, <2>1, LeaveRefines DEF Cancel, LockIsTransmitter
  <2>2. CASE pc[s] = "queued"
    <3>1. Waiting' = Waiting \ {s} /\ s \in Waiting /\ holder' = holder
      BY <1>6, <2>2 DEF Cancel, Waiting, TypeOK, LockIsTransmitter
    <3> QED
      BY <3>1 DEF Arbiter!Next, Arbiter!Withdraw
  <2>3. CASE pc[s] = "gate"
    BY <1>6, <2>3 DEF Cancel, Waiting, TypeOK, LockIsTransmitter
  <2> QED
    BY <1>6, <2>1, <2>2, <2>3 DEF Cancel, TypeOK, Phases
<1>7. CASE UNCHANGED <<pc, holder>>
  BY <1>7 DEF Waiting
<1> QED
  BY <1>1, <1>2, <1>3, <1>4, <1>5, <1>6, <1>7
  DEF Next, Step, SubmitFloodTrace, SetClientRepeat, Tick, vars

\* send_packet implements the arbiter: what its callers may rely on.
THEOREM DispatcherImplementsArbiter == Spec => ArbiterSpec
<1>1. Init => Arbiter!Init
  BY DEF Init, Arbiter!Init, Waiting
<1> QED
  BY <1>1, RefinementStep, TypeCorrect, LockCorrect, PTL
  DEF Spec, ArbiterSpec, Arbiter!Spec

-----------------------------------------------------------------------------
(* How the gate opens.                                                       *)

\* The more budget, the less is missing.
LEMMA MissingProperties ==
    ASSUME NEW b \in Nat, NEW c \in Nat, b <= c
    PROVE  /\ Missing(b) \in Nat /\ Missing(c) \in Nat /\ Missing(c) <= Missing(b)
           /\ b < Reserve /\ b < c => Missing(c) < Missing(b)
<1>1. Reserve \in Nat
  BY TxAssumption
<1>2. Missing(b) \in Nat /\ Missing(c) \in Nat
  BY <1>1 DEF Missing
<1>3. Missing(c) <= Missing(b)
  BY <1>1 DEF Missing
<1>4. b < Reserve /\ b < c => Missing(c) < Missing(b)
  BY <1>1 DEF Missing
<1> QED
  BY <1>2, <1>3, <1>4

\* A tick earns budget until the cap, which is no lower than the reserve.
LEMMA TickComesCloser ==
    ASSUME TypeOK, Tick
    PROVE  /\ GateDistance' <= GateDistance
           /\ ~GateOpen => GateDistance' < GateDistance
<1>1. /\ budget \in Nat /\ budget <= MaxBudget /\ pace \in Nat
      /\ MaxBudget \in Nat /\ Reserve \in Nat /\ Reserve <= MaxBudget
      /\ RefillRate \in Nat /\ RefillRate > 0
  BY TxAssumption DEF TypeOK
<1>2. budget' \in Nat /\ budget' >= budget /\ (budget < Reserve => budget' > budget)
  BY <1>1 DEF Tick
<1>3. pace' \in Nat /\ pace' <= pace /\ (pace > 0 => pace' < pace)
  BY <1>1 DEF Tick
<1>4. /\ Missing(budget) \in Nat /\ Missing(budget') \in Nat
      /\ Missing(budget') <= Missing(budget)
      /\ budget < Reserve => Missing(budget') < Missing(budget)
  BY <1>1, <1>2, MissingProperties
<1>5. GateDistance = pace + Missing(budget) /\ GateDistance' = pace' + Missing(budget')
  BY DEF GateDistance, Missing
<1>6. ~GateOpen => budget < Reserve \/ pace > 0
  BY <1>1 DEF GateOpen
<1>7. GateDistance' <= GateDistance
  BY <1>1, <1>3, <1>4, <1>5
<1>8. ASSUME ~GateOpen PROVE GateDistance' < GateDistance
  BY <1>1, <1>3, <1>4, <1>5, <1>6, <1>8
<1> QED
  BY <1>7, <1>8

LEMMA GateDistanceStep ==
    ASSUME TypeOK, [Next]_vars, GateDistance' > GateDistance
    PROVE  \E s \in Senders : clientRepeat /\ pc[s] = "radio" /\ pc'[s] = "post"
<1>0. GateDistance \in Nat
  <2>1. budget \in Nat /\ pace \in Nat
    BY TxAssumption DEF TypeOK
  <2> QED BY <2>1, MissingProperties DEF GateDistance
<1>1. ~UNCHANGED <<budget, pace>>
  <2> SUFFICES ASSUME UNCHANGED <<budget, pace>> PROVE FALSE
    OBVIOUS
  <2>1. GateDistance' = GateDistance
    BY DEF GateDistance, Missing
  <2> QED BY <1>0, <2>1
<1>2. ~Tick
  <2> SUFFICES ASSUME Tick PROVE FALSE
    OBVIOUS
  <2>1. GateDistance' <= GateDistance
    BY TickComesCloser
  <2>2. GateDistance' \in Nat
    <3>1. budget' \in Nat /\ pace' \in Nat
      BY TxAssumption DEF Tick, TypeOK
    <3>2. Missing(budget') \in Nat
      BY <3>1, MissingProperties
    <3>3. GateDistance' = pace' + Missing(budget')
      BY DEF GateDistance, Missing
    <3> QED BY <3>1, <3>2, <3>3
  <2> QED BY <1>0, <2>1, <2>2
<1>3. PICK s \in Senders : RadioConfirms(s)
  BY <1>1, <1>2
  DEF Next, Step, SubmitFloodTrace, Submit, PassGate, Acquire, FailSend, Finish, Cancel,
      SetClientRepeat, vars
<1>4. clientRepeat
  BY <1>1, <1>3 DEF RadioConfirms, TypeOK
<1>5. pc[s] = "radio" /\ pc'[s] = "post"
  BY <1>3 DEF RadioConfirms, TypeOK
<1> QED
  BY <1>4, <1>5

\* The gate is a distance that only confirmed sends increase and every tick decreases,
\* for any cost, reserve and rate: what GateNeverWedges needs besides time.
THEOREM GateProgressCorrect == Spec => GateComesCloser
<1>1. ASSUME TypeOK, [Next]_vars
      PROVE  [/\ GateDistance' > GateDistance =>
                   \E s \in Senders : clientRepeat /\ pc[s] = "radio" /\ pc'[s] = "post"
              /\ Tick /\ ~GateOpen => GateDistance' < GateDistance]_vars
  BY <1>1, GateDistanceStep, TickComesCloser
<1> QED
  BY <1>1, TypeCorrect, PTL DEF Spec, GateComesCloser
=============================================================================

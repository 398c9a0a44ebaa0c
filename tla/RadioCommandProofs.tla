--------------------------- MODULE RadioCommandProofs ---------------------------
(* Machine-checked safety of overlapping radio commands, for any number of     *)
(* requests and response types.                                                *)
EXTENDS RadioCommand, TLAPS

\* Every variable keeps its type, whatever calls and responses overlap.
THEOREM TypeCorrect == Spec => []TypeOK
<1>1. Init => TypeOK
  BY DEF Init, TypeOK, Phases
<1>2. TypeOK /\ [Next]_vars => TypeOK'
  <2> SUFFICES ASSUME TypeOK, [Next]_vars PROVE TypeOK'
    OBVIOUS
  <2> USE CommandAssumption DEF TypeOK, Phases, Goto, history
  <2>1. ASSUME NEW r \in Requests, NotConnected(r) PROVE TypeOK'
    BY <2>1 DEF NotConnected
  <2>2. ASSUME NEW r \in Requests, Register(r) PROVE TypeOK'
    BY <2>2 DEF Register, SameType
  <2>3. ASSUME NEW r \in Requests, Write(r) PROVE TypeOK'
    BY <2>3 DEF Write
  <2>4. ASSUME NEW r \in Requests, WriteFails(r) PROVE TypeOK'
    BY <2>4 DEF WriteFails
  <2>5. ASSUME NEW r \in Requests, Resume(r) PROVE TypeOK'
    BY <2>5 DEF Resume
  <2>6. ASSUME NEW r \in Requests, Timeout(r) PROVE TypeOK'
    BY <2>6 DEF Timeout
  <2>7. ASSUME NEW r \in Requests, Unregister(r) PROVE TypeOK'
    BY <2>7 DEF Unregister
  <2>8. ASSUME NEW q \in Requests, Dispatch(q) PROVE TypeOK'
    BY <2>8 DEF Dispatch
  <2>9. ASSUME NEW q \in Requests, Lose(q) PROVE TypeOK'
    BY <2>9 DEF Lose
  <2>10. CASE UNCHANGED vars
    BY <2>10 DEF vars
  <2> QED
    BY <2>1, <2>2, <2>3, <2>4, <2>5, <2>6, <2>7, <2>8, <2>9, <2>10 DEF Next, Call
<1> QED
  BY <1>1, <1>2, PTL DEF Spec

-----------------------------------------------------------------------------
(* The slots belong to live calls.                                           *)

\* A registered event waits for the type it is registered under: a call that
\* leaves removes its own registration and not another type's.
EventOfType ==
    \A t \in Types :
        event[t] # None =>
            /\ pc[event[t]] \in {"sending", "waiting", "leaving"}
            /\ Expect[event[t]] = t

LEMMA EventStep == TypeOK /\ EventOfType /\ [Next]_vars => EventOfType'
<1> SUFFICES ASSUME TypeOK, EventOfType, [Next]_vars PROVE EventOfType'
  OBVIOUS
<1> USE CommandAssumption DEF TypeOK, EventOfType, Goto
<1>1. ASSUME NEW r \in Requests, Register(r) PROVE EventOfType'
  BY <1>1 DEF Register
<1>2. ASSUME NEW r \in Requests, Unregister(r) PROVE EventOfType'
  BY <1>2 DEF Unregister
<1>3. ASSUME NEW r \in Requests,
             \/ NotConnected(r) \/ Write(r) \/ WriteFails(r)
             \/ Resume(r) \/ Timeout(r)
      PROVE  EventOfType'
  BY <1>3 DEF NotConnected, Write, WriteFails, Resume, Timeout
<1>4. CASE UNCHANGED <<event, pc>>
  BY <1>4
<1> QED
  BY <1>1, <1>2, <1>3, <1>4 DEF Next, Call, Dispatch, Lose, vars

\* No way out of _send_command leaves an event registered for a call that is
\* over.
THEOREM RegistrationCorrect == Spec => []RegisteredIsLive
<1>1. Init => EventOfType
  BY CommandAssumption DEF Init, EventOfType
<1>2. TypeOK /\ EventOfType => RegisteredIsLive
  BY DEF EventOfType, RegisteredIsLive
<1> QED
  BY <1>1, <1>2, EventStep, TypeCorrect, PTL DEF Spec

-----------------------------------------------------------------------------
(* A response is in one place.                                               *)

\* A response is in the modem, in the data slot of its type, or with one call;
\* in the slot and with a call only while that call leaves, and it is nowhere
\* before the frame is written.
OnePlace ==
    /\ \A q \in unanswered :
         /\ pc[q] \notin {"new", "sending"}
         /\ \A t \in Types : data[t] # q
         /\ \A r \in Requests : result[r] # q
    /\ \A t \in Types :
         data[t] # None =>
           /\ pc[data[t]] \notin {"new", "sending"}
           /\ Expect[data[t]] = t
    /\ \A r \in Requests :
         result[r] # None =>
           /\ pc[result[r]] \notin {"new", "sending"}
           /\ Expect[result[r]] = Expect[r]
           /\ pc[r] \in {"leaving", "done"}
           /\ data[Expect[r]] = result[r] => pc[r] = "leaving"

TakenOnce == OnePlace /\ AnswerTakenOnce

LEMMA TakenStep == TypeOK /\ TakenOnce /\ [Next]_vars => TakenOnce'
<1> SUFFICES ASSUME TypeOK, TakenOnce, [Next]_vars PROVE TakenOnce'
  OBVIOUS
<1> USE CommandAssumption DEF TypeOK, TakenOnce, OnePlace, AnswerTakenOnce, Goto
<1>1. ASSUME NEW r \in Requests, Register(r) PROVE TakenOnce'
  BY <1>1 DEF Register
<1>2. ASSUME NEW r \in Requests, Write(r) PROVE TakenOnce'
  BY <1>2 DEF Write
<1>3. ASSUME NEW r \in Requests, Resume(r) PROVE TakenOnce'
  <2> DEFINE t == Expect[r]
  <2>1. /\ t \in Types
        /\ pc' = [pc EXCEPT ![r] = "leaving"]
        /\ result' = [result EXCEPT ![r] = data[t]]
        /\ UNCHANGED <<data, unanswered>>
        /\ \A q \in Requests : pc[q] # "leaving"
    BY <1>3 DEF Resume, LoopFree
  <2>2. \A q \in Requests : result[q] # None => result[q] # data[t]
    BY <2>1
  <2>3. OnePlace'
    BY <2>1, <2>2
  <2>4. AnswerTakenOnce'
    BY <2>1, <2>2
  <2> QED
    BY <2>3, <2>4
<1>4. ASSUME NEW r \in Requests, Unregister(r) PROVE TakenOnce'
  BY <1>4 DEF Unregister
<1>5. ASSUME NEW q \in Requests, Dispatch(q) PROVE TakenOnce'
  BY <1>5 DEF Dispatch
<1>6. ASSUME NEW r \in Requests, NotConnected(r) \/ WriteFails(r) \/ Timeout(r)
      PROVE  TakenOnce'
  BY <1>6 DEF NotConnected, WriteFails, Timeout
<1>7. ASSUME NEW q \in Requests, Lose(q) PROVE TakenOnce'
  BY <1>7 DEF Lose
<1>8. CASE UNCHANGED vars
  BY <1>8 DEF vars
<1> QED
  BY <1>1, <1>2, <1>3, <1>4, <1>5, <1>6, <1>7, <1>8 DEF Next, Call

\* However calls overlap and whatever order responses come in, no response is
\* returned by two calls: the read and the removal are one turn of the loop.
THEOREM ConsumptionCorrect == Spec => []AnswerTakenOnce
<1>1. Init => TakenOnce
  BY CommandAssumption DEF Init, TakenOnce, OnePlace, AnswerTakenOnce
<1>2. TakenOnce => AnswerTakenOnce
  BY DEF TakenOnce
<1> QED
  BY <1>1, <1>2, TakenStep, TypeCorrect, PTL DEF Spec

-----------------------------------------------------------------------------
(* A call that is alone with its type gets its own response.                 *)

\* A call that met no other of its type still owns the registration, no other
\* frame of its type is with the modem, and its event is set only with its own
\* response in the slot.
AloneOwnsSlots ==
    /\ \A r \in Requests : pc[r] = "new" => r \notin woken
    /\ \A r \in Requests \ contended :
         pc[r] \in {"sending", "waiting"} =>
           /\ event[Expect[r]] = r
           /\ r \in woken => data[Expect[r]] = r
           /\ \A q \in SameType(r) :
                pc[q] \in {"new", "done"} /\ q \notin unanswered
    /\ \A r \in served : pc[r] \in {"leaving", "done"}
    /\ UncontendedGetsItsAnswer

LEMMA AloneStep ==
    TypeOK /\ EventOfType /\ AloneOwnsSlots /\ [Next]_vars => AloneOwnsSlots'
<1> SUFFICES ASSUME TypeOK, EventOfType, AloneOwnsSlots, [Next]_vars
             PROVE  AloneOwnsSlots'
  OBVIOUS
<1> USE CommandAssumption
    DEF TypeOK, AloneOwnsSlots, UncontendedGetsItsAnswer, SameType, Goto
<1>1. ASSUME NEW r \in Requests, Register(r) PROVE AloneOwnsSlots'
  BY <1>1 DEF Register, LoopFree, Phases
<1>2. ASSUME NEW r \in Requests, Write(r) PROVE AloneOwnsSlots'
  BY <1>2 DEF Write, history
<1>3. ASSUME NEW r \in Requests, Resume(r) PROVE AloneOwnsSlots'
  BY <1>3 DEF Resume
<1>4. ASSUME NEW r \in Requests, Unregister(r) PROVE AloneOwnsSlots'
  BY <1>4 DEF Unregister, history
<1>5. ASSUME NEW q \in Requests, Dispatch(q) PROVE AloneOwnsSlots'
  BY <1>5 DEF Dispatch, EventOfType, history
<1>6. ASSUME NEW r \in Requests, NotConnected(r) \/ WriteFails(r) \/ Timeout(r)
      PROVE  AloneOwnsSlots'
  BY <1>6 DEF NotConnected, WriteFails, Timeout, history
<1>7. ASSUME NEW q \in Requests, Lose(q) PROVE AloneOwnsSlots'
  BY <1>7 DEF Lose, history
<1>8. CASE UNCHANGED vars
  BY <1>8 DEF vars
<1> QED
  BY <1>1, <1>2, <1>3, <1>4, <1>5, <1>6, <1>7, <1>8 DEF Next, Call

\* A call whose type nobody else used meanwhile, and nobody is owed a response
\* of, returns its own response once its event is set: sharing a slot is the
\* only way to a wrong or missing one.
THEOREM OwnAnswerCorrect == Spec => []UncontendedGetsItsAnswer
<1>1. Init => EventOfType /\ AloneOwnsSlots
  BY CommandAssumption DEF Init, EventOfType, AloneOwnsSlots, UncontendedGetsItsAnswer
<1>2. AloneOwnsSlots => UncontendedGetsItsAnswer
  BY DEF AloneOwnsSlots
<1> QED
  BY <1>1, <1>2, EventStep, AloneStep, TypeCorrect, PTL DEF Spec
=============================================================================

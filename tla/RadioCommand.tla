------------------------------ MODULE RadioCommand ------------------------------
(* Commands to a radio modem: _send_command of openhop_core/hardware/          *)
(* tcp_radio.py and usb_radio.py.  A request registers an event under the      *)
(* response type it expects, so requests that expect the same type share one   *)
(* event slot and one data slot.                                               *)
(*                                                                             *)
(* The requests are tasks of the event loop; the only suspension point of one  *)
(* is its wait.  The reader is a thread of its own: it can run between any two *)
(* critical sections of a request, so a request that runs is cut into its      *)
(* critical sections ("sending", "leaving") and LoopFree keeps other requests  *)
(* out of them.                                                                *)

CONSTANTS
    Requests,   \* the calls of _send_command, each once
    Types,      \* response command bytes
    Expect,     \* expect_cmd of each request
    None        \* no event, no data, the result None

ASSUME CommandAssumption ==
    /\ Expect \in [Requests -> Types]
    /\ None \notin Requests

VARIABLES
    pc,          \* where each call is
    event,       \* _response_events: whose event is registered for a type
    data,        \* _response_data: the request a received response answers
    woken,       \* requests whose event is set
    unanswered,  \* frames the modem has and has not responded to
    result,      \* the request whose response a call returned, or None
    served,      \* calls whose wait was ended by their event (history)
    contended    \* calls that shared their type with another one (history)

history == <<served, contended>>
vars == <<pc, event, data, woken, unanswered, result, served, contended>>

Phases == {"new", "sending", "waiting", "leaving", "done"}

SameType(r) == {q \in Requests \ {r} : Expect[q] = Expect[r]}

\* No call is running: the loop may run another one.
LoopFree == \A r \in Requests : pc[r] \notin {"sending", "leaving"}

Goto(r, phase) == pc' = [pc EXCEPT ![r] = phase]

Init ==
    /\ pc = [r \in Requests |-> "new"]
    /\ event = [t \in Types |-> None]
    /\ data = [t \in Types |-> None]
    /\ woken = {} /\ unanswered = {}
    /\ result = [r \in Requests |-> None]
    /\ served = {} /\ contended = {}

-----------------------------------------------------------------------------
(* _send_command.                                                            *)

\* Without a socket or an open port: None.
NotConnected(r) ==
    /\ pc[r] = "new" /\ LoopFree
    /\ Goto(r, "done")
    /\ UNCHANGED <<event, data, woken, unanswered, result>>
    /\ UNCHANGED history

\* The event replaces whatever was registered; an older response is dropped.
Register(r) ==
    /\ pc[r] = "new" /\ LoopFree
    /\ Goto(r, "sending")
    /\ event' = [event EXCEPT ![Expect[r]] = r]
    /\ data' = [data EXCEPT ![Expect[r]] = None]
    /\ LET waiting == {q \in SameType(r) : pc[q] = "waiting"}
       IN  contended' = contended \cup waiting \cup
             (IF waiting # {} \/ SameType(r) \cap unanswered # {} THEN {r} ELSE {})
    /\ UNCHANGED <<woken, unanswered, result, served>>

Write(r) ==
    /\ pc[r] = "sending"
    /\ Goto(r, "waiting")
    /\ unanswered' = unanswered \cup {r}
    /\ UNCHANGED <<event, data, woken, result>>
    /\ UNCHANGED history

\* Fault: the early return of a failed write is outside the finally clause.
WriteFailsUncleaned(r) ==
    /\ pc[r] = "sending"
    /\ Goto(r, "done")
    /\ unanswered' \in {unanswered, unanswered \cup {r}}
    /\ UNCHANGED <<event, data, woken, result>>
    /\ UNCHANGED history

\* The write raises, or USB's flush after it, when the modem may have the frame.  TCP
\* returns None, USB lets the error pass; both leave through the finally clause.
WriteFails(r) ==
    /\ pc[r] = "sending"
    /\ Goto(r, "leaving")
    /\ unanswered' \in {unanswered, unanswered \cup {r}}
    /\ UNCHANGED <<event, data, woken, result>>
    /\ UNCHANGED history

\* The event is set: what the data slot holds by now is returned.
Resume(r) ==
    /\ pc[r] = "waiting" /\ LoopFree
    /\ r \in woken
    /\ Goto(r, "leaving")
    /\ result' = [result EXCEPT ![r] = data[Expect[r]]]
    /\ served' = served \cup {r}
    /\ UNCHANGED <<event, data, woken, unanswered, contended>>

\* Fault: the timer belongs to the registered event.
TimeoutOfRegistered(r) ==
    /\ pc[r] = "waiting" /\ LoopFree
    /\ event[Expect[r]] = r
    /\ Goto(r, "leaving")
    /\ UNCHANGED <<event, data, woken, unanswered, result>>
    /\ UNCHANGED history

\* The timer of wait_for fires.  The reader hands the event to the loop, so the
\* timer may be first even when the response has come.  A cancelled call leaves
\* in the same way.
Timeout(r) ==
    /\ pc[r] = "waiting" /\ LoopFree
    /\ Goto(r, "leaving")
    /\ UNCHANGED <<event, data, woken, unanswered, result>>
    /\ UNCHANGED history

\* Fault: only the event is removed.
UnregisterKeepsData(r) ==
    /\ pc[r] = "leaving"
    /\ Goto(r, "done")
    /\ event' = [event EXCEPT ![Expect[r]] = None]
    /\ UNCHANGED <<data, woken, unanswered, result>>
    /\ UNCHANGED history

\* Fault: every type's slots are removed.
UnregisterAll(r) ==
    /\ pc[r] = "leaving"
    /\ Goto(r, "done")
    /\ event' = [t \in Types |-> None]
    /\ data' = [t \in Types |-> None]
    /\ UNCHANGED <<woken, unanswered, result>>
    /\ UNCHANGED history

\* The finally clause: both slots of the type are removed, whoever owns them.
Unregister(r) ==
    /\ pc[r] = "leaving"
    /\ Goto(r, "done")
    /\ event' = [event EXCEPT ![Expect[r]] = None]
    /\ data' = [data EXCEPT ![Expect[r]] = None]
    /\ UNCHANGED <<woken, unanswered, result>>
    /\ UNCHANGED history

-----------------------------------------------------------------------------
(* The modem and the reader.                                                 *)

\* _dispatch_frame: a response is stored for its type and the registered event
\* is set.  Whether one that nobody waits for is stored is left open.
Dispatch(q) ==
    /\ q \in unanswered
    /\ unanswered' = unanswered \ {q}
    /\ LET t == Expect[q]
       IN  \/ /\ data' = [data EXCEPT ![t] = q]
              /\ woken' = woken \cup ({event[t]} \ {None})
           \/ /\ event[t] = None
              /\ UNCHANGED <<data, woken>>
    /\ UNCHANGED <<pc, event, result>>
    /\ UNCHANGED history

\* The modem does not respond.
Lose(q) ==
    /\ q \in unanswered
    /\ unanswered' = unanswered \ {q}
    /\ UNCHANGED <<pc, event, data, woken, result>>
    /\ UNCHANGED history

Call(r) ==
    \/ NotConnected(r) \/ Register(r) \/ Write(r) \/ WriteFails(r)
    \/ Resume(r) \/ Timeout(r) \/ Unregister(r)

Next == \E r \in Requests : Call(r) \/ Dispatch(r) \/ Lose(r)

Spec == Init /\ [][Next]_vars

\* The loop runs what is ready and timers fire.  The modem owes nothing.
FairSpec ==
    /\ Spec
    /\ \A r \in Requests :
         /\ WF_vars(Write(r) \/ WriteFails(r))
         /\ WF_vars(Timeout(r))
         /\ WF_vars(Unregister(r))

-----------------------------------------------------------------------------
(* Properties.                                                               *)

TypeOK ==
    /\ pc \in [Requests -> Phases]
    /\ event \in [Types -> Requests \cup {None}]
    /\ data \in [Types -> Requests \cup {None}]
    /\ woken \subseteq Requests
    /\ unanswered \subseteq Requests
    /\ result \in [Requests -> Requests \cup {None}]
    /\ served \subseteq Requests
    /\ contended \subseteq Requests

\* The slots never outlive the calls: an event that is registered belongs to a
\* call that is still under way, on every way out of _send_command.
RegisteredIsLive ==
    \A t \in Types :
        event[t] # None => pc[event[t]] \in {"sending", "waiting", "leaving"}

\* A response is consumed at most once: however calls overlap, are woken
\* together or time out, no two of them return the same response.
AnswerTakenOnce ==
    \A r, q \in Requests : r # q /\ result[r] # None => result[r] # result[q]

\* A call that met no other call of its type, and no late response to one, gets
\* its own response when its event is set: other types do not interfere, and
\* what earlier calls left in the slots does not reach it.
UncontendedGetsItsAnswer ==
    \A r \in served \ contended : result[r] = r

\* A call ends whatever the modem does and whoever removes its slots: the
\* timeout depends on neither.
RequestEnds == \A r \in Requests : pc[r] # "new" ~> pc[r] = "done"

=============================================================================

----------------------------- MODULE CompanionReplies -----------------------------
(* What a companion bridge does with messages that come back: the one callback *)
(* slot for command responses and the one for logins (companion/base_send.py,  *)
(* node/handlers/text.py and login_response.py), and the push callbacks of the *)
(* frame server and of others (companion/base_callbacks.py,                    *)
(* frame_server/push.py).                                                      *)
(*                                                                             *)
(* A request is a coroutine that fills the slot of its kind, sends, waits for  *)
(* its event and empties the slot however it ends.  It is suspended while it   *)
(* sends and while it waits; a message is handled in one step.                 *)
EXTENDS Naturals

CONSTANTS
    Commands,   \* send_repeater_command calls, each once
    Logins,     \* _start_login_request calls, each once
    Hash,       \* the destination hash of the contact each login asks
    Texts,      \* text messages that may come, each once
    Grants,     \* login responses that may come, each once
    About,      \* the request a message responds to, or None for a plain text
    Traffic,    \* the sets of requests and messages one behaviour may have
    Server,     \* the frame server's handler
    Others,     \* other listeners of the bridge
    MaxConnects,\* bound: connections of the frame server's client
    None

Requests == Commands \cup Logins
Messages == Texts \cup Grants
Listeners == Others \cup {Server}
Kinds == {"command", "login"}
KindOf(r) == IF r \in Commands THEN "command" ELSE "login"

ASSUME RepliesAssumption ==
    /\ Commands \cap Logins = {} /\ Texts \cap Grants = {}
    /\ None \notin Requests \cup Messages
    /\ About \in [Messages -> Requests \cup {None}]
    /\ \A m \in Messages :
         About[m] \in (IF m \in Texts THEN Commands \cup {None} ELSE Logins)
    /\ Traffic \subseteq SUBSET (Requests \cup Messages)
    /\ Server \notin Others
    /\ MaxConnects \in Nat

VARIABLES
    pc,         \* each request
    slot,       \* command_response_callback and login_callback: whose it is
    passwords,  \* the keys of _active_login_passwords
    got,        \* the message in each request's response data
    fate,       \* what became of each message
    callbacks,  \* how often each listener is in the bridge's lists
    connects,   \* connections so far (bound)
    heard,      \* how often each listener was called with each message (history)
    overlapped, \* requests that met another of their kind (history)
    usurped,    \* logins during which one of the same hash ended (history)
    cleared     \* listeners a connection removed (history)

repliesHistory == <<overlapped, usurped, cleared>>
repliesVars == <<pc, slot, passwords, got, fate, callbacks, connects, heard,
          overlapped, usurped, cleared>>

InFlight(r) == pc[r] \in {"sending", "waiting"}
Rivals(r) == {q \in Requests \ {r} : KindOf(q) = KindOf(r) /\ InFlight(q)}

RepliesInit ==
    /\ \E present \in Traffic :
         /\ pc = [r \in Requests |-> IF r \in present THEN "new" ELSE "absent"]
         /\ fate = [m \in Messages |-> IF m \in present THEN "coming" ELSE "absent"]
    /\ slot = [k \in Kinds |-> None]
    /\ passwords = {}
    /\ got = [r \in Requests |-> None]
    /\ callbacks = [l \in Listeners |-> 0]
    /\ connects = 0
    /\ heard = [m \in Messages |-> [l \in Listeners |-> 0]]
    /\ overlapped = {} /\ usurped = {} /\ cleared = {}

-----------------------------------------------------------------------------
(* Requests.                                                                 *)

\* The slot is taken whoever has it, the password stored, and the packet goes to
\* _send_packet.
Start(r) ==
    /\ pc[r] = "new"
    /\ pc' = [pc EXCEPT ![r] = "sending"]
    /\ slot' = [slot EXCEPT ![KindOf(r)] = r]
    /\ passwords' = IF r \in Logins THEN passwords \cup {Hash[r]} ELSE passwords
    /\ overlapped' = IF Rivals(r) = {} THEN overlapped
                                       ELSE overlapped \cup Rivals(r) \cup {r}
    /\ UNCHANGED <<got, fate, callbacks, connects, heard, usurped, cleared>>

Sent(r) ==
    /\ pc[r] = "sending"
    /\ pc' = [pc EXCEPT ![r] = "waiting"]
    /\ UNCHANGED <<slot, passwords, got, fate, callbacks, connects, heard>>
    /\ UNCHANGED repliesHistory

\* Fault: what ends empties both slots.
CleanUpBothSlots(r) ==
    /\ slot' = [k \in Kinds |-> None]
    /\ passwords' = IF r \in Logins THEN passwords \ {Hash[r]} ELSE passwords
    /\ usurped' = IF r \in Logins
                    THEN usurped \cup {q \in Rivals(r) : Hash[q] = Hash[r]}
                    ELSE usurped

\* The finally clause, and _cleanup_login: the slot is emptied whoever has it,
\* and the password of this hash removed.
CleanUp(r) ==
    /\ slot' = [slot EXCEPT ![KindOf(r)] = None]
    /\ passwords' = IF r \in Logins THEN passwords \ {Hash[r]} ELSE passwords
    /\ usurped' = IF r \in Logins
                    THEN usurped \cup {q \in Rivals(r) : Hash[q] = Hash[r]}
                    ELSE usurped

\* Fault: a send that raises returns past the cleanup.
SendFailsUncleaned(r) ==
    /\ pc[r] = "sending"
    /\ pc' = [pc EXCEPT ![r] = "failed"]
    /\ UNCHANGED <<slot, passwords, got, fate, callbacks, connects, heard>>
    /\ UNCHANGED repliesHistory

\* _send_packet raises or is cancelled: the call fails, whatever has come in the
\* meantime.  A login sends from _start_request, which is not quoted: whether its
\* cleanup runs then is left open.
SendFails(r) ==
    /\ pc[r] = "sending"
    /\ pc' = [pc EXCEPT ![r] = "failed"]
    /\ \/ CleanUp(r)
       \/ r \in Logins /\ UNCHANGED <<slot, passwords, usurped>>
    /\ UNCHANGED <<got, fate, callbacks, connects, heard, overlapped, cleared>>

\* The event is set, or the timeout comes first: the call returns what its
\* response data holds by then.
Return(r) ==
    /\ pc[r] = "waiting"
    /\ pc' = [pc EXCEPT ![r] = "returned"]
    /\ CleanUp(r)
    /\ UNCHANGED <<got, fate, callbacks, connects, heard, overlapped, cleared>>

\* The task is cancelled in its wait.
Cancel(r) ==
    /\ pc[r] = "waiting"
    /\ pc' = [pc EXCEPT ![r] = "cancelled"]
    /\ CleanUp(r)
    /\ UNCHANGED <<got, fate, callbacks, connects, heard, overlapped, cleared>>

-----------------------------------------------------------------------------
(* Messages.                                                                 *)

\* A response comes after its request was started.
MayCome(m) ==
    /\ fate[m] = "coming"
    /\ About[m] # None => pc[About[m]] \notin {"absent", "new"}

\* The slot's callback takes the message, of whatever contact: a later one
\* replaces it in the response data.
Captured(m, k) ==
    /\ slot[k] # None
    /\ got' = [got EXCEPT ![slot[k]] = m]
    /\ fate' = [fate EXCEPT ![m] = "captured"]
    /\ UNCHANGED <<pc, slot, passwords, callbacks, connects, heard>>
    /\ UNCHANGED repliesHistory

CaptureText(m) == m \in Texts /\ MayCome(m) /\ Captured(m, "command")

\* Without a command under way a text is published to every listener.
PublishText(m) ==
    /\ m \in Texts /\ MayCome(m)
    /\ slot["command"] = None
    /\ fate' = [fate EXCEPT ![m] = "published"]
    /\ heard' = [heard EXCEPT ![m] = callbacks]
    /\ UNCHANGED <<pc, slot, passwords, got, callbacks, connects>>
    /\ UNCHANGED repliesHistory

CaptureGrant(m) == m \in Grants /\ MayCome(m) /\ Captured(m, "login")

\* A login response nobody waits for, or whose password is gone, has no effect.
DropGrant(m) ==
    /\ m \in Grants /\ MayCome(m)
    /\ slot["login"] = None \/ Hash[About[m]] \notin passwords
    /\ fate' = [fate EXCEPT ![m] = "dropped"]
    /\ UNCHANGED <<pc, slot, passwords, got, callbacks, connects, heard>>
    /\ UNCHANGED repliesHistory

-----------------------------------------------------------------------------
(* Listeners.                                                                *)

\* Another component registers, once: on_message_event and its like.
Subscribe(l) ==
    /\ l \in Others /\ callbacks[l] = 0 /\ l \notin cleared
    /\ callbacks' = [callbacks EXCEPT ![l] = 1]
    /\ UNCHANGED <<pc, slot, passwords, got, fate, connects, heard>>
    /\ UNCHANGED repliesHistory

\* Fault: the handlers of the previous connection stay.
SetupWithoutUnset ==
    /\ connects < MaxConnects
    /\ connects' = connects + 1
    /\ callbacks' = [callbacks EXCEPT ![Server] = @ + 1]
    /\ UNCHANGED <<pc, slot, passwords, got, fate, heard>>
    /\ UNCHANGED repliesHistory

\* _setup_push_callbacks: everything is cleared, then the server's own handlers
\* are registered.
SetupPushCallbacks ==
    /\ connects < MaxConnects
    /\ connects' = connects + 1
    /\ callbacks' = [l \in Listeners |-> IF l = Server THEN 1 ELSE 0]
    /\ cleared' = cleared \cup {l \in Others : callbacks[l] > 0}
    /\ UNCHANGED <<pc, slot, passwords, got, fate, heard, overlapped, usurped>>

RepliesNext ==
    \/ \E r \in Requests :
         Start(r) \/ Sent(r) \/ SendFails(r) \/ Return(r) \/ Cancel(r)
    \/ \E m \in Messages :
         CaptureText(m) \/ PublishText(m) \/ CaptureGrant(m) \/ DropGrant(m)
    \/ \E l \in Others : Subscribe(l)
    \/ SetupPushCallbacks

RepliesSpec == RepliesInit /\ [][RepliesNext]_repliesVars

-----------------------------------------------------------------------------
(* Properties.                                                               *)

RepliesTypeOK ==
    /\ pc \in [Requests -> {"absent", "new", "sending", "waiting",
                            "returned", "failed", "cancelled"}]
    /\ slot \in [Kinds -> Requests \cup {None}]
    /\ \A k \in Kinds : slot[k] # None => KindOf(slot[k]) = k
    /\ passwords \subseteq {Hash[r] : r \in Logins}
    /\ got \in [Requests -> Messages \cup {None}]
    /\ fate \in [Messages -> {"absent", "coming", "captured", "published", "dropped"}]
    /\ callbacks \in [Listeners -> Nat] /\ connects \in 0..MaxConnects
    /\ heard \in [Messages -> [Listeners -> Nat]]
    /\ overlapped \subseteq Requests /\ usurped \subseteq Requests
    /\ cleared \subseteq Others

\* An ordinary message is taken for a response, and kept from the listeners, only
\* while a request is under way: no end of a command, by an exception, a
\* cancellation or a timeout, leaves its callback behind, and so no overlap of
\* requests leaves the slot to one that is over.  A login may leave its own behind
\* only where its send failed.
SlotMeansInFlight ==
    \A k \in Kinds :
        slot[k] # None =>
            InFlight(slot[k]) \/ (slot[k] \in Logins /\ pc[slot[k]] = "failed")

\* "Login completion and cleanup must be scoped to the exact destination/request
\* that created the waiter" (BUG-038, and BUG-037 for commands) holds except for
\* what it says of overlaps: a request loses its slot only if it met another of
\* its kind, and a login its password only if one of the same destination hash
\* ended during it.
LosesOnlyByOverlap ==
    \A r \in Requests :
        InFlight(r) =>
            /\ slot[KindOf(r)] = r \/ r \in overlapped
            /\ r \in Logins => Hash[r] \in passwords \/ r \in usurped

\* A listener that has registered once is called at most once with a message,
\* and the frame server after any number of connections: "so they don't
\* accumulate across reconnections".
HeardOnce == \A m \in Messages, l \in Listeners : heard[m][l] <= 1
=============================================================================

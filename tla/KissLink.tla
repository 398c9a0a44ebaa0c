------------------------------ MODULE KissLink ------------------------------
(***************************************************************************)
(* The sending side of a KISS modem: connect, disconnect,                  *)
(* send_config_command and the transmit worker of                          *)
(* openhop_core/hardware/kiss_serial_wrapper.py.  connect starts a worker  *)
(* before it configures the modem and leaves it running when that fails;   *)
(* a worker that dies leaves is_connected set.  Its one caller may connect *)
(* again, connected or not, and every worker takes frames from the one     *)
(* buffer.                                                                 *)
(***************************************************************************)
EXTENDS Naturals, Sequences, FiniteSets, Functions

CONSTANTS
    Command,    \* the configuration commands of one behaviour, each sent once
    Parameter,  \* the settings of the modem
    Sets,       \* the parameter each command sets, to a value of its own
    None,       \* the parameter has its initial value; no frame
    BufferSize, \* TX_BUFFER_SIZE
    MaxConnects \* bound: the calls of connect that open the port

ASSUME LinkAssumption ==
    /\ Sets \in [Command -> Parameter]
    /\ None \notin Command
    /\ BufferSize \in Nat \ {0}
    /\ MaxConnects \in Nat

Worker == 1 .. MaxConnects      \* the worker of each connect

VARIABLES
    connected,  \* self.is_connected
    stop,       \* self.stop_event
    open,       \* self.serial_conn.is_open
    owner,      \* what the caller of connect and disconnect is doing
    last,       \* the connects that opened the port so far; tx_thread is its worker
    worker,     \* what each worker does
    hand,       \* the frame a worker has taken
    buffer,     \* self.tx_buffer
    config,     \* self.config
    new,        \* commands not sent yet
    accepted,   \* the commands answered True, in order (history)
    wire,       \* the commands written to the port, in order (history)
    overrun,    \* the commands that found the buffer full (buffer_overruns counts them)
    died,       \* a worker has ended by an exception (history)
    doubled,    \* two workers have been running at once (history)
    left        \* workers a call went on without, while they ran (history)

history == <<accepted, wire, overrun, died, doubled, left>>
linkVars == <<connected, stop, open, owner, last, worker, hand, buffer, config, new,
          accepted, wire, overrun, died, doubled, left>>

Alive(g) == worker[g] \in {"loop", "popping", "writing"}
Running == {g \in Worker : Alive(g)}

LinkInit ==
    /\ connected = FALSE
    /\ stop = FALSE
    /\ open = FALSE
    /\ owner = "down"
    /\ last = 0
    /\ worker = [g \in Worker |-> "none"]
    /\ hand = [g \in Worker |-> None]
    /\ buffer = << >>
    /\ config = [p \in Parameter |-> None]
    /\ new = Command
    /\ accepted = << >>
    /\ wire = << >>
    /\ overrun = {}
    /\ died = FALSE
    /\ doubled = FALSE
    /\ left = {}

\* A call goes on without the worker of the last connect, which may be running.  When
\* the adapter is down, the call before has left it or seen it end.
LeaveBehind == left' = left \cup {g \in Running : g = last /\ owner # "down"}

-----------------------------------------------------------------------------
(* connect and disconnect *)

\* Serial() raises: the adapter is disconnected, and whatever ran before stops at
\* its next look at the flag.
OpenFails ==
    /\ owner \in {"down", "up"}
    /\ owner' = "down"
    /\ connected' = FALSE
    /\ LeaveBehind
    /\ UNCHANGED <<stop, open, last, worker, hand, buffer, config, new, accepted, wire,
                   overrun, died, doubled>>

\* A connect that leaves the stop flag of the last disconnect.
OpenStopped ==
    /\ owner \in {"down", "up"}
    /\ last < MaxConnects
    /\ connected' = TRUE
    /\ open' = TRUE
    /\ last' = last + 1
    /\ worker' = [worker EXCEPT ![last + 1] = "loop"]
    /\ owner' = "configuring"
    /\ doubled' = (doubled \/ Running # {})
    /\ LeaveBehind
    /\ UNCHANGED <<stop, hand, buffer, config, new, accepted, wire, overrun, died>>

\* The port is opened, the flags are set and the worker is started, all before the
\* configuration; nothing asks whether the adapter is connected already.
Open ==
    /\ owner \in {"down", "up"}
    /\ last < MaxConnects
    /\ connected' = TRUE
    /\ stop' = FALSE
    /\ open' = TRUE
    /\ last' = last + 1
    /\ worker' = [worker EXCEPT ![last + 1] = "loop"]
    /\ owner' = "configuring"
    /\ doubled' = (doubled \/ Running # {})
    /\ LeaveBehind
    /\ UNCHANGED <<hand, buffer, config, new, accepted, wire, overrun, died>>

\* Without auto_configure, or when the modem takes its configuration.
Configured ==
    /\ owner = "configuring"
    /\ owner' = "up"
    /\ UNCHANGED <<connected, stop, open, last, worker, hand, buffer, config, new,
                   history>>

\* configure_radio_and_enter_kiss answers False: so does connect, and nothing else.
ConfigureFails ==
    /\ owner = "configuring"
    /\ owner' = "down"
    /\ LeaveBehind
    /\ UNCHANGED <<connected, stop, open, last, worker, hand, buffer, config, new,
                   accepted, wire, overrun, died, doubled>>

\* It raises: connect takes the flag back; the worker will see it.
ConfigureRaises ==
    /\ owner = "configuring"
    /\ owner' = "down"
    /\ connected' = FALSE
    /\ LeaveBehind
    /\ UNCHANGED <<stop, open, last, worker, hand, buffer, config, new, accepted, wire,
                   overrun, died, doubled>>

\* A disconnect that waits for no thread.
DisconnectUnjoined ==
    /\ owner \in {"up", "down"}
    /\ connected' = FALSE
    /\ stop' = TRUE
    /\ owner' = "closing"
    /\ UNCHANGED <<open, last, worker, hand, buffer, config, new, history>>

\* disconnect takes the flag back, asks the threads to stop and waits for them.
Disconnect ==
    /\ owner \in {"up", "down"}
    /\ connected' = FALSE
    /\ stop' = TRUE
    /\ owner' = "joining"
    /\ UNCHANGED <<open, last, worker, hand, buffer, config, new, history>>

\* "Wait for threads to finish": the waits themselves are not quoted.  They end with
\* the thread of the last connect, or they have a timeout and are given up.
Joined ==
    /\ owner = "joining"
    /\ last \notin Running
    /\ owner' = "closing"
    /\ UNCHANGED <<connected, stop, open, last, worker, hand, buffer, config, new, history>>

JoinTimesOut ==
    /\ owner = "joining"
    /\ last \in Running
    /\ owner' = "closing"
    /\ LeaveBehind
    /\ UNCHANGED <<connected, stop, open, last, worker, hand, buffer, config, new,
                   accepted, wire, overrun, died, doubled>>

\* The port is closed, whoever is still writing to it.
Close ==
    /\ owner = "closing"
    /\ open' = FALSE
    /\ owner' = "down"
    /\ UNCHANGED <<connected, stop, last, worker, hand, buffer, config, new, history>>

-----------------------------------------------------------------------------
(* send_config_command *)

\* The frame is queued, or the buffer is full.
Queue(c) ==
    IF Len(buffer) < BufferSize
    THEN buffer' = Append(buffer, c) /\ accepted' = Append(accepted, c) /\ UNCHANGED overrun
    ELSE overrun' = overrun \cup {c} /\ UNCHANGED <<buffer, accepted>>

\* A command that takes the value before it asks for the connection.
CommandUnasked(c) ==
    /\ c \in new
    /\ new' = new \ {c}
    /\ config' = [config EXCEPT ![Sets[c]] = c]
    /\ IF connected THEN Queue(c) ELSE UNCHANGED <<buffer, accepted, overrun>>
    /\ UNCHANGED <<connected, stop, open, owner, last, worker, hand, wire, died, doubled,
                   left>>

\* Not connected: False, and nothing is changed.  Otherwise the local configuration
\* takes the value first, whether or not there is room for the frame.
SendConfigCommand(c) ==
    /\ c \in new
    /\ new' = new \ {c}
    /\ IF connected
       THEN config' = [config EXCEPT ![Sets[c]] = c] /\ Queue(c)
       ELSE UNCHANGED <<config, buffer, accepted, overrun>>
    /\ UNCHANGED <<connected, stop, open, owner, last, worker, hand, wire, died, doubled,
                   left>>

-----------------------------------------------------------------------------
(* _tx_worker *)

\* A worker that leaves the last frame in the buffer.
LookForSeveral(g) ==
    /\ worker[g] = "loop"
    /\ \/ /\ ~stop /\ connected /\ Len(buffer) > 1
          /\ worker' = [worker EXCEPT ![g] = "popping"]
       \/ /\ stop \/ ~connected
          /\ worker' = [worker EXCEPT ![g] = "gone"]
    /\ UNCHANGED <<connected, stop, open, owner, last, hand, buffer, config, new, history>>

\* The loop condition, and whether there is a frame.
Look(g) ==
    /\ worker[g] = "loop"
    /\ \/ /\ ~stop /\ connected /\ buffer # << >>
          /\ worker' = [worker EXCEPT ![g] = "popping"]
       \/ /\ stop \/ ~connected
          /\ worker' = [worker EXCEPT ![g] = "gone"]
    /\ UNCHANGED <<connected, stop, open, owner, last, hand, buffer, config, new, history>>

\* popleft, which raises when another worker was faster: the worker ends.
Pop(g) ==
    /\ worker[g] = "popping"
    /\ IF buffer = << >>
       THEN /\ worker' = [worker EXCEPT ![g] = "gone"]
            /\ died' = TRUE
            /\ UNCHANGED <<hand, buffer>>
       ELSE /\ hand' = [hand EXCEPT ![g] = Head(buffer)]
            /\ buffer' = Tail(buffer)
            /\ worker' = [worker EXCEPT ![g] = "writing"]
            /\ UNCHANGED died
    /\ UNCHANGED <<connected, stop, open, owner, last, config, new, accepted, wire,
                   overrun, doubled, left>>

\* The frame is written if the port is open, and dropped with a warning if not.
Write(g) ==
    /\ worker[g] = "writing"
    /\ wire' = IF open THEN Append(wire, hand[g]) ELSE wire
    /\ hand' = [hand EXCEPT ![g] = None]
    /\ worker' = [worker EXCEPT ![g] = "loop"]
    /\ UNCHANGED <<connected, stop, open, owner, last, buffer, config, new, accepted,
                   overrun, died, doubled, left>>

\* A frame that could not be written is put back at the end of the buffer.
WriteFailsRequeued(g) ==
    /\ worker[g] = "writing"
    /\ open
    /\ buffer' = IF Len(buffer) < BufferSize THEN Append(buffer, hand[g]) ELSE buffer
    /\ hand' = [hand EXCEPT ![g] = None]
    /\ worker' = [worker EXCEPT ![g] = "loop"]
    /\ UNCHANGED <<connected, stop, open, owner, last, config, new, history>>

\* write or flush raises, the port being broken or closed by now: the worker ends with
\* its frame, which may have reached the port, and is_connected stays set.
WriteFails(g) ==
    /\ worker[g] = "writing"
    /\ wire' \in {wire, Append(wire, hand[g])}
    /\ hand' = [hand EXCEPT ![g] = None]
    /\ worker' = [worker EXCEPT ![g] = "gone"]
    /\ died' = TRUE
    /\ UNCHANGED <<connected, stop, open, owner, last, buffer, config, new, accepted,
                   overrun, doubled, left>>

WorkerStep(g) == Look(g) \/ Pop(g) \/ Write(g) \/ WriteFails(g)

LinkNext ==
    \/ OpenFails \/ Open \/ Configured \/ ConfigureFails \/ ConfigureRaises
    \/ Disconnect \/ Joined \/ JoinTimesOut \/ Close
    \/ \E c \in Command : SendConfigCommand(c)
    \/ \E g \in Worker : WorkerStep(g)

LinkSpec == LinkInit /\ [][LinkNext]_linkVars

\* The workers are threads: one that can go on does.
LinkFairSpec == LinkSpec /\ \A g \in Worker : WF_linkVars(WorkerStep(g))

-----------------------------------------------------------------------------
(* Properties *)

LinkTypeOK ==
    /\ {connected, stop, open, died, doubled} \subseteq BOOLEAN
    /\ owner \in {"down", "configuring", "up", "joining", "closing"}
    /\ left \subseteq Worker
    /\ last \in 0 .. MaxConnects
    /\ worker \in [Worker -> {"none", "loop", "popping", "writing", "gone"}]
    /\ hand \in [Worker -> Command \cup {None}]
    /\ \A g \in Worker : worker[g] = "writing" => hand[g] # None
    /\ buffer \in Seq(Command) /\ Len(buffer) <= BufferSize
    /\ config \in [Parameter -> Command \cup {None}]
    /\ new \subseteq Command
    /\ accepted \in Seq(Command)
    /\ wire \in Seq(Command)
    /\ overrun \subseteq Command

\* A worker runs beside a later one only if a call went on without it: the connect
\* that started it answered False, a disconnect gave up waiting for it, or the adapter
\* was connected again without a disconnect.  No other order of calls, answers and
\* last looks at the flags leaves two workers on one buffer.
SecondWorkerWasLeftBehind == Running \ {last} \subseteq left

\* One command was accepted before another.
Before(c, d) ==
    \E k, l \in DOMAIN accepted : k < l /\ accepted[k] = c /\ accepted[l] = d

\* No frame is written twice, not even by two workers, as one takes it; and frames
\* reach the port in the order in which they were accepted, whatever is lost between,
\* as long as no second worker has run: two of them write in either order.
WrittenOnceInOrder ==
    /\ \A i, j \in DOMAIN wire : wire[i] = wire[j] => i = j
    /\ ~doubled => \A i, j \in DOMAIN wire : i < j => Before(wire[i], wire[j])

\* The local configuration holds, for each parameter, the last command that was
\* accepted, or a later one that found the buffer full and was answered False; a
\* command sent while disconnected leaves no trace.
ConfigLeavesModemOnlyByOverrun ==
    \A p \in Parameter :
        \/ config[p] \in overrun
        \/ config[p] = None /\ \A i \in DOMAIN accepted : Sets[accepted[i]] # p
        \/ \E i \in DOMAIN accepted :
              /\ accepted[i] = config[p]
              /\ \A j \in DOMAIN accepted : j > i => Sets[accepted[j]] # p

\* While is_connected is set there is a worker to serve the buffer, unless one has
\* died of an exception: neither a failed configuration, nor a second connect, nor the
\* end of an older worker leaves the adapter connected with nobody behind it.
ConnectedIsServed == connected /\ ~died => Alive(last)

\* A queued frame is taken by a worker, unless one has died or the adapter is
\* disconnected: nothing else leaves a frame in the buffer.
QueuedIsTaken ==
    \A c \in Command :
        c \in Range(buffer) ~> c \notin Range(buffer) \/ ~connected \/ died
=============================================================================

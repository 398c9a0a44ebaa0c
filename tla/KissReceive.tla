---------------------------- MODULE KissReceive ----------------------------
(***************************************************************************)
(* Reception over a KISS modem: wait_for_rx and the receiving thread of    *)
(* openhop_core/hardware/kiss_serial_wrapper.py.  A wait runs on the event *)
(* loop: it puts a callback of its own in front of the one it finds and    *)
(* puts the one it found back when it ends.  The thread takes whatever     *)
(* callback is installed when a data frame is complete and runs it, and    *)
(* with it the callbacks it closes over, while the loop goes on.           *)
(*                                                                         *)
(* The installed callback is the sequence of the waits one calls after the *)
(* other; behind the last one is the application's callback, which is      *)
(* installed before the first wait.  What set_result does from a thread    *)
(* depends on the loop: asyncio's debug mode checks the thread and raises. *)
(***************************************************************************)
EXTENDS Naturals, Sequences, FiniteSets, Functions

CONSTANTS
    Waiter,     \* the calls of wait_for_rx, each once
    MaxFrames   \* bound: the data frames of one behaviour

ASSUME ReceiveAssumption == IsFiniteSet(Waiter) /\ MaxFrames \in Nat

VARIABLES
    debug,      \* the loop is in debug mode, for good
    pc,         \* where each call is
    callback,   \* self.on_frame_received
    original,   \* original_callback of each call
    future,     \* the future of each call
    ready,      \* calls the loop has been told to resume
    asleep,     \* the loop sleeps in its selector
    chain,      \* what the thread has still to call for its frame
    phase,      \* what the thread does
    frames,     \* data frames so far
    heard,      \* frames the application's callback was called with
    spoiled,    \* waits whose set_result raised (history)
    older       \* the waits each wait began on top of (history)

receiveVars == <<debug, pc, callback, original, future, ready, asleep, chain, phase,
          frames, heard, spoiled, older>>

ReceiveInit ==
    /\ debug \in BOOLEAN
    /\ pc = [w \in Waiter |-> "new"]
    /\ callback = << >>
    /\ original = [w \in Waiter |-> << >>]
    /\ future = [w \in Waiter |-> "none"]
    /\ ready = {}
    /\ asleep = FALSE
    /\ chain = << >>
    /\ phase = "reading"
    /\ frames = 0
    /\ heard = 0
    /\ spoiled = {}
    /\ older = [w \in Waiter |-> {}]

Waiting == {w \in Waiter : pc[w] = "waiting"}

-----------------------------------------------------------------------------
(* The event loop *)

\* Up to the await: a frame that comes between the assignment of the callback and the
\* await of the future is taken for one that comes after it.
Start(w) ==
    /\ ~asleep
    /\ pc[w] = "new"
    /\ future' = [future EXCEPT ![w] = "pending"]
    /\ original' = [original EXCEPT ![w] = callback]
    /\ callback' = <<w>> \o callback
    /\ older' = [older EXCEPT ![w] = Waiting]
    /\ pc' = [pc EXCEPT ![w] = "waiting"]
    /\ UNCHANGED <<debug, ready, asleep, chain, phase, frames, heard, spoiled>>

\* The task is cancelled, or its wait times out: a future that has no result yet is
\* cancelled and the task resumed.  After the result it changes nothing: the task is
\* to be resumed already or, on a debug loop, waits for a future that tells nobody.
Cancel(w) ==
    /\ ~asleep
    /\ pc[w] = "waiting"
    /\ future[w] = "pending"
    /\ future' = [future EXCEPT ![w] = "cancelled"]
    /\ ready' = ready \cup {w}
    /\ UNCHANGED <<debug, pc, callback, original, asleep, chain, phase, frames, heard,
                   spoiled, older>>

\* The end of a wait that puts the application's callback back.
ResumeToApplication(w) ==
    /\ ~asleep
    /\ w \in ready
    /\ pc[w] = "waiting"
    /\ ready' = ready \ {w}
    /\ callback' = << >>
    /\ pc' = [pc EXCEPT ![w] = "done"]
    /\ UNCHANGED <<debug, original, future, asleep, chain, phase, frames, heard,
                   spoiled, older>>

\* The wait ends, with the frame or with CancelledError: its finally clause puts
\* back what the wait found, whatever was installed since.
Resume(w) ==
    /\ ~asleep
    /\ w \in ready
    /\ pc[w] = "waiting"
    /\ ready' = ready \ {w}
    /\ callback' = original[w]
    /\ pc' = [pc EXCEPT ![w] = "done"]
    /\ UNCHANGED <<debug, original, future, asleep, chain, phase, frames, heard,
                   spoiled, older>>

\* With nothing to run the loop sleeps until a timer or another event wakes it.
Sleep ==
    /\ ~asleep
    /\ ready = {}
    /\ asleep' = TRUE
    /\ UNCHANGED <<debug, pc, callback, original, future, ready, chain, phase, frames,
                   heard, spoiled, older>>

Wake ==
    /\ asleep
    /\ asleep' = FALSE
    /\ UNCHANGED <<debug, pc, callback, original, future, ready, chain, phase, frames,
                   heard, spoiled, older>>

-----------------------------------------------------------------------------
(* The receiving thread *)

\* A data frame is complete: the thread reads the installed callback and calls it.
Frame ==
    /\ phase = "reading"
    /\ frames < MaxFrames
    /\ frames' = frames + 1
    /\ chain' = callback
    /\ phase' = "calling"
    /\ UNCHANGED <<debug, pc, callback, original, future, ready, asleep, heard,
                   spoiled, older>>

\* A temporary callback that does not ask whether its future is done.
AskBlindly ==
    /\ phase = "calling"
    /\ chain # << >>
    /\ phase' = "setting"
    /\ UNCHANGED <<debug, pc, callback, original, future, ready, asleep, chain,
                   frames, heard, spoiled, older>>

\* temp_callback asks whether its future is done; if it is, as that of a wait that
\* ended and left its callback installed, it only calls the next one.
Ask ==
    /\ phase = "calling"
    /\ chain # << >>
    /\ IF future[Head(chain)] = "pending"
       THEN phase' = "setting" /\ UNCHANGED chain
       ELSE chain' = Tail(chain) /\ UNCHANGED phase
    /\ UNCHANGED <<debug, pc, callback, original, future, ready, asleep, frames,
                   heard, spoiled, older>>

\* What set_result, called from this thread, raises for: a future cancelled since it
\* was asked (InvalidStateError) and, on a debug loop, one with a task behind it
\* (RuntimeError).
Raises(w) == future[w] # "pending" \/ debug

\* A completion the loop is never told of.
SetResultSilently ==
    /\ phase = "setting"
    /\ LET w == Head(chain)
       IN  /\ future' = [future EXCEPT ![w] = IF @ = "pending" THEN "result" ELSE @]
           /\ IF Raises(w)
              THEN spoiled' = spoiled \cup {w} /\ chain' = << >> /\ phase' = "reading"
              ELSE chain' = Tail(chain) /\ phase' = "calling" /\ UNCHANGED spoiled
    /\ UNCHANGED <<debug, pc, callback, original, ready, asleep, frames, heard,
                   older>>

\* set_result completes the future, puts the task into the loop's queue and does not
\* wake the loop.  If it raises, the callbacks behind it, the application's included,
\* do not see the frame; on a debug loop the future is completed by then, and its
\* task forgotten.
SetResult ==
    /\ phase = "setting"
    /\ LET w == Head(chain)
       IN  /\ future' = [future EXCEPT ![w] = IF @ = "pending" THEN "result" ELSE @]
           /\ IF Raises(w)
              THEN /\ spoiled' = spoiled \cup {w}
                   /\ chain' = << >>
                   /\ phase' = "reading"
                   /\ UNCHANGED ready
              ELSE /\ ready' = ready \cup {w}
                   /\ chain' = Tail(chain)
                   /\ phase' = "calling"
                   /\ UNCHANGED spoiled
    /\ UNCHANGED <<debug, pc, callback, original, asleep, frames, heard, older>>

\* The end of the chain: the callback the application installed.
Deliver ==
    /\ phase = "calling"
    /\ chain = << >>
    /\ heard' = heard + 1
    /\ phase' = "reading"
    /\ UNCHANGED <<debug, pc, callback, original, future, ready, asleep, chain,
                   frames, spoiled, older>>

ReceiveNext ==
    \/ \E w \in Waiter : Start(w) \/ Cancel(w) \/ Resume(w)
    \/ Sleep \/ Wake
    \/ Frame \/ Ask \/ SetResult \/ Deliver

ReceiveSpec == ReceiveInit /\ [][ReceiveNext]_receiveVars

\* The loop runs what is ready when it is awake, and the thread finishes a frame it
\* has; nothing wakes a loop that sleeps.
ReceiveFairSpec ==
    /\ ReceiveSpec
    /\ \A w \in Waiter : WF_receiveVars(Resume(w))
    /\ WF_receiveVars(Ask \/ SetResult \/ Deliver)

-----------------------------------------------------------------------------
(* Properties *)

ReceiveTypeOK ==
    /\ debug \in BOOLEAN
    /\ pc \in [Waiter -> {"new", "waiting", "done"}]
    /\ callback \in Seq(Waiter)
    /\ original \in [Waiter -> Seq(Waiter)]
    /\ future \in [Waiter -> {"none", "pending", "result", "cancelled"}]
    /\ ready \subseteq Waiter
    /\ asleep \in BOOLEAN
    /\ chain \in Seq(Waiter)
    /\ phase \in {"reading", "calling", "setting"}
    /\ phase = "setting" => chain # << >>
    /\ frames \in 0 .. MaxFrames /\ heard \in Nat
    /\ spoiled \subseteq Waiter
    /\ older \in [Waiter -> SUBSET Waiter]

Cancelled == {w \in Waiter : future[w] = "cancelled"}
Completed == {w \in Waiter : future[w] = "result"}

\* The application's callback misses a frame only where a wait's set_result raised,
\* once for each such wait: a wait cancelled between the question and set_result and,
\* on a debug loop, every wait that got a frame (BUG-031).  Callbacks of waits that are
\* over, which stay installed, pass every later frame on.
ApplicationHearsTheRest ==
    /\ spoiled \ Cancelled = IF debug THEN Completed ELSE {}
    /\ heard + Cardinality(spoiled) = frames - (IF phase = "reading" THEN 0 ELSE 1)

\* A wait whose callback is not installed, and that will therefore see no further
\* frame, began on top of another wait that has ended since: waits that do not
\* overlap, and waits that end in the reverse order of their beginnings, never lose
\* their callback.
ForgottenNeedsOverlap ==
    \A w \in Waiting :
        w \in Range(callback) \/ \E q \in older[w] : pc[q] = "done"

\* A wait that the loop can be told of: cancelled, or completed without the debug mode.
CanReturn(w) == future[w] = "cancelled" \/ (future[w] = "result" /\ ~debug)

\* The loop has been told of exactly those, by the cancellation or by the thread that
\* set the result: no completion is lost, except on a debug loop, where none arrives,
\* and no wait is resumed without one.
ReadyIsFinished == ready = {w \in Waiting : CanReturn(w)}

\* A wait that was cancelled, or has its frame on a loop without the debug mode,
\* returns if something wakes the loop again and again: the frame itself does not (a
\* loop that has nothing else to do sleeps on with a completed wait in its queue).  On
\* a debug loop a wait that got a frame never returns.
CompletedReturns ==
    \A w \in Waiter : []<>(~asleep) => (CanReturn(w) ~> pc[w] = "done")
=============================================================================

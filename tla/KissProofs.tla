------------------------------ MODULE KissProofs ------------------------------
(***************************************************************************)
(* Theorems about the two halves of the KISS adapter: KissReceive, for any *)
(* finite set of waits and number of frames, and KissLink, for any         *)
(* commands, buffer size and number of connects.  The two have no variable *)
(* or constant in common.                                                  *)
(***************************************************************************)
EXTENDS KissReceive, KissLink, FiniteSetTheorems, TLAPS

-----------------------------------------------------------------------------
(* Reception: KissReceive.                                                   *)

\* Every variable keeps its type, however waits, cancellations and frames interleave.
THEOREM ReceiveTypeCorrect == ReceiveSpec => []ReceiveTypeOK
<1>1. ReceiveInit => ReceiveTypeOK
  <2>1. << >> \in Seq(Waiter) /\ MaxFrames \in Nat
    BY ReceiveAssumption
  <2>2. [w \in Waiter |-> << >>] \in [Waiter -> Seq(Waiter)]
    BY <2>1
  <2>3. 0 \in 0 .. MaxFrames
    BY <2>1
  <2> SUFFICES ASSUME ReceiveInit PROVE ReceiveTypeOK
    OBVIOUS
  <2>4. original \in [Waiter -> Seq(Waiter)] /\ chain \in Seq(Waiter) /\ callback \in Seq(Waiter)
    BY <2>1, <2>2 DEF ReceiveInit
  <2>5. frames \in 0 .. MaxFrames /\ heard \in Nat
    BY <2>3 DEF ReceiveInit
  <2> QED BY <2>4, <2>5 DEF ReceiveInit, ReceiveTypeOK
<1>2. ReceiveTypeOK /\ [ReceiveNext]_receiveVars => ReceiveTypeOK'
  <2> SUFFICES ASSUME ReceiveTypeOK, [ReceiveNext]_receiveVars PROVE ReceiveTypeOK'
    OBVIOUS
  <2> USE ReceiveAssumption DEF ReceiveTypeOK
  <2>1. ASSUME NEW w \in Waiter, Start(w) PROVE ReceiveTypeOK'
    <3>1. <<w>> \o callback \in Seq(Waiter)
      OBVIOUS
    <3>2. Waiting \subseteq Waiter
      BY DEF Waiting
    <3> QED BY <2>1, <3>1, <3>2 DEF Start
  <2>2. ASSUME NEW w \in Waiter, Cancel(w) PROVE ReceiveTypeOK'
    BY <2>2 DEF Cancel
  <2>3. ASSUME NEW w \in Waiter, Resume(w) PROVE ReceiveTypeOK'
    BY <2>3 DEF Resume
  <2>4. CASE Sleep \/ Wake
    BY <2>4 DEF Sleep, Wake
  <2>5. CASE Frame
    BY <2>5 DEF Frame
  <2>6. CASE Ask
    <3>1. chain # << >> => Tail(chain) \in Seq(Waiter)
      OBVIOUS
    <3> QED BY <2>6, <3>1 DEF Ask
  <2>7. CASE SetResult
    <3>1. chain # << >> => Head(chain) \in Waiter /\ Tail(chain) \in Seq(Waiter)
      OBVIOUS
    <3>2. << >> \in Seq(Waiter)
      OBVIOUS
    <3> QED BY <2>7, <3>1, <3>2 DEF SetResult
  <2>8. CASE Deliver
    BY <2>8 DEF Deliver
  <2>9. CASE UNCHANGED receiveVars
    BY <2>9 DEF receiveVars
  <2> QED
    BY <2>1, <2>2, <2>3, <2>4, <2>5, <2>6, <2>7, <2>8, <2>9 DEF ReceiveNext
<1> QED
  BY <1>1, <1>2, PTL DEF ReceiveSpec

-----------------------------------------------------------------------------
(* Frames and the application.                                               *)

\* The wait whose future is about to be set has not spoiled a frame before.
SettingIsNew ==
    phase = "setting" =>
        Head(chain) \notin spoiled /\ future[Head(chain)] \in {"pending", "cancelled"}

FutureOfNew == \A w \in Waiter : pc[w] = "new" <=> future[w] = "none"

Accounts == SettingIsNew /\ FutureOfNew /\ ApplicationHearsTheRest

LEMMA AccountsStep == ReceiveTypeOK /\ Accounts /\ [ReceiveNext]_receiveVars => Accounts'
<1> SUFFICES ASSUME ReceiveTypeOK, Accounts, [ReceiveNext]_receiveVars PROVE Accounts'
  OBVIOUS
<1> USE DEF Accounts, SettingIsNew, FutureOfNew, ApplicationHearsTheRest, Cancelled, Completed
<1>a. Cardinality(spoiled) \in Nat /\ IsFiniteSet(spoiled)
  BY ReceiveAssumption, FS_Subset, FS_CardinalityType DEF ReceiveTypeOK
<1>b. frames \in Nat /\ heard \in Nat
  BY ReceiveAssumption DEF ReceiveTypeOK
<1>1. ASSUME NEW w \in Waiter, Start(w) PROVE Accounts'
  <2>1. UNCHANGED <<chain, phase, frames, heard, spoiled>>
    BY <1>1 DEF Start
  <2>2. future[w] = "none" /\ future' = [future EXCEPT ![w] = "pending"]
    BY <1>1 DEF Start
  <2>3. FutureOfNew'
    BY <1>1, <2>2 DEF Start, ReceiveTypeOK
  <2>4. Cancelled' = Cancelled /\ Completed' = Completed /\ UNCHANGED debug
    BY <1>1, <2>2 DEF Start, ReceiveTypeOK
  <2>5. SettingIsNew'
    BY <2>1, <2>2 DEF ReceiveTypeOK
  <2> QED BY <2>1, <2>3, <2>4, <2>5
<1>7. ASSUME NEW w \in Waiter, Cancel(w) PROVE Accounts'
  <2>1. UNCHANGED <<debug, chain, phase, frames, heard, spoiled, pc>>
    BY <1>7 DEF Cancel
  <2>2. \A q \in Waiter : future'[q] # future[q] =>
            future[q] = "pending" /\ future'[q] = "cancelled"
    BY <1>7 DEF Cancel, ReceiveTypeOK
  <2>3. FutureOfNew' /\ Completed' = Completed
    BY <2>1, <2>2 DEF ReceiveTypeOK
  <2>4. phase = "setting" => Head(chain) \in Waiter
    BY DEF ReceiveTypeOK
  <2>5. SettingIsNew'
    BY <2>1, <2>2, <2>4
  <2>6. w \notin spoiled /\ Cancelled' = Cancelled \cup {w}
    BY <1>7 DEF Cancel, ReceiveTypeOK
  <2>7. spoiled' \ Cancelled' = spoiled \ Cancelled
    BY <2>1, <2>6
  <2> QED BY <2>1, <2>3, <2>5, <2>7
<1>8. ASSUME NEW w \in Waiter, Resume(w) PROVE Accounts'
  BY <1>8 DEF Resume, ReceiveTypeOK
<1>2. CASE Frame
  BY <1>2, <1>a, <1>b DEF Frame
<1>3. CASE Ask
  <2>1. UNCHANGED <<debug, future, frames, heard, spoiled, pc>>
    BY <1>3 DEF Ask
  <2>2. phase = "calling" /\ phase' # "reading"
    BY <1>3 DEF Ask
  <2>3. phase' = "setting" => chain' = chain /\ future[Head(chain)] = "pending"
    BY <1>3 DEF Ask
  <2> QED BY <2>1, <2>2, <2>3
<1>4. CASE SetResult
  <2> DEFINE w == Head(chain)
  <2>0. w \in Waiter /\ w \notin spoiled
    BY <1>4 DEF SetResult, ReceiveTypeOK
  <2>1. /\ future' = [future EXCEPT ![w] = IF @ = "pending" THEN "result" ELSE @]
        /\ phase = "setting" /\ future[w] \in {"pending", "cancelled"}
        /\ UNCHANGED <<debug, pc, frames, heard>>
    BY <1>4 DEF SetResult
  <2>2. Cancelled' = Cancelled /\ FutureOfNew'
    BY <2>0, <2>1 DEF ReceiveTypeOK
  <2>3. Completed' = IF future[w] = "pending" THEN Completed \cup {w} ELSE Completed
    BY <2>0, <2>1 DEF ReceiveTypeOK
  <2>4. CASE ~Raises(w)
    <3>1. future[w] = "pending" /\ ~debug /\ phase' = "calling" /\ UNCHANGED spoiled
      BY <1>4, <2>4 DEF SetResult, Raises
    <3> QED BY <2>1, <2>2, <3>1
  <2>5. CASE Raises(w)
    <3>1. Cardinality(spoiled \cup {w}) = Cardinality(spoiled) + 1
      BY <1>a, <2>0, FS_AddElement
    <3>2. spoiled' = spoiled \cup {w} /\ phase' = "reading"
      BY <1>4, <2>5 DEF SetResult
    <3>3. spoiled' \ Cancelled' = IF debug' THEN Completed' ELSE {}
      BY <2>0, <2>1, <2>2, <2>3, <2>5, <3>2 DEF Raises
    <3> QED BY <1>a, <1>b, <2>1, <2>2, <3>1, <3>2, <3>3
  <2> QED BY <2>4, <2>5
<1>5. CASE Deliver
  BY <1>5, <1>a, <1>b DEF Deliver
<1>6. CASE Sleep \/ Wake \/ UNCHANGED receiveVars
  BY <1>6 DEF Sleep, Wake, receiveVars
<1> QED
  BY <1>1, <1>2, <1>3, <1>4, <1>5, <1>6, <1>7, <1>8 DEF ReceiveNext

\* The application's callback hears every frame but those spoiled by a wait that was
\* cancelled between the question and set_result and, on a debug loop, by every wait
\* that got a frame: one for each, for any number of waits and frames.
THEOREM ApplicationCorrect == ReceiveSpec => []ApplicationHearsTheRest
<1>1. ReceiveInit => Accounts
  <2>1. Cardinality({}) = 0
    BY FS_EmptySet
  <2> QED
    BY <2>1 DEF ReceiveInit, Accounts, SettingIsNew, FutureOfNew, ApplicationHearsTheRest,
                Completed
<1>2. Accounts => ApplicationHearsTheRest
  BY DEF Accounts
<1> QED
  BY <1>1, <1>2, AccountsStep, ReceiveTypeCorrect, PTL DEF ReceiveSpec

-----------------------------------------------------------------------------
(* The chain of callbacks.                                                   *)

\* Somebody the wait began on top of is over.
Bypassed(w) == \E q \in older[w] : pc[q] = "done"

\* Of two waits one began on top of the other, so that what the other puts back
\* still holds it, or one of its elders is over.
Nested ==
    /\ ForgottenNeedsOverlap
    /\ \A w, q \in Waiting :
         w = q \/ q \in older[w] \/ w \in Range(original[q]) \/ Bypassed(w)

LEMMA RangeOfPrepended ==
    ASSUME NEW w \in Waiter, NEW s \in Seq(Waiter)
    PROVE  w \in Range(<<w>> \o s) /\ Range(s) \subseteq Range(<<w>> \o s)
<1> DEFINE t == <<w>> \o s
<1>1. t \in Seq(Waiter) /\ Len(t) = Len(s) + 1 /\ t[1] = w
  OBVIOUS
<1>2. \A i \in 1 .. Len(s) : t[i + 1] = s[i] /\ i + 1 \in 1 .. Len(t)
  BY <1>1
<1>3. DOMAIN t = 1 .. Len(t) /\ DOMAIN s = 1 .. Len(s)
  BY <1>1
<1>4. w \in Range(t)
  <2>1. 1 \in DOMAIN t
    BY <1>1, <1>3
  <2> QED BY <1>1, <2>1 DEF Range
<1>5. ASSUME NEW x \in Range(s) PROVE x \in Range(t)
  <2>1. PICK i \in 1 .. Len(s) : x = s[i]
    BY <1>3 DEF Range
  <2>2. i + 1 \in DOMAIN t /\ t[i + 1] = x
    BY <1>2, <1>3, <2>1
  <2> QED BY <2>2 DEF Range
<1> QED BY <1>4, <1>5

LEMMA NestedStep == ReceiveTypeOK /\ Nested /\ [ReceiveNext]_receiveVars => Nested'
<1> SUFFICES ASSUME ReceiveTypeOK, Nested, [ReceiveNext]_receiveVars PROVE Nested'
  OBVIOUS
<1> USE DEF Nested, ForgottenNeedsOverlap, Bypassed, Waiting
<1>1. ASSUME NEW w \in Waiter, Start(w) PROVE Nested'
  <2>1. w \in Range(callback') /\ Range(callback) \subseteq Range(callback')
    BY <1>1, RangeOfPrepended DEF Start, ReceiveTypeOK
  <2>2. Waiting' = Waiting \cup {w} /\ w \notin Waiting
    BY <1>1 DEF Start, ReceiveTypeOK
  <2>3. older'[w] = Waiting /\ original'[w] = callback
    BY <1>1 DEF Start, ReceiveTypeOK
  <2>4. \A q \in Waiter \ {w} : older'[q] = older[q] /\ original'[q] = original[q]
    BY <1>1 DEF Start, ReceiveTypeOK
  <2>5. \A q \in Waiting : Bypassed(q) => Bypassed(q)'
    BY <1>1, <2>4 DEF Start, ReceiveTypeOK
  <2>6. ForgottenNeedsOverlap'
    BY <2>1, <2>2, <2>5
  <2>7. \A p, q \in Waiting' :
          p = q \/ q \in older'[p] \/ p \in Range(original'[q]) \/ Bypassed(p)'
    BY <2>2, <2>3, <2>4, <2>5
  <2> QED BY <2>6, <2>7
<1>2. ASSUME NEW w \in Waiter, Resume(w) PROVE Nested'
  <2>1. Waiting' = Waiting \ {w} /\ w \in Waiting /\ pc'[w] = "done"
    BY <1>2 DEF Resume, ReceiveTypeOK
  <2>2. UNCHANGED <<older, original>> /\ callback' = original[w]
    BY <1>2 DEF Resume
  <2>3. \A q \in Waiting : Bypassed(q) => Bypassed(q)'
    BY <1>2 DEF Resume, ReceiveTypeOK
  <2>4. \A q \in Waiting' : w \in older[q] => Bypassed(q)'
    BY <2>1, <2>2
  <2>5. ForgottenNeedsOverlap'
    BY <2>1, <2>2, <2>3, <2>4
  <2> QED BY <2>1, <2>2, <2>3, <2>5
<1>3. ASSUME \/ \E w \in Waiter : Cancel(w)
             \/ Sleep \/ Wake \/ Frame \/ Ask \/ SetResult \/ Deliver
             \/ UNCHANGED receiveVars
      PROVE  Nested'
  <2>1. UNCHANGED <<pc, callback, original, older>>
    BY <1>3 DEF Cancel, Sleep, Wake, Frame, Ask, SetResult, Deliver, receiveVars
  <2> QED BY <2>1
<1> QED
  BY <1>1, <1>2, <1>3 DEF ReceiveNext

\* A wait loses its callback only to the end of a wait it began on top of, however
\* many waits there are.
THEOREM ChainCorrect == ReceiveSpec => []ForgottenNeedsOverlap
<1>1. ReceiveInit => Nested
  BY DEF ReceiveInit, Nested, ForgottenNeedsOverlap, Waiting
<1>2. Nested => ForgottenNeedsOverlap
  BY DEF Nested
<1> QED
  BY <1>1, <1>2, NestedStep, ReceiveTypeCorrect, PTL DEF ReceiveSpec

-----------------------------------------------------------------------------
(* Who is resumed.                                                           *)

\* A wait that is over had an answer, and one that has not begun has no future.
Told ==
    /\ ReadyIsFinished
    /\ FutureOfNew
    /\ \A w \in Waiter : pc[w] = "done" => future[w] # "pending"

LEMMA ToldStep == ReceiveTypeOK /\ Told /\ [ReceiveNext]_receiveVars => Told'
<1> SUFFICES ASSUME ReceiveTypeOK, Told, [ReceiveNext]_receiveVars PROVE Told'
  OBVIOUS
<1> USE DEF Told, ReadyIsFinished, CanReturn, FutureOfNew, Waiting
<1>1. ASSUME NEW w \in Waiter, Start(w) PROVE Told'
  BY <1>1 DEF Start, ReceiveTypeOK
<1>2. ASSUME NEW w \in Waiter, Cancel(w) PROVE Told'
  BY <1>2 DEF Cancel, ReceiveTypeOK
<1>3. ASSUME NEW w \in Waiter, Resume(w) PROVE Told'
  BY <1>3 DEF Resume, ReceiveTypeOK
<1>4. CASE SetResult
  <2>1. Head(chain) \in Waiter
    BY <1>4 DEF SetResult, ReceiveTypeOK
  <2>2. UNCHANGED <<debug, pc>>
    BY <1>4 DEF SetResult
  <2>3. CASE future[Head(chain)] = "pending"
    <3>1. pc[Head(chain)] = "waiting"
      BY <2>1, <2>3 DEF ReceiveTypeOK
    <3>2. future' = [future EXCEPT ![Head(chain)] = "result"]
      BY <1>4, <2>1, <2>3 DEF SetResult, ReceiveTypeOK
    <3>3. ready' = IF debug THEN ready ELSE ready \cup {Head(chain)}
      BY <1>4, <2>3 DEF SetResult, Raises
    <3> QED BY <2>1, <2>2, <2>3, <3>1, <3>2, <3>3 DEF ReceiveTypeOK
  <2>4. CASE future[Head(chain)] # "pending"
    <3>1. UNCHANGED <<future, ready>>
      BY <1>4, <2>1, <2>4 DEF SetResult, Raises, ReceiveTypeOK
    <3> QED BY <2>2, <3>1
  <2> QED BY <2>3, <2>4
<1>5. CASE UNCHANGED <<debug, pc, future, ready>>
  BY <1>5
<1> QED
  BY <1>1, <1>2, <1>3, <1>4, <1>5
  DEF ReceiveNext, Sleep, Wake, Frame, Ask, Deliver, receiveVars

\* The loop has been told of exactly the waits that were cancelled or, without the
\* debug mode, completed: what CompletedReturns needs besides a loop that wakes up.
THEOREM ResumptionCorrect == ReceiveSpec => []ReadyIsFinished
<1>1. ReceiveInit => Told
  BY DEF ReceiveInit, Told, ReadyIsFinished, CanReturn, FutureOfNew, Waiting
<1>2. Told => ReadyIsFinished
  BY DEF Told
<1> QED
  BY <1>1, <1>2, ToldStep, ReceiveTypeCorrect, PTL DEF ReceiveSpec

-----------------------------------------------------------------------------
(* Connection and worker: KissLink.                                          *)

\* The steps of connect and disconnect that start no worker.
CallStep ==
    \/ OpenFails \/ Configured \/ ConfigureFails \/ ConfigureRaises
    \/ Disconnect \/ Joined \/ JoinTimesOut \/ Close

\* They touch neither the buffer nor a worker.
LEMMA CallStepKeeps ==
    ASSUME CallStep
    PROVE  UNCHANGED <<last, worker, hand, buffer, config, new, accepted, wire, overrun,
                       died, doubled>>
BY DEF CallStep, OpenFails, Configured, ConfigureFails, ConfigureRaises, Disconnect,
       Joined, JoinTimesOut, Close, history

\* Every variable keeps its type, and the buffer its size.
THEOREM LinkTypeCorrect == LinkSpec => []LinkTypeOK
<1>1. LinkInit => LinkTypeOK
  <2> SUFFICES ASSUME LinkInit PROVE LinkTypeOK
    OBVIOUS
  <2>1. << >> \in Seq(Command) /\ Len(<< >>) = 0
    OBVIOUS
  <2>2. BufferSize \in Nat /\ 0 \in 0 .. MaxConnects
    BY LinkAssumption
  <2>3. buffer \in Seq(Command) /\ Len(buffer) <= BufferSize
        /\ accepted \in Seq(Command) /\ wire \in Seq(Command)
    BY <2>1, <2>2 DEF LinkInit
  <2> QED BY <2>2, <2>3 DEF LinkInit, LinkTypeOK
<1>2. LinkTypeOK /\ [LinkNext]_linkVars => LinkTypeOK'
  <2> SUFFICES ASSUME LinkTypeOK, [LinkNext]_linkVars PROVE LinkTypeOK'
    OBVIOUS
  <2> USE DEF LinkTypeOK, history
  <2>1. CASE Open
    <3>1. last + 1 \in Worker /\ last' \in 0 .. MaxConnects
      BY <2>1, LinkAssumption DEF Open, Worker
    <3> QED BY <2>1, <3>1 DEF Open, LeaveBehind, Running
  <2>2. CASE CallStep
    BY <2>2 DEF CallStep, OpenFails, Configured, ConfigureFails, ConfigureRaises,
                Disconnect, Joined, JoinTimesOut, Close, LeaveBehind, Running
  <2>3. ASSUME NEW c \in Command, SendConfigCommand(c) PROVE LinkTypeOK'
    <3>1. Append(buffer, c) \in Seq(Command) /\ Len(Append(buffer, c)) = Len(buffer) + 1
          /\ Append(accepted, c) \in Seq(Command)
      OBVIOUS
    <3>2. Len(buffer) \in Nat /\ BufferSize \in Nat
      BY LinkAssumption
    <3>3. config' \in [Parameter -> Command \cup {None}]
      BY <2>3, LinkAssumption DEF SendConfigCommand
    <3>4. CASE connected /\ Len(buffer) < BufferSize
      <4>1. buffer' = Append(buffer, c) /\ accepted' = Append(accepted, c)
            /\ overrun' = overrun
        BY <2>3, <3>4 DEF SendConfigCommand, Queue
      <4> QED BY <2>3, <3>1, <3>2, <3>3, <3>4, <4>1 DEF SendConfigCommand
    <3>5. CASE ~(connected /\ Len(buffer) < BufferSize)
      <4>1. buffer' = buffer /\ accepted' = accepted /\ overrun' \subseteq Command
        BY <2>3, <3>5 DEF SendConfigCommand, Queue
      <4> QED BY <2>3, <3>3, <4>1 DEF SendConfigCommand
    <3> QED BY <3>4, <3>5
  <2>4. ASSUME NEW g \in Worker, Look(g) PROVE LinkTypeOK'
    BY <2>4 DEF Look
  <2>5. ASSUME NEW g \in Worker, Pop(g) PROVE LinkTypeOK'
    <3>1. buffer # << >> => /\ Head(buffer) \in Command
                            /\ Tail(buffer) \in Seq(Command)
                            /\ Len(Tail(buffer)) <= BufferSize
      BY LinkAssumption
    <3>2. buffer # << >> => Head(buffer) # None
      BY <3>1, LinkAssumption
    <3> QED BY <2>5, <3>1, <3>2 DEF Pop
  <2>6. ASSUME NEW g \in Worker, Write(g) PROVE LinkTypeOK'
    <3>1. Append(wire, hand[g]) \in Seq(Command)
      BY <2>6 DEF Write
    <3> QED BY <2>6, <3>1 DEF Write
  <2>7. ASSUME NEW g \in Worker, WriteFails(g) PROVE LinkTypeOK'
    <3>1. Append(wire, hand[g]) \in Seq(Command)
      BY <2>7 DEF WriteFails
    <3> QED BY <2>7, <3>1 DEF WriteFails
  <2>8. CASE UNCHANGED linkVars
    BY <2>8 DEF linkVars
  <2> QED
    BY <2>1, <2>2, <2>3, <2>4, <2>5, <2>6, <2>7, <2>8 DEF LinkNext, CallStep, WorkerStep
<1> QED
  BY <1>1, <1>2, PTL DEF LinkSpec

-----------------------------------------------------------------------------
(* Connections and workers.                                                  *)

\* While the flag is set the stop event is clear, so that only an exception ends the
\* worker of the last connect.
Served == (connected => ~stop /\ last \in Worker) /\ ConnectedIsServed

LEMMA ServedStep == LinkTypeOK /\ Served /\ [LinkNext]_linkVars => Served'
<1> SUFFICES ASSUME LinkTypeOK, Served, [LinkNext]_linkVars PROVE Served'
  OBVIOUS
<1> USE DEF Served, ConnectedIsServed, Alive, history
<1>1. CASE Open
  <2>1. last' \in Worker /\ worker'[last'] = "loop"
    BY <1>1, LinkAssumption DEF Open, Worker, LinkTypeOK
  <2> QED BY <1>1, <2>1 DEF Open
<1>2. CASE CallStep
  BY <1>2 DEF CallStep, OpenFails, Configured, ConfigureFails, ConfigureRaises,
              Disconnect, Joined, JoinTimesOut, Close
<1>3. ASSUME NEW c \in Command, SendConfigCommand(c) PROVE Served'
  BY <1>3 DEF SendConfigCommand
<1>4. ASSUME NEW g \in Worker, WorkerStep(g) PROVE Served'
  BY <1>4 DEF WorkerStep, Look, Pop, Write, WriteFails, LinkTypeOK
<1>5. CASE UNCHANGED linkVars
  BY <1>5 DEF linkVars
<1> QED
  BY <1>1, <1>2, <1>3, <1>4, <1>5 DEF LinkNext, CallStep

\* A connected adapter has its worker, unless that worker died of an exception.
THEOREM ConnectionCorrect == LinkSpec => []ConnectedIsServed
<1>1. LinkInit => Served
  BY DEF LinkInit, Served, ConnectedIsServed
<1>2. Served => ConnectedIsServed
  BY DEF Served
<1> QED
  BY <1>1, <1>2, ServedStep, LinkTypeCorrect, PTL DEF LinkSpec

\* The workers are numbered by their connects; the last one ends, or is left behind,
\* before the adapter is down again, and only then does an older one remain.
Followed ==
    /\ \A g \in Running : g <= last
    /\ owner \in {"closing", "down"} => Running \cap {last} \subseteq left
    /\ SecondWorkerWasLeftBehind

LEMMA FollowedStep == LinkTypeOK /\ Followed /\ [LinkNext]_linkVars => Followed'
<1> SUFFICES ASSUME LinkTypeOK, Followed, [LinkNext]_linkVars PROVE Followed'
  OBVIOUS
<1> USE DEF Followed, SecondWorkerWasLeftBehind
<1>1. CASE Open
  <2>1. last + 1 \in Worker /\ last \in Nat /\ Worker \subseteq Nat
    BY <1>1, LinkAssumption DEF Open, Worker, LinkTypeOK
  <2>2. /\ last' = last + 1 /\ owner' = "configuring" /\ owner \in {"down", "up"}
        /\ left' = left \cup {g \in Running : g = last /\ owner # "down"}
        /\ Running' \subseteq Running \cup {last'}
    BY <1>1, <2>1 DEF Open, LeaveBehind, Running, Alive, LinkTypeOK
  <2>3. Running \subseteq left'
    BY <2>2
  <2>4. \A g \in Running' : g <= last'
    BY <2>1, <2>2 DEF Running
  <2> QED BY <2>2, <2>3, <2>4
<1>2. CASE CallStep
  <2>1. UNCHANGED last /\ Running' = Running /\ left \subseteq left'
    BY <1>2, CallStepKeeps
       DEF Running, Alive, CallStep, OpenFails, Configured, ConfigureFails,
           ConfigureRaises, Disconnect, Joined, JoinTimesOut, Close, LeaveBehind, history
  <2>2. owner' \in {"closing", "down"} => Running \cap {last} \subseteq left'
    BY <1>2 DEF CallStep, OpenFails, Configured, ConfigureFails, ConfigureRaises,
                Disconnect, Joined, JoinTimesOut, Close, LeaveBehind, history
  <2> QED BY <2>1, <2>2
<1>3. ASSUME NEW c \in Command, SendConfigCommand(c) PROVE Followed'
  BY <1>3 DEF SendConfigCommand, Running, Alive
<1>4. ASSUME NEW g \in Worker, WorkerStep(g) PROVE Followed'
  <2>1. Running' \subseteq Running
    BY <1>4 DEF WorkerStep, Look, Pop, Write, WriteFails, LinkTypeOK, Running, Alive
  <2>2. UNCHANGED <<last, owner, left>>
    BY <1>4 DEF WorkerStep, Look, Pop, Write, WriteFails, history
  <2> QED BY <2>1, <2>2
<1>5. CASE UNCHANGED linkVars
  BY <1>5 DEF linkVars, Running, Alive
<1> QED
  BY <1>1, <1>2, <1>3, <1>4, <1>5 DEF LinkNext, CallStep

\* A worker runs beside a later one only if its connect answered False, a disconnect
\* gave up waiting for it, or the adapter was connected again without a disconnect.
THEOREM WorkersCorrect == LinkSpec => []SecondWorkerWasLeftBehind
<1>1. LinkInit => Followed
  BY DEF LinkInit, Followed, SecondWorkerWasLeftBehind, Alive, Running
<1>2. Followed => SecondWorkerWasLeftBehind
  BY DEF Followed
<1> QED
  BY <1>1, <1>2, FollowedStep, LinkTypeCorrect, PTL DEF LinkSpec

-----------------------------------------------------------------------------
(* The order of the frames.                                                  *)

\* One worker at a time, once no second one has run.
Alone == ~doubled => \A g, h \in Worker : Alive(g) /\ Alive(h) => g = h

Known(c) == \E i \in DOMAIN accepted : accepted[i] = c

\* What was written, what the worker holds and what is queued follow each other in
\* the order of acceptance.
Lined ==
    /\ \A i \in DOMAIN wire : Known(wire[i])
    /\ \A i \in DOMAIN buffer : Known(buffer[i])
    /\ \A g \in Worker : worker[g] = "writing" => Known(hand[g])
    /\ ~doubled =>
         /\ \A i, j \in DOMAIN wire : i < j => Before(wire[i], wire[j])
         /\ \A i, j \in DOMAIN buffer : i < j => Before(buffer[i], buffer[j])
         /\ \A i \in DOMAIN wire : \A j \in DOMAIN buffer : Before(wire[i], buffer[j])
         /\ \A g \in Worker : worker[g] = "writing" =>
              /\ \A i \in DOMAIN wire : Before(wire[i], hand[g])
              /\ \A j \in DOMAIN buffer : Before(hand[g], buffer[j])

LEMMA AloneStep == LinkTypeOK /\ Alone /\ [LinkNext]_linkVars => Alone'
<1> SUFFICES ASSUME LinkTypeOK, Alone, [LinkNext]_linkVars PROVE Alone'
  OBVIOUS
<1> USE DEF Alone, Alive, Running, history
<1>1. CASE Open
  BY <1>1 DEF Open, LinkTypeOK
<1>2. CASE CallStep
  BY <1>2, CallStepKeeps
<1>3. ASSUME NEW c \in Command, SendConfigCommand(c) PROVE Alone'
  BY <1>3 DEF SendConfigCommand
<1>4. ASSUME NEW g \in Worker, WorkerStep(g) PROVE Alone'
  <2>1. \A h \in Worker : Alive(h)' => Alive(h)
    BY <1>4 DEF WorkerStep, Look, Pop, Write, WriteFails, LinkTypeOK
  <2>2. UNCHANGED doubled
    BY <1>4 DEF WorkerStep, Look, Pop, Write, WriteFails
  <2> QED BY <2>1, <2>2
<1>5. CASE UNCHANGED linkVars
  BY <1>5 DEF linkVars
<1> QED
  BY <1>1, <1>2, <1>3, <1>4, <1>5 DEF LinkNext, CallStep

\* Acceptance is append-only: what was known, and before something, stays so, and
\* everything known is before the newcomer.
LEMMA AcceptanceGrows ==
    ASSUME LinkTypeOK, NEW c \in Command, accepted' = Append(accepted, c)
    PROVE  /\ \A d : Known(d) => Known(d)' /\ Before(d, c)'
           /\ \A d, e : Before(d, e) => Before(d, e)'
           /\ Known(c)'
<1>1. /\ accepted \in Seq(Command) /\ Len(accepted) \in Nat
      /\ DOMAIN accepted = 1 .. Len(accepted)
  BY DEF LinkTypeOK
<1>2. /\ DOMAIN accepted' = 1 .. (Len(accepted) + 1)
      /\ \A i \in 1 .. Len(accepted) : accepted'[i] = accepted[i]
      /\ accepted'[Len(accepted) + 1] = c
  BY <1>1
<1>3. ASSUME NEW d, Known(d) PROVE Known(d)' /\ Before(d, c)'
  BY <1>1, <1>2, <1>3 DEF Known, Before
<1>4. ASSUME NEW d, NEW e, Before(d, e) PROVE Before(d, e)'
  BY <1>1, <1>2, <1>4 DEF Before
<1>5. Known(c)'
  BY <1>1, <1>2 DEF Known
<1> QED BY <1>3, <1>4, <1>5

LEMMA LinedStep == LinkTypeOK /\ Alone /\ Lined /\ [LinkNext]_linkVars => Lined'
<1> SUFFICES ASSUME LinkTypeOK, Alone, Lined, [LinkNext]_linkVars PROVE Lined'
  OBVIOUS
<1> USE DEF history
<1>t. /\ buffer \in Seq(Command) /\ wire \in Seq(Command)
      /\ worker \in [Worker -> {"none", "loop", "popping", "writing", "gone"}]
      /\ hand \in [Worker -> Command \cup {None}]
  BY DEF LinkTypeOK
<1>1. ASSUME NEW c \in Command, SendConfigCommand(c) PROVE Lined'
  <2>1. UNCHANGED <<worker, hand, wire, doubled>>
    BY <1>1 DEF SendConfigCommand
  <2>2. CASE UNCHANGED <<buffer, accepted>>
    BY <2>1, <2>2 DEF Lined, Known, Before
  <2>3. CASE buffer' = Append(buffer, c) /\ accepted' = Append(accepted, c)
    <3>1. /\ \A d : Known(d) => Known(d)' /\ Before(d, c)'
          /\ \A d, e : Before(d, e) => Before(d, e)'
          /\ Known(c)'
      BY <2>3, AcceptanceGrows
    <3>2. /\ DOMAIN buffer = 1 .. Len(buffer) /\ Len(buffer) \in Nat
          /\ DOMAIN buffer' = 1 .. (Len(buffer) + 1)
          /\ \A i \in 1 .. Len(buffer) : buffer'[i] = buffer[i]
          /\ buffer'[Len(buffer) + 1] = c
      BY <1>t, <2>3
    <3> HIDE DEF Known, Before
    <3> QED BY <2>1, <3>1, <3>2 DEF Lined
  <2> QED BY <1>1, <2>2, <2>3 DEF SendConfigCommand, Queue
<1>2. ASSUME NEW g \in Worker, Pop(g) PROVE Lined'
  <2>1. UNCHANGED <<wire, accepted, doubled>>
    BY <1>2 DEF Pop
  <2>2. \A d, e : (Known(d)' <=> Known(d)) /\ (Before(d, e)' <=> Before(d, e))
    BY <2>1 DEF Known, Before
  <2>3. CASE buffer = << >>
    <3>1. /\ \A h \in Worker : worker'[h] = "writing" => worker[h] = "writing"
          /\ UNCHANGED <<hand, buffer>>
      BY <1>2, <1>t, <2>3 DEF Pop
    <3> QED BY <2>1, <2>2, <3>1 DEF Lined
  <2>4. CASE buffer # << >>
    <3>1. /\ buffer' = Tail(buffer) /\ hand' = [hand EXCEPT ![g] = Head(buffer)]
          /\ worker' = [worker EXCEPT ![g] = "writing"] /\ worker[g] = "popping"
      BY <1>2, <2>4 DEF Pop
    <3>2. /\ Len(buffer) \in Nat \ {0} /\ DOMAIN buffer = 1 .. Len(buffer)
          /\ DOMAIN buffer' = 1 .. (Len(buffer) - 1)
          /\ \A i \in 1 .. (Len(buffer) - 1) : buffer'[i] = buffer[i + 1]
          /\ Head(buffer) = buffer[1]
      BY <1>t, <2>4, <3>1
    <3>3. hand'[g] = buffer[1] /\ \A h \in Worker \ {g} : hand'[h] = hand[h]
      BY <1>t, <3>1, <3>2
    <3>4. ~doubled => \A h \in Worker : worker'[h] = "writing" => h = g
      BY <1>t, <3>1 DEF Alone, Alive
    <3>5. \A i \in DOMAIN buffer' : i + 1 \in DOMAIN buffer /\ 1 < i + 1
                                  /\ buffer'[i] = buffer[i + 1] /\ 1 \in DOMAIN buffer
      BY <3>2
    <3>6. \A i, j \in DOMAIN buffer' : i < j => i + 1 < j + 1
      BY <3>2
    <3>7. /\ (\A i \in DOMAIN wire : Known(wire[i]))'
          /\ (\A i \in DOMAIN buffer : Known(buffer[i]))'
          /\ (\A h \in Worker : worker[h] = "writing" => Known(hand[h]))'
      <4>1. \A i \in DOMAIN wire : Known(wire[i])
        BY DEF Lined
      <4>2. \A i \in DOMAIN buffer : Known(buffer[i])
        BY DEF Lined
      <4>3. \A h \in Worker : worker[h] = "writing" => Known(hand[h])
        BY DEF Lined
      <4>4. \A h \in Worker \ {g} : worker'[h] = worker[h]
        BY <1>t, <3>1
      <4>5. \A h \in Worker : worker'[h] = "writing" => Known(hand'[h])
        BY <3>3, <3>5, <3>2, <4>2, <4>3, <4>4
      <4>6. \A i \in DOMAIN buffer' : Known(buffer'[i])
        BY <3>5, <4>2
      <4> QED BY <2>1, <2>2, <4>1, <4>5, <4>6
    <3>8. ASSUME ~doubled
          PROVE  /\ (\A i, j \in DOMAIN wire : i < j => Before(wire[i], wire[j]))'
                 /\ (\A i, j \in DOMAIN buffer : i < j => Before(buffer[i], buffer[j]))'
                 /\ (\A i \in DOMAIN wire : \A j \in DOMAIN buffer :
                       Before(wire[i], buffer[j]))'
      BY <2>1, <2>2, <3>5, <3>6, <3>8 DEF Lined
    <3>9. ASSUME ~doubled
          PROVE  (\A h \in Worker : worker[h] = "writing" =>
                   /\ \A i \in DOMAIN wire : Before(wire[i], hand[h])
                   /\ \A j \in DOMAIN buffer : Before(hand[h], buffer[j]))'
      <4>1. \A i \in DOMAIN wire : Before(wire[i], buffer[1])
        BY <3>2, <3>9 DEF Lined
      <4>2. \A j \in DOMAIN buffer' : Before(buffer[1], buffer'[j])
        BY <3>5, <3>9 DEF Lined
      <4> QED BY <2>1, <2>2, <3>3, <3>4, <3>9, <4>1, <4>2
    <3> QED BY <2>1, <3>7, <3>8, <3>9 DEF Lined
  <2> QED BY <2>3, <2>4
<1>3. ASSUME NEW g \in Worker, Write(g) \/ WriteFails(g) PROVE Lined'
  <2>1. UNCHANGED <<buffer, accepted, doubled>> /\ worker[g] = "writing"
    BY <1>3 DEF Write, WriteFails
  <2>2. \A d, e : (Known(d)' <=> Known(d)) /\ (Before(d, e)' <=> Before(d, e))
    BY <2>1 DEF Known, Before
  <2>3. /\ \A h \in Worker : worker'[h] = "writing" =>
              worker[h] = "writing" /\ hand'[h] = hand[h] /\ h # g
    BY <1>3, <1>t DEF Write, WriteFails
  <2>4. ~doubled => \A h \in Worker : worker'[h] # "writing"
    BY <2>1, <2>3 DEF Alone, Alive
  <2>5. CASE wire' = wire
    BY <2>1, <2>2, <2>3, <2>5 DEF Lined
  <2>6. CASE wire' = Append(wire, hand[g])
    <3>1. wire' = Append(wire, hand[g]) /\ hand[g] \in Command
      BY <1>t, <2>1, <2>6 DEF LinkTypeOK
    <3>2. /\ DOMAIN wire = 1 .. Len(wire) /\ Len(wire) \in Nat
          /\ DOMAIN wire' = 1 .. (Len(wire) + 1)
          /\ \A i \in 1 .. Len(wire) : wire'[i] = wire[i]
          /\ wire'[Len(wire) + 1] = hand[g]
      BY <1>t, <3>1
    <3>3. /\ (\A i \in DOMAIN wire : Known(wire[i]))'
          /\ (\A i \in DOMAIN buffer : Known(buffer[i]))'
          /\ (\A h \in Worker : worker[h] = "writing" => Known(hand[h]))'
      <4>1. /\ \A i \in DOMAIN wire : Known(wire[i])
            /\ \A i \in DOMAIN buffer : Known(buffer[i])
            /\ \A h \in Worker : worker[h] = "writing" => Known(hand[h])
        BY DEF Lined
      <4>2. \A i \in DOMAIN wire' : i \in DOMAIN wire \/ i = Len(wire) + 1
        BY <3>2
      <4>3. \A i \in DOMAIN wire' : Known(wire'[i])
        BY <2>1, <3>2, <4>1, <4>2
      <4> QED BY <2>1, <2>2, <2>3, <4>1, <4>3
    <3>4. ASSUME ~doubled
          PROVE  /\ (\A i, j \in DOMAIN wire : i < j => Before(wire[i], wire[j]))'
                 /\ (\A i, j \in DOMAIN buffer : i < j => Before(buffer[i], buffer[j]))'
                 /\ (\A i \in DOMAIN wire : \A j \in DOMAIN buffer :
                       Before(wire[i], buffer[j]))'
      <4>1. \A i, j \in DOMAIN wire' : i < j =>
              i \in DOMAIN wire /\ (j \in DOMAIN wire \/ j = Len(wire) + 1)
        BY <3>2
      <4> QED BY <2>1, <2>2, <3>2, <3>4, <4>1 DEF Lined
    <3> QED BY <2>1, <2>4, <3>3, <3>4 DEF Lined
  <2> QED BY <1>3, <2>5, <2>6 DEF Write, WriteFails
<1>4. CASE Open
  <2>1. UNCHANGED <<hand, buffer, accepted, wire>>
    BY <1>4 DEF Open
  <2>2. \A d, e : (Known(d)' <=> Known(d)) /\ (Before(d, e)' <=> Before(d, e))
    BY <2>1 DEF Known, Before
  <2>3. /\ \A h \in Worker : worker'[h] = "writing" => worker[h] = "writing"
        /\ ~doubled' => ~doubled
    BY <1>4, <1>t DEF Open
  <2> QED BY <2>1, <2>2, <2>3 DEF Lined
<1>5. ASSUME (\E g \in Worker : Look(g)) \/ CallStep \/ UNCHANGED linkVars
      PROVE  Lined'
  <2>1. UNCHANGED <<buffer, accepted, wire, doubled>>
    BY <1>5, CallStepKeeps DEF Look, linkVars
  <2>2. \A d, e : (Known(d)' <=> Known(d)) /\ (Before(d, e)' <=> Before(d, e))
    BY <2>1 DEF Known, Before
  <2>3. \A h \in Worker : worker'[h] = "writing" =>
              worker[h] = "writing" /\ hand'[h] = hand[h]
    BY <1>5, <1>t, CallStepKeeps DEF Look, linkVars
  <2> QED BY <2>1, <2>2, <2>3 DEF Lined
<1> QED
  BY <1>1, <1>2, <1>3, <1>4, <1>5 DEF LinkNext, CallStep, WorkerStep

-----------------------------------------------------------------------------
(* No frame is in two places.                                                *)

\* A command is not sent yet, or queued once, or in one worker's hand, or written
\* once: popleft gives a frame to one worker, however many there are.
Apart ==
    /\ \A i, j \in DOMAIN wire : wire[i] = wire[j] => i = j
    /\ \A i, j \in DOMAIN buffer : buffer[i] = buffer[j] => i = j
    /\ \A i \in DOMAIN wire : wire[i] \notin new
    /\ \A j \in DOMAIN buffer : buffer[j] \notin new
    /\ \A i \in DOMAIN wire, j \in DOMAIN buffer : wire[i] # buffer[j]
    /\ \A g \in Worker : worker[g] = "writing" =>
         /\ hand[g] \notin new
         /\ \A i \in DOMAIN wire : wire[i] # hand[g]
         /\ \A j \in DOMAIN buffer : buffer[j] # hand[g]
         /\ \A h \in Worker : worker[h] = "writing" /\ hand[h] = hand[g] => h = g

LEMMA ApartStep == LinkTypeOK /\ Apart /\ [LinkNext]_linkVars => Apart'
<1> SUFFICES ASSUME LinkTypeOK, Apart, [LinkNext]_linkVars PROVE Apart'
  OBVIOUS
<1> USE DEF history
<1>t. /\ buffer \in Seq(Command) /\ wire \in Seq(Command)
      /\ DOMAIN buffer = 1 .. Len(buffer) /\ Len(buffer) \in Nat
      /\ DOMAIN wire = 1 .. Len(wire) /\ Len(wire) \in Nat
      /\ worker \in [Worker -> {"none", "loop", "popping", "writing", "gone"}]
      /\ hand \in [Worker -> Command \cup {None}]
      /\ new \subseteq Command
  BY DEF LinkTypeOK
<1>1. ASSUME NEW c \in Command, SendConfigCommand(c) PROVE Apart'
  <2>1. UNCHANGED <<worker, hand, wire>> /\ c \in new /\ new' = new \ {c}
    BY <1>1 DEF SendConfigCommand
  <2>2. CASE buffer' = buffer
    BY <2>1, <2>2 DEF Apart
  <2>3. CASE buffer' = Append(buffer, c)
    <3>1. /\ DOMAIN buffer' = 1 .. (Len(buffer) + 1)
          /\ \A i \in DOMAIN buffer : buffer'[i] = buffer[i]
          /\ buffer'[Len(buffer) + 1] = c
      BY <1>t, <2>3
    <3>2. \A i \in DOMAIN buffer' : i \in DOMAIN buffer \/ i = Len(buffer) + 1
      BY <1>t, <3>1
    <3>3. /\ \A i \in DOMAIN wire : wire[i] # c
          /\ \A i \in DOMAIN buffer : buffer[i] # c
          /\ \A g \in Worker : worker[g] = "writing" => hand[g] # c
      BY <2>1 DEF Apart
    <3>4. \A i, j \in DOMAIN buffer' : buffer'[i] = buffer'[j] => i = j
      BY <3>1, <3>2, <3>3 DEF Apart
    <3>5. \A i \in DOMAIN buffer' : buffer'[i] \notin new'
      BY <2>1, <3>1, <3>2 DEF Apart
    <3>6. \A i \in DOMAIN wire, j \in DOMAIN buffer' : wire[i] # buffer'[j]
      BY <3>1, <3>2, <3>3 DEF Apart
    <3>7. \A g \in Worker : worker[g] = "writing" =>
             \A j \in DOMAIN buffer' : buffer'[j] # hand[g]
      BY <3>1, <3>2, <3>3 DEF Apart
    <3> QED BY <2>1, <3>4, <3>5, <3>6, <3>7 DEF Apart
  <2> QED BY <1>1, <2>2, <2>3 DEF SendConfigCommand, Queue
<1>2. ASSUME NEW g \in Worker, Pop(g) PROVE Apart'
  <2>1. UNCHANGED <<wire, new>>
    BY <1>2 DEF Pop
  <2>2. CASE buffer = << >>
    <3>1. /\ \A h \in Worker : worker'[h] = "writing" => worker[h] = "writing"
          /\ UNCHANGED <<hand, buffer>>
      BY <1>2, <1>t, <2>2 DEF Pop
    <3> QED BY <2>1, <3>1 DEF Apart
  <2>3. CASE buffer # << >>
    <3>1. /\ buffer' = Tail(buffer) /\ hand' = [hand EXCEPT ![g] = Head(buffer)]
          /\ worker' = [worker EXCEPT ![g] = "writing"] /\ worker[g] = "popping"
      BY <1>2, <2>3 DEF Pop
    <3>2. /\ Len(buffer) > 0 /\ DOMAIN buffer' = 1 .. (Len(buffer) - 1)
          /\ \A i \in 1 .. (Len(buffer) - 1) : buffer'[i] = buffer[i + 1]
          /\ Head(buffer) = buffer[1]
      BY <1>t, <2>3, <3>1
    <3>3. 1 \in DOMAIN buffer /\ \A i \in DOMAIN buffer' :
             i + 1 \in DOMAIN buffer /\ i + 1 # 1 /\ buffer'[i] = buffer[i + 1]
      BY <1>t, <3>2
    <3>4. hand'[g] = buffer[1] /\ \A h \in Worker \ {g} :
             hand'[h] = hand[h] /\ worker'[h] = worker[h]
      BY <1>t, <3>1, <3>2
    <3>5. \A i, j \in DOMAIN buffer' : buffer'[i] = buffer'[j] => i = j
      <4>1. \A i, j \in DOMAIN buffer' : i + 1 = j + 1 => i = j
        BY <3>2
      <4> QED BY <3>3, <4>1 DEF Apart
    <3>6. /\ \A i \in DOMAIN buffer' : buffer'[i] \notin new
          /\ \A i \in DOMAIN wire, j \in DOMAIN buffer' : wire[i] # buffer'[j]
      BY <3>3 DEF Apart
    <3>7. /\ buffer[1] \notin new
          /\ \A i \in DOMAIN wire : wire[i] # buffer[1]
          /\ \A j \in DOMAIN buffer' : buffer'[j] # buffer[1]
          /\ \A h \in Worker : worker[h] = "writing" => hand[h] # buffer[1]
      BY <3>3 DEF Apart
    <3>8. \A h \in Worker : worker'[h] = "writing" =>
            /\ hand'[h] \notin new
            /\ \A i \in DOMAIN wire : wire[i] # hand'[h]
            /\ \A j \in DOMAIN buffer' : buffer'[j] # hand'[h]
      BY <3>3, <3>4, <3>7 DEF Apart
    <3>9. \A h, k \in Worker : worker'[h] = "writing" /\ worker'[k] = "writing"
            /\ hand'[k] = hand'[h] => k = h
      BY <3>4, <3>7 DEF Apart
    <3> QED BY <2>1, <3>5, <3>6, <3>8, <3>9 DEF Apart
  <2> QED BY <2>2, <2>3
<1>3. ASSUME NEW g \in Worker, Write(g) \/ WriteFails(g) PROVE Apart'
  <2>1. UNCHANGED <<buffer, new>> /\ worker[g] = "writing"
    BY <1>3 DEF Write, WriteFails
  <2>2. \A h \in Worker : worker'[h] = "writing" =>
              worker[h] = "writing" /\ hand'[h] = hand[h] /\ h # g
    BY <1>3, <1>t DEF Write, WriteFails
  <2>3. CASE wire' = wire
    BY <2>1, <2>2, <2>3 DEF Apart
  <2>4. CASE wire' = Append(wire, hand[g])
    <3>1. hand[g] \in Command
      BY <2>1, <1>t DEF LinkTypeOK
    <3>2. /\ DOMAIN wire' = 1 .. (Len(wire) + 1)
          /\ \A i \in DOMAIN wire : wire'[i] = wire[i]
          /\ wire'[Len(wire) + 1] = hand[g]
      BY <1>t, <2>4, <3>1
    <3>3. \A i \in DOMAIN wire' : i \in DOMAIN wire \/ i = Len(wire) + 1
      BY <1>t, <3>2
    <3>4. /\ \A i \in DOMAIN wire : wire[i] # hand[g]
          /\ \A j \in DOMAIN buffer : buffer[j] # hand[g]
          /\ hand[g] \notin new
          /\ \A h \in Worker : worker[h] = "writing" /\ h # g => hand[h] # hand[g]
      BY <2>1 DEF Apart
    <3>5. \A i, j \in DOMAIN wire' : wire'[i] = wire'[j] => i = j
      BY <3>2, <3>3, <3>4 DEF Apart
    <3>6. /\ \A i \in DOMAIN wire' : wire'[i] \notin new
          /\ \A i \in DOMAIN wire', j \in DOMAIN buffer : wire'[i] # buffer[j]
      BY <3>2, <3>3, <3>4 DEF Apart
    <3>7. \A h \in Worker : worker'[h] = "writing" =>
             \A i \in DOMAIN wire' : wire'[i] # hand'[h]
      BY <2>2, <3>2, <3>3, <3>4 DEF Apart
    <3> QED BY <2>1, <2>2, <3>5, <3>6, <3>7 DEF Apart
  <2> QED BY <1>3, <2>3, <2>4 DEF Write, WriteFails
<1>4. CASE Open
  <2>1. UNCHANGED <<hand, buffer, wire, new>>
    BY <1>4 DEF Open
  <2>2. \A h \in Worker : worker'[h] = "writing" => worker[h] = "writing"
    BY <1>4, <1>t DEF Open
  <2> QED BY <2>1, <2>2 DEF Apart
<1>5. ASSUME (\E g \in Worker : Look(g)) \/ CallStep \/ UNCHANGED linkVars
      PROVE  Apart'
  <2>1. UNCHANGED <<buffer, wire, new>>
    BY <1>5, CallStepKeeps DEF Look, linkVars
  <2>2. \A h \in Worker : worker'[h] = "writing" =>
              worker[h] = "writing" /\ hand'[h] = hand[h]
    BY <1>5, <1>t, CallStepKeeps DEF Look, linkVars
  <2> QED BY <2>1, <2>2 DEF Apart
<1> QED
  BY <1>1, <1>2, <1>3, <1>4, <1>5 DEF LinkNext, CallStep, WorkerStep

\* No frame is written twice, however many workers run; a single worker writes frames
\* in the order in which they were accepted, for any number of commands and any losses.
THEOREM OrderCorrect == LinkSpec => []WrittenOnceInOrder
<1>1. LinkInit => Alone /\ Lined /\ Apart
  BY DEF LinkInit, Alone, Alive, Lined, Apart
<1>2. Lined /\ Apart => WrittenOnceInOrder
  BY DEF Lined, Apart, WrittenOnceInOrder
<1> QED
  BY <1>1, <1>2, AloneStep, LinedStep, ApartStep, LinkTypeCorrect, PTL DEF LinkSpec

-----------------------------------------------------------------------------
(* The local configuration.                                                  *)

LEMMA ConfigStep ==
    LinkTypeOK /\ ConfigLeavesModemOnlyByOverrun /\ [LinkNext]_linkVars
        => ConfigLeavesModemOnlyByOverrun'
<1> SUFFICES ASSUME LinkTypeOK, ConfigLeavesModemOnlyByOverrun, [LinkNext]_linkVars
             PROVE  ConfigLeavesModemOnlyByOverrun'
  OBVIOUS
<1> USE DEF history
<1>1. ASSUME NEW c \in Command, SendConfigCommand(c), connected,
             Len(buffer) < BufferSize
      PROVE  ConfigLeavesModemOnlyByOverrun'
  <2>1. /\ accepted' = Append(accepted, c) /\ UNCHANGED overrun
        /\ config' = [config EXCEPT ![Sets[c]] = c]
    BY <1>1 DEF SendConfigCommand, Queue
  <2>2. /\ accepted \in Seq(Command) /\ Len(accepted) \in Nat
        /\ DOMAIN accepted = 1 .. Len(accepted)
        /\ config \in [Parameter -> Command \cup {None}] /\ Sets[c] \in Parameter
    BY LinkAssumption DEF LinkTypeOK
  <2>3. /\ DOMAIN accepted' = 1 .. (Len(accepted) + 1)
        /\ \A i \in 1 .. Len(accepted) : accepted'[i] = accepted[i]
        /\ accepted'[Len(accepted) + 1] = c
    BY <2>1, <2>2
  <2>4. ASSUME NEW p \in Parameter, p # Sets[c], config[p] \notin overrun,
               config[p] = None /\ \A i \in DOMAIN accepted : Sets[accepted[i]] # p
        PROVE  config'[p] = None /\ \A i \in DOMAIN accepted' : Sets[accepted'[i]] # p
    BY <2>1, <2>2, <2>3, <2>4
  <2>5. ASSUME NEW p \in Parameter, p # Sets[c],
               NEW i \in DOMAIN accepted, accepted[i] = config[p],
               \A j \in DOMAIN accepted : j > i => Sets[accepted[j]] # p
        PROVE  /\ i \in DOMAIN accepted' /\ accepted'[i] = config'[p]
               /\ \A j \in DOMAIN accepted' : j > i => Sets[accepted'[j]] # p
    BY <2>1, <2>2, <2>3, <2>5
  <2>6. LET i == Len(accepted) + 1
        IN  /\ i \in DOMAIN accepted' /\ accepted'[i] = config'[Sets[c]]
            /\ \A j \in DOMAIN accepted' : j > i => Sets[accepted'[j]] # Sets[c]
    BY <2>1, <2>2, <2>3
  <2>7. \A p \in Parameter : p # Sets[c] => config'[p] = config[p]
    BY <2>1, <2>2
  <2> QED
    BY <2>1, <2>4, <2>5, <2>6, <2>7 DEF ConfigLeavesModemOnlyByOverrun
<1>2. ASSUME NEW c \in Command, SendConfigCommand(c), connected,
             ~(Len(buffer) < BufferSize)
      PROVE  ConfigLeavesModemOnlyByOverrun'
  <2>1. /\ UNCHANGED accepted /\ overrun' = overrun \cup {c}
        /\ config' = [config EXCEPT ![Sets[c]] = c]
    BY <1>2 DEF SendConfigCommand, Queue
  <2>2. config \in [Parameter -> Command \cup {None}]
    BY DEF LinkTypeOK
  <2>3. \A p \in Parameter : config'[p] = config[p] \/ config'[p] \in overrun'
    BY <2>1, <2>2
  <2> QED BY <2>1, <2>3 DEF ConfigLeavesModemOnlyByOverrun
<1>3. CASE UNCHANGED <<config, accepted, overrun>>
  BY <1>3 DEF ConfigLeavesModemOnlyByOverrun
<1>4. ASSUME NEW c \in Command, SendConfigCommand(c), ~connected
      PROVE  ConfigLeavesModemOnlyByOverrun'
  BY <1>3, <1>4 DEF SendConfigCommand
<1>5. CASE Open \/ CallStep \/ UNCHANGED linkVars
  BY <1>3, <1>5, CallStepKeeps DEF Open, linkVars
<1>6. ASSUME NEW g \in Worker, WorkerStep(g) PROVE ConfigLeavesModemOnlyByOverrun'
  BY <1>3, <1>6 DEF WorkerStep, Look, Pop, Write, WriteFails
<1> QED
  BY <1>1, <1>2, <1>4, <1>5, <1>6 DEF LinkNext, CallStep

\* The local configuration is the last accepted command of each parameter, or one
\* that was refused for want of room, for any parameters and commands.
THEOREM ConfigCorrect == LinkSpec => []ConfigLeavesModemOnlyByOverrun
<1>1. LinkInit => ConfigLeavesModemOnlyByOverrun
  BY DEF LinkInit, ConfigLeavesModemOnlyByOverrun
<1> QED
  BY <1>1, ConfigStep, LinkTypeCorrect, PTL DEF LinkSpec

=============================================================================

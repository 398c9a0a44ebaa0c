----------------------------- MODULE CompanionInbox -----------------------------
(* Offline messages of one companion: openhop_core/companion/message_queue.py, *)
(* the push handlers and the sync command of companion/frame_server, and       *)
(* repeater/companion/frame_server.py, which moves a message from the bridge's *)
(* memory queue to SQLite in a worker thread and then pops the queue's tail.   *)
(*                                                                             *)
(* A message handler is a task on the event loop; SQLite calls run in          *)
(* asyncio.to_thread, so a store or a fetch happens in one step and the task   *)
(* sees its result in a later one.  SQLite itself is not quoted and is         *)
(* modelled by what its callers rely on: a bounded list of rows, oldest first, *)
(* that may refuse a row.                                                      *)
EXTENDS Naturals, Sequences, FiniteSets

CONSTANTS
    Msgs,       \* the messages that may arrive, each once
    Channel,    \* those that are channel messages; the others are direct
    NoMsg,      \* "no message"
    Cap,        \* message_queue.max_size, also the SQLite retention limit
    OutMax,     \* maxsize of the outbound write queue
    HasSqlite   \* the server was built with a sqlite_handler

ASSUME InboxAssumption ==
    /\ Channel \subseteq Msgs
    /\ NoMsg \notin Msgs
    /\ Cap \in Nat /\ OutMax \in Nat \ {0}
    /\ HasSqlite \in BOOLEAN

VARIABLES
    mem,        \* MessageQueue._queue, oldest first
    db,         \* rows stored in SQLite, oldest first
    task,       \* the handler of each message
    sync,       \* the sync command: "idle", "thread" or "resume"
    popped,     \* the row the sync command's thread took out of SQLite
    connected,  \* a client is connected: _write_queue is not None
    out,        \* _write_queue
    delivered,  \* copies of each message the client has read (history)
    shed,       \* evicted by a retention rule, or its frame dropped (history)
    raced,      \* stored, but the tail popped for it was not it (history)
    wronged     \* popped from memory for another message (history)

inboxHistory == <<delivered, shed, raced, wronged>>
inboxVars == <<mem, db, task, sync, popped, connected, out,
          delivered, shed, raced, wronged>>

\* PUSH_CODE_MSG_WAITING, RESP_CODE_NO_MORE_MESSAGES and message frames.
Waiting == [kind |-> "waiting", msg |-> NoMsg]
NoMore == [kind |-> "no_more", msg |-> NoMsg]
Frame(m) == [kind |-> "message", msg |-> m]
Frames == {Waiting, NoMore} \cup {Frame(m) : m \in Msgs}

InSeq(m, q) == \E i \in DOMAIN q : q[i] = m
Copies(m, q) == Cardinality({i \in DOMAIN q : q[i] = m})
RemoveIndex(q, i) == SubSeq(q, 1, i - 1) \o SubSeq(q, i + 1, Len(q))
FirstChannel(q) ==
    CHOOSE i \in DOMAIN q :
        q[i] \in Channel /\ \A j \in 1..(i - 1) : q[j] \notin Channel

HasChannel(q) == \E i \in DOMAIN q : q[i] \in Channel

-----------------------------------------------------------------------------
(* MessageQueue and the outbound queue.                                      *)

\* push: whether the message is queued.  With no capacity nothing is, and so a
\* queue that is full and holds only direct messages.
Accepts(q) == Cap > 0 /\ (Len(q) < Cap \/ HasChannel(q))

\* Fault: a full queue keeps its channel messages.
PushedWithoutEviction(q, m) == Append(q, m)

\* push: at capacity the oldest channel message makes room.
Pushed(q, m) == Append(IF Len(q) >= Cap THEN RemoveIndex(q, FirstChannel(q))
                                        ELSE q, m)

Victims(q) == IF Len(q) >= Cap THEN {q[FirstChannel(q)]} ELSE {}

\* pop_last: the most recently pushed message, whichever it is.
PopLast(q) == IF q = <<>> THEN q ELSE SubSeq(q, 1, Len(q) - 1)

\* _enqueue_frame: nothing without a client, dropped on QueueFull.  A frame that is too
\* large is dropped as well; those of this module are taken to fit.
Writable == connected /\ Len(out) < OutMax
Enqueue(f) == out' = IF Writable THEN Append(out, f) ELSE out

InboxInit ==
    /\ mem = <<>> /\ db = <<>>
    /\ task = [m \in Msgs |-> "new"]
    /\ sync = "idle" /\ popped = NoMsg
    /\ connected = FALSE /\ out = <<>>
    /\ delivered = [m \in Msgs |-> 0]
    /\ shed = {} /\ raced = {} /\ wronged = {}

-----------------------------------------------------------------------------
(* A message arrives.                                                        *)

\* The bridge queues it and its event handler runs up to the worker thread; a
\* message that is not persisted is announced in the same step.
ArriveQueued(m) ==
    /\ task[m] = "new"
    /\ Accepts(mem)
    /\ mem' = Pushed(mem, m)
    /\ shed' = shed \cup Victims(mem)
    /\ IF HasSqlite
         THEN task' = [task EXCEPT ![m] = "persist"] /\ UNCHANGED out
         ELSE task' = [task EXCEPT ![m] = "kept"] /\ Enqueue(Waiting)
    /\ UNCHANGED <<db, sync, popped, connected,
                   delivered, raced, wronged>>

\* Every retained message is direct, or the queue has no capacity: the event is
\* announced all the same, with queued = False.
ArriveRejected(m) ==
    /\ task[m] = "new"
    /\ ~Accepts(mem)
    /\ task' = [task EXCEPT ![m] = "rejected"]
    /\ Enqueue(Waiting)
    /\ UNCHANGED <<mem, db, sync, popped, connected>>
    /\ UNCHANGED inboxHistory

\* companion_push_message in the worker thread: the row is stored, making room
\* by the protected eviction rule when the retention limit is reached ...
StoreRow(m) ==
    /\ task[m] = "persist"
    /\ Accepts(db)
    /\ db' = Pushed(db, m)
    /\ shed' = shed \cup Victims(db)
    /\ task' = [task EXCEPT ![m] = "stored"]
    /\ UNCHANGED <<mem, sync, popped, connected, out,
                   delivered, raced, wronged>>

\* ... or refused.
RefuseRow(m) ==
    /\ task[m] = "persist"
    /\ task' = [task EXCEPT ![m] = "refused"]
    /\ UNCHANGED <<mem, db, sync, popped, connected, out>>
    /\ UNCHANGED inboxHistory

\* Back on the loop after a successful store: pop_last, then MSG_WAITING.
AfterStore(m) ==
    /\ task[m] = "stored"
    /\ mem' = PopLast(mem)
    /\ LET tail == IF mem = <<>> THEN {} ELSE {mem[Len(mem)]}
       IN  /\ wronged' = wronged \cup (tail \ {m})
           /\ raced' = IF tail = {m} THEN raced ELSE raced \cup {m}
    /\ task' = [task EXCEPT ![m] = "done"]
    /\ Enqueue(Waiting)
    /\ UNCHANGED <<db, sync, popped, connected,
                   delivered, shed>>

\* Fault: the result of the store is not looked at.
AfterRefusalPops(m) ==
    /\ task[m] = "refused"
    /\ mem' = PopLast(mem)
    /\ task' = [task EXCEPT ![m] = "kept"]
    /\ Enqueue(Waiting)
    /\ UNCHANGED <<db, sync, popped, connected>>
    /\ UNCHANGED inboxHistory

\* Back on the loop after a refusal: the message stays in memory.
AfterRefusal(m) ==
    /\ task[m] = "refused"
    /\ task' = [task EXCEPT ![m] = "kept"]
    /\ Enqueue(Waiting)
    /\ UNCHANGED <<mem, db, sync, popped, connected>>
    /\ UNCHANGED inboxHistory

-----------------------------------------------------------------------------
(* _cmd_sync_next_message.                                                   *)

\* The message's frame is written: dropped if nobody can take it.
Send(m) ==
    /\ Enqueue(Frame(m))
    /\ shed' = IF Writable THEN shed ELSE shed \cup {m}

\* Fault: the head of the queue is looked at and stays.
SyncFromMemoryPeeks ==
    /\ connected /\ sync = "idle"
    /\ mem # <<>>
    /\ Send(Head(mem))
    /\ UNCHANGED <<mem, db, task, sync, popped, connected,
                   delivered, raced, wronged>>

SyncFromMemory ==
    /\ connected /\ sync = "idle"
    /\ mem # <<>>
    /\ mem' = Tail(mem)
    /\ Send(Head(mem))
    /\ UNCHANGED <<db, task, sync, popped, connected,
                   delivered, raced, wronged>>

\* Fault: an empty memory queue is answered without asking SQLite.
SyncWithoutDatabase ==
    /\ connected /\ sync = "idle"
    /\ mem = <<>>
    /\ Enqueue(NoMore)
    /\ UNCHANGED <<mem, db, task, sync, popped, connected>>
    /\ UNCHANGED inboxHistory

SyncAskDatabase ==
    /\ connected /\ sync = "idle"
    /\ mem = <<>>
    /\ sync' = "thread"
    /\ UNCHANGED <<mem, db, task, popped, connected, out>>
    /\ UNCHANGED inboxHistory

\* Fault: the row is read and not deleted.
FetchRowKeeping ==
    /\ sync = "thread"
    /\ sync' = "resume"
    /\ popped' = IF db = <<>> THEN popped ELSE Head(db)
    /\ UNCHANGED <<mem, db, task, connected, out>>
    /\ UNCHANGED inboxHistory

\* The thread takes the oldest row, if there is one.
FetchRow ==
    /\ sync = "thread"
    /\ sync' = "resume"
    /\ IF db = <<>> THEN UNCHANGED <<db, popped>>
                    ELSE db' = Tail(db) /\ popped' = Head(db)
    /\ UNCHANGED <<mem, task, connected, out>>
    /\ UNCHANGED inboxHistory

\* The answer to the command: the row's frame, or "no more messages".
SyncAnswer ==
    /\ sync = "resume"
    /\ sync' = "idle"
    /\ IF popped = NoMsg THEN Enqueue(NoMore) /\ UNCHANGED shed
                         ELSE Send(popped)
    /\ popped' = NoMsg
    /\ UNCHANGED <<mem, db, task, connected,
                   delivered, raced, wronged>>

-----------------------------------------------------------------------------
(* The client and the process.                                               *)

Connect ==
    /\ ~connected
    /\ connected' = TRUE
    /\ UNCHANGED <<mem, db, task, sync, popped, out>>
    /\ UNCHANGED inboxHistory

\* The connection is lost with what its write queue held.
Disconnect ==
    /\ connected
    /\ connected' = FALSE
    /\ out' = <<>>
    /\ shed' = shed \cup {m \in Msgs : InSeq(Frame(m), out)}
    /\ UNCHANGED <<mem, db, task, sync, popped,
                   delivered, raced, wronged>>

ClientReads ==
    /\ out # <<>>
    /\ out' = Tail(out)
    /\ delivered' = [m \in Msgs |->
                       IF Head(out).msg = m THEN delivered[m] + 1 ELSE delivered[m]]
    /\ UNCHANGED <<mem, db, task, sync, popped, connected,
                   shed, raced, wronged>>

Handler(m) ==
    \/ ArriveQueued(m) \/ ArriveRejected(m)
    \/ StoreRow(m) \/ RefuseRow(m) \/ AfterStore(m) \/ AfterRefusal(m)

InboxNext ==
    \/ \E m \in Msgs : Handler(m)
    \/ SyncFromMemory \/ SyncAskDatabase \/ FetchRow \/ SyncAnswer
    \/ Connect \/ Disconnect \/ ClientReads

InboxSpec == InboxInit /\ [][InboxNext]_inboxVars

\* The loop and its worker threads run; the client reads and, as the sync loop
\* of a companion app, keeps asking for the next message.
InboxFairSpec ==
    /\ InboxSpec
    /\ \A m \in Msgs :
         /\ WF_inboxVars(StoreRow(m) \/ RefuseRow(m))
         /\ WF_inboxVars(AfterStore(m))
         /\ WF_inboxVars(AfterRefusal(m))
    /\ WF_inboxVars(FetchRow) /\ WF_inboxVars(SyncAnswer)
    /\ WF_inboxVars(Connect) /\ WF_inboxVars(ClientReads)
    /\ SF_inboxVars(SyncFromMemory) /\ SF_inboxVars(SyncAskDatabase)

-----------------------------------------------------------------------------
(* Properties.                                                               *)

InboxTypeOK ==
    /\ mem \in Seq(Msgs) /\ db \in Seq(Msgs)
    /\ task \in [Msgs -> {"new", "persist", "stored", "refused",
                          "done", "kept", "rejected"}]
    /\ sync \in {"idle", "thread", "resume"}
    /\ popped \in Msgs \cup {NoMsg}
    /\ connected \in BOOLEAN
    /\ out \in Seq(Frames)
    /\ delivered \in [Msgs -> Nat]
    /\ shed \subseteq Msgs
    /\ raced \subseteq Msgs /\ wronged \subseteq Msgs

\* The offline limit bounds both stores: max_size "doubles as the SQLite
\* retention limit", and no interleaving of handlers and sync exceeds it.
RetentionLimit == Len(mem) <= Cap /\ Len(db) <= Cap /\ Len(out) <= OutMax

Accepted == {m \in Msgs : task[m] \notin {"new", "rejected"}}

\* Where a message that was accepted can be found, or why it is gone.
Accounted(m) ==
    \/ InSeq(m, mem) \/ InSeq(m, db) \/ InSeq(Frame(m), out) \/ popped = m
    \/ task[m] = "persist"
    \/ delivered[m] > 0
    \/ m \in shed

\* A message disappears without eviction or a dropped frame only if SQLite
\* refused it and another message's completion popped it from memory: both must
\* happen, a wrong pop_last alone leaves the row in SQLite.
LossNeedsRefusalAndWrongPop ==
    \A m \in Accepted :
        Accounted(m) \/ (task[m] \in {"refused", "kept"} /\ m \in wronged)

Unread(m) == Copies(m, mem) + Copies(m, db) + Copies(Frame(m), out)
             + (IF popped = m THEN 1 ELSE 0)

CopyCount(m) == delivered[m] + Unread(m)

\* A message exists twice only while its handler is between the store and the
\* pop, or after a completion that popped something else; never three times.
DuplicateNeedsRace ==
    \A m \in Msgs :
        /\ CopyCount(m) <= 2
        /\ CopyCount(m) = 2 => task[m] = "stored" \/ m \in raced

\* The inbox implements the abstract mailbox: only queueing a message and storing it
\* make a copy of it, a row is taken once, the client reads each copy once, and what was
\* delivered, evicted or dropped with its connection does not come back.
StatusOf(m) ==
    CASE task[m] = "new" -> "new"
      [] task[m] = "rejected" -> "refused"
      [] task[m] \in {"stored", "done"} -> "stored"
      [] OTHER -> "queued"

Box == INSTANCE Mailbox WITH
    status <- [m \in Msgs |-> StatusOf(m)],
    left <- [m \in Msgs |-> Unread(m)],
    read <- delivered

MailboxSpec == Box!Spec

\* The eviction rules make room with channel messages only: a direct message leaves
\* memory as the head that a sync command takes or as the tail that a completion pops,
\* and SQLite as the row that a sync command's thread takes.
DirectIsProtected ==
    [][\A m \in Msgs \ Channel :
         /\ InSeq(m, mem) /\ ~InSeq(m, mem)' =>
              \/ connected /\ m = Head(mem) /\ mem' = Tail(mem)
              \/ m = mem[Len(mem)] /\ \E n \in Msgs : task[n] = "stored" /\ task'[n] = "done"
         /\ InSeq(m, db) /\ ~InSeq(m, db)' => sync = "thread" /\ m = Head(db)]_inboxVars

\* "Persistence completion must remove the exact queue entry associated with
\* that operation, independent of interleaving pushes" (BUG-027).
CompletionRemovesOwnEntry ==
    [][\A m, n \in Msgs :
         /\ m # n
         /\ task[m] = "stored" /\ task'[m] = "done"
         /\ InSeq(n, mem)
         => InSeq(n, mem')]_inboxVars

\* A stored row does not stay in SQLite for ever while a client stays and asks.
StoredIsFetched ==
    \A m \in Msgs :
        InSeq(m, db) ~> ~InSeq(m, db) \/ ~connected

=============================================================================

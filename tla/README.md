# TLA+ models of OpenHop

The repository is an audit of two programs, OpenHop Core (a mesh-radio protocol stack) and
OpenHop Repeater (a daemon built on it), both Python and asyncio. It does not vendor them: the
47 bug reports and 18 enhancement reports under `src/findings/` quote their code verbatim, in
"Evidence" blocks that name the file and the line range, and those blocks are what the modules
here translate. What the repository runs itself, the check scripts and validators under
`src/docs/` and `src/archive/`, is modelled from the scripts. Where an operation is not quoted
at all it is modelled only as far as quoted code relies on it, and marked `external` in
`PROJECT.json`.

This directory holds TLA+ modules, the TLC configurations that check them on small instances,
and eight modules of TLAPS proofs. `PROJECT.json` maps every definition to its source lines and
lists the runs, the hazards and the theorems.

    tlc -config MCTxDispatcher.cfg MCTxDispatcher     # a run
    tlapm TxDispatcherProofs.tla                      # a proof

## 1. Inventory

For each part: what it keeps, what it does, who it meets, what is hard, and what makes it
correct. "M" is modelled, "P" partly, "-" not modelled.

| | Part | Reports | State | Operations | Correct when |
|-|------|---------|-------|------------|--------------|
| M | Dispatcher transmit path (`openhop_core/node/dispatcher.py`) | BUG-049, 029 | `_tx_lock`, `state`, `_client_repeat_enabled`, `_tx_budget_ms`, `_tx_next_time` | `send_packet`, `_await_tx_budget`, `_refill_tx_budget`, `_debit_tx_budget`, `_send_packet_immediate`, `set_client_repeat_enabled` | one frame in the radio at a time; the lock is always given back; no send goes out without the reserve it was admitted on; one result per accepted frame; nobody waits for ever |
| M | Companion offline messages (`companion/message_queue.py`, `frame_server`, Repeater's `companion/frame_server.py`) | BUG-027, ENH-018 | `MessageQueue._queue`, SQLite rows, `_write_queue` | `push`, `pop`, `pop_last`, `_persist_companion_message`, `_cmd_sync_next_message`, `_enqueue_frame`, connect, disconnect | no message is lost or duplicated; the limit holds in both stores; a stored message is read in the end |
| P | Self-updater (`repeater/web/update_endpoints.py`) | BUG-020, 021, 022 | `_UpdateState` (state, channel, versions, has_update, rate limit), channel file, installed package | check thread, `start_install`/`finish_install`, `snapshot`, `set_channel`, restart | one operation owns the state; results belong to the selected channel; an announcement is newer than what is installed; never left busy |
| P | Check scripts and validators (`docs/*.py`, `docs/triple-verification/*.py`, `archive/**/*.py`) | - | results list, exit status | `check`, assertion loops, summaries | the status and the summary say exactly what the conditions were |
| P | Radio commands over TCP and USB (`hardware/tcp_radio.py`, `usb_radio.py`) | BUG-035, 036 | `_response_events`, `_response_data` | `_send_command`, `_dispatch_frame` | an answer reaches the request it answers; a request ends |
| P | KISS serial adapter (`hardware/kiss_serial_wrapper.py`, `kiss_modem_wrapper.py`) | BUG-030, 031, 033, 034 | RX buffer and escape flags, TX buffer, `is_connected`, configuration, the receive callback | decoder, `wait_for_rx`, workers, `configure_radio` | every frame is delivered once, memory is bounded, the connection flag is true |
| P | Companion callbacks (`companion/base_send.py`, `handlers/text.py`, `login_response.py`, `frame_server/push.py`) | BUG-037, 038, 039 | one command slot, one login slot, lists of push callbacks | send command / login and wait, response handlers, reconnect | a response reaches the caller it answers; a reconnect leaves others' listeners alone |
| P | Packet router (`repeater/packet_router.py`) | BUG-013, 014 | bridges by hash, delivered-packet cache | companion delivery, duplicate suppression | a packet no bridge took is tried again; one failing bridge does not hide another |
| - | Engine and packet history (`repeater/engine.py`) | BUG-015, 016, 017 | recent packets, seen table, TTL | record, group duplicates, reload | bounded groups; the deduplication window survives a reload |
| P | Airtime manager (`repeater/airtime.py`) | BUG-001, 003, 004, 011 | rolling transmit window | `can_transmit`, `record_tx`, reload | use inside any window stays under the limit, whatever the clock does |
| P | Configuration manager and endpoints (`repeater/config*.py`, `web/api_endpoints.py`) | BUG-007 to 010, 012, 018, 022, 023, 040 | the running configuration, the YAML file | update, save, import, export | the running and the saved configuration agree, or the caller is told |
| - | WebSocket heartbeat (`repeater/web/websocket.py`) | BUG-041 | run flag, thread | init, shutdown, ping loop | one heartbeat thread |
| - | Dispatcher callbacks and receive dispatch | BUG-024, 025, 028 | callback slots | invoke, await | invoked once, awaited when awaitable |
| P | Mesh CLI (`repeater/mesh_cli.py`) | BUG-044 to 048 | - | a table of commands | right key, right unit |
| - | Adverts, GPS clock, schedules | BUG-006, 047, 011 | thresholds, timers | schedule, correct the clock | the saved interval is the one used |
| - | Storage, RRD, MQTT, telemetry | BUG-001, 015, 042 | files, rates, an executor queue | publish, update | suppression is honoured, units are right |
| - | SX1262 driver, node lifecycle | BUG-005, 032, 036, 043 | registers, run flag | begin, configure, stop | settings reach the chip; `stop` stops |
| - | API schema, export and import | BUG-008, 019 | field lists | request validation | export followed by import restores |
| - | Web UI | several | - | views | minified build output, quoted only in fragments |
| - | Reports, plans, archive | - | - | - | documents |

How they meet. `send_packet` is called by the repeater's router, by companion bridges and by
adverts, concurrently; it calls `radio.send`, where the radio is an SX1262 driver, a KISS adapter,
or a TCP or USB modem that answers commands through `_send_command`. Received frames go the
other way: driver, dispatcher, handlers, router, companion bridge, `MessageQueue`, and from there
through a worker thread to SQLite and through `_write_queue` to a companion app. The web API
(CherryPy, several threads) changes the running configuration, the updater and the websocket
while the event loop and the worker threads run.

What is hard in this system is the space between two suspension points: a decision taken before an
`await`, a thread or a lock and used after it. That is where most of the reports the models reach
are from (BUG-020, 021, 027, 035, 037, 038, 041, 049). The rest is partial failure: a step that
fails after a previous one has already changed the state (BUG-007, 009, 010, 013, 022, 023, 033,
034). `PROJECT.json` lists each hazard at its line, with the property that would catch it or
the reason no property does.

## 2. Modules

| Module | What it is |
|--------|------------|
| `TransmitArbiter` | abstract: what the dispatcher promises of the radio. An owner and a set of waiters |
| `TxDispatcher` | the dispatcher's transmit path; implements `TransmitArbiter` |
| `TxDispatcherProofs` | its theorems |
| `Mailbox` | abstract: what an inbox promises of a message, whatever its stores and threads do |
| `CompanionInbox` | memory queue, SQLite, sync command and write queue of one companion; implements `Mailbox` |
| `UpdateState` | the self-updater's shared state with its threads and endpoints |
| `UpdateStateProofs` | its theorems |
| `RadioCommand` | overlapping radio commands over one event and data slot per response type |
| `RadioCommandProofs` | its theorems |
| `CompanionReplies` | command and login slots of a companion bridge, and its lists of listeners |
| `CompanionRouter` | routing of received packets to bridges and local identities |
| `ConfigStore` | the configuration in memory, in the file and in components |
| `KissReceive` | `wait_for_rx` against the receiving thread |
| `KissLink` | connect, disconnect, transmit worker and configuration commands of a KISS modem |
| `CompanionProofs` | the theorems of `CompanionInbox` and `CompanionReplies` |
| `KissProofs` | the theorems of `KissReceive` and `KissLink` |
| `CompanionRouterProofs`, `ConfigStoreProofs`, `CheckHarnessProofs` | the theorems of the module in their name |
| `CheckHarness` | how the audit's scripts turn conditions into lines, a summary and a status |
| `MC*` | constants for TLC |

### TxDispatcher

One step is what an asyncio task does between two suspension points, so `pc` has one value for
each place a `send_packet` call can be suspended: `gate` (the sleep of `_await_tx_budget`), `queued`
(waiting for `_tx_lock`), `radio` (in `radio.send`), `post` (the sent callback and the ACK wait, both
still under the lock). `Submit` runs to the first of them that suspends the call; in particular it
reaches the radio in the same step when the gate is open and the lock is free, as
`asyncio.Lock.acquire` does not suspend then. `PassGate` and `Acquire` resume a call.
`FailSend` and `RadioConfirms` are the two ends of `radio.send`: an exception or None takes the early
return, metadata the debit. A KISS adapter answers None to a frame it has accepted (BUG-029), so over
it every send ends in `FailSend` and the budget is never debited. `Cancel` is a task cancelled at any suspension point. `CancelledError` is not an `Exception`, so it passes
the handler around `radio.send` and leaves `self.state` at TRANSMIT, which the model keeps.

Time is `Tick`. The code computes the refill from `time.monotonic()` whenever it looks; the
model refills at the tick, so that `budget` is what a look would yield, and `pace` is what
`_tx_next_time` still is ahead of now. A debit is clamped at zero, and sets `pace` when it leaves less
than the floor, as `_debit_tx_budget` does. Milliseconds are units; only their order against
`Reserve`, `PaceFloor` and `MaxBudget` matters to the path.

`gated` and `overtaken` are history: whether the present send was admitted by the gate, and
whether another send's debit came between its admission and its turn. They are read by
properties only.

### CompanionInbox

A message handler is a task; SQLite runs in `asyncio.to_thread`, so each store is three
steps: the loop hands over (`ArriveQueued`), the thread acts (`StoreRow` or `RefuseRow`), the
loop resumes (`AfterStore` or `AfterRefusal`). `AfterStore` pops the tail of the memory queue, whatever
it is by then. The sync command is three steps in the same way. The memory queue evicts its
oldest channel message at capacity and refuses when it holds direct messages only; the same
rule is assumed of SQLite (external), with the retention limit `Cap`, and SQLite may refuse any row.
`_enqueue_frame` also drops a frame longer than the protocol allows;
the messages of the model fit. `Disconnect` loses the write queue. `shed`, `raced` and `wronged` are history: messages that a
documented rule let go, completions that popped somebody else's message, and the messages
they popped.

`Mailbox` forgets the stores. A message is new, refused, queued or stored, and there are some copies
of it that can still be read: queueing leaves exactly one, storing adds one at most, reading takes
one, and any step may let copies go. Under the refinement `left` is `Unread`, the copies in memory, in
SQLite, in the hands of the sync command and in the write queue. What the mailbox excludes is that a row
is answered twice, that something delivered or dropped comes back, and that an arrival is answered
"queued" and is not there. What it allows, losing a copy at any time, is what
`LossNeedsRefusalAndWrongPop` is about.

### UpdateState

Each method of `_UpdateState` runs under its lock and is one step; everything between two
methods interleaves. A check is `SetChecking`, `ReadChannel` (unlocked), `FetchSucceeds` (clears the
rate-limit hold) and `FinishCheck`, or `FailCheck`, or `FailCheckRateLimit`. `_finish_check` may raise too,
after it has stored the version (`FinishRaises`), and its check then ends by `FailCheck`; `broken` records it. The install endpoint is
`RequestInstall`, which decides on a snapshot, and `StartInstall`, which checks the state again. The
part of `_do_install` between start and finish is not quoted, so `FinishInstall` lets the
package of any channel end up installed. `set_channel` reads the state without the lock
(`RequestChannel`) and acts later (`SetChannel`). The channel file is opened for writing, so a save that
fails leaves the old channel, or a truncated file that names none. `Restart` loses everything but the
file and the package; the code that reads the channel file is not quoted, so a start on a truncated one may
come up with any channel.

### RadioCommand

`_send_command` of the TCP and USB radios registers an event under the response type it expects,
drops an older response, writes the frame, waits with a timeout, reads the response from the data
slot and always removes both slots. Only the wait suspends the task, but the reader is a thread
and can come between any two critical sections. So a call is cut at those (`Register`, `Write` or
`WriteFails`, `Resume` or `Timeout`, `Unregister`), and `LoopFree` keeps other calls, not the reader, out
of the pieces. `Dispatch` is the reader delivering a response to whoever is registered for its type
at that moment; it is not quoted, so whether a response nobody waits for is stored is left open.
`WriteFails` covers a `flush()` that raises
after the bytes have gone out, so the answer to a failed call may still come. The modem may answer in any
order, late or never. `served` and `contended` are history: calls whose
event ended their wait, and calls that shared their type with another one or with its late
response.

### CompanionReplies

A command or a login is a coroutine suspended while it sends and while it waits: `Start` fills the
slot of its kind whoever has it, `Sent` and `SendFails` end the send, by an exception or a
cancellation in the second case, `Return` is the event or the timeout, `Cancel` a cancellation of the wait;
these run the `finally` clause (`CleanUp`), which empties the slot whoever has it by then and removes the
password of the hash. For a login the clause is seen at work around the wait only
(`triple_validate_candidates_v2.py:149-175`); `_start_request`, which sends it, is not quoted, so a login
whose send fails may also leave its callback and its password behind, and `SlotMeansInFlight` excepts it. A text is captured by the slot's
callback (`CaptureText`) or published (`PublishText`); a login response is captured or, with no callback
or no password, dropped. What the login handler does between decryption and its callback is not
quoted, so a response may be captured or dropped when the password of its hash is gone.
`SetupPushCallbacks`, made at each connection, clears the lists of every listener and registers the frame server's own
handlers. `Subscribe` is another listener. `overlapped`, `usurped` and `cleared` are history. That a
connection removes the other listeners (BUG-039) is what it does, and no property denies it.

### CompanionRouter

Each copy of a packet is routed by its own task, suspended in the helper and in each bridge.
`RoutePath`, `RouteResponse` and `RouteLocal` are the three quoted branches; `CheckThenOffer` is the
deduplication check and the start of a fan-out, `OfferEnds` the answer of one bridge and, with the
last one, the mark. Bridges of a fan-out answer in any order, although the code asks them in the
order of a dictionary, which the properties do not depend on. `AfterBridge` lets an exception take the task, as the
code has no handler there (BUG-014). A bridge or helper may answer yes, no or raise; only one with the key
of the packet can answer yes, and it need not (BUG-013's own case is an owner that does not authenticate).
The docstring of `_mark_delivered_to_companions` says that a packet that raised on every bridge is offered
again with the next copy; the code marks it all the same, and no property can say otherwise.
`SuppressedNeedsFullOffer` bounds what the mark does mean: every entry, open or expired, cost a copy of
its own that all of its bridges were asked about, whatever they said. Time is `Tick`, an entry lasts `TTL` ticks. The path helper is
taken to be present. What nobody consumes is forwarded by the engine, which is not modelled.

### ConfigStore

The dictionary, the file, the copies two components keep, and requests of seven kinds on server
threads. A request edits the dictionary (`Edit`, after `CheckPassword` for the password), then saves:
`Open` truncates, `Dump` writes one setting at a time from the dictionary of that moment, `Close` ends
the save; `OpenFails` and `DumpFails` are the two exceptions `save_to_file` turns into False.
`AfterSave` is what the callers do next: `update_and_save` returns early or reloads components, and that
live update may fail or raise, before or after a component has reloaded (`LiveUpdateFails`; BUG-007 is about an answer
that hides it); the import saves again whatever came of it, the CLI trips over the Boolean. `Crash` may
come anywhere and `Restart` rebuilds memory and copies from a file that holds a complete dump. Two saves at
once leave one of the dumps or a mixture (`Torn`), which depends on buffering. A part of a dump may still
parse as a smaller dictionary: `Torn` stands for that as well, and the model ends where a start meets it, as
the quoted code does not show what it makes of one. `change_password` without a configuration manager is `OpenFails`:
the edit stays and the answer is an error. `quick` is `set_mode` and `set_duty_cycle`, which save
nothing (BUG-012); `radio` is an `update_radio_config` that meets a bad bandwidth after it wrote the
power (BUG-010); the save of a good one is not quoted. `outcome`, `mixed`, `harmed`, `updated` and `edited`
are history.

### KissReceive

`wait_for_rx` closes over the callback it finds and installs its own, so the installed callback is a
chain: the sequence of waits called one after the other, with the application's at its end. `Start`,
`Cancel` and `Resume` are steps of the event loop; `Frame`, `Ask`, `SetResult` and `Deliver` of the
receiving thread, which asks `future.done()` and sets the result in two steps. `set_result` from that thread
puts the task into the loop's queue and does not wake a loop that sleeps in its selector (`asleep`).
`set_result` raises (`Raises`) if the future was cancelled between the two steps, and on a loop in
asyncio's debug mode (`debug`, a choice of `Init`) for every wait: `call_soon` checks the thread there, after the
future has its result and before its task is told (BUG-031, `triple_validate_candidates_v1.py:229-278`). The temporary callback
of an outer wait catches and logs the exception, and so does the decoder; the rest of the chain does not
see the frame. A frame that comes between the assignment of the callback and the `await` that follows it
is taken for one that comes after it.

### KissLink

`connect` opens the port, sets the flags, starts the worker and only then configures the modem:
`Open`, then `Configured`, `ConfigureFails` (False, everything left running) or `ConfigureRaises`.
`connect` does not ask whether the
adapter is connected, so it may also come on top of another one. `Disconnect` sets the flags; its waits for
the threads are not quoted beyond "Wait for threads to finish", so they end with the last connect's worker
(`Joined`) or are given up while it runs (`JoinTimesOut`), and `Close` closes the port under whoever is still
writing. A worker looks, pops and writes in separate steps, and each may meet another worker
or a closed port; an exception ends it and leaves `is_connected` set. A command is one step: its
caller and the worker share a deque whose operations are atomic, and the local configuration is read
by nobody else. A write that raises may have reached the port, as `flush()` comes after `write()`. `accepted`, `wire`,
`died`, `doubled` and `left` (workers a call went on without) are history.

### CheckHarness

Sixteen scripts, reduced to how each treats a false condition (collect, raise, `assert`, a pytest
test), in which order its checks belong to which finding, when its PASS lines are printed (at
each check, at the end, or never), and what it counts (each finding's checks, all of them, or nothing). The
conditions themselves are data; `map` gives the lines of each script whole, as the definition stands for all of them. The `assert` scripts are modelled with and without `python -O`, which
removes assert statements: such a run judges nothing and succeeds. The properties except it
explicitly, so that it is written down rather than hidden.

## 3. Runs

| Run | Instance | Shows |
|-----|----------|-------|
| `tx` | 3 callers, a bucket of 3, a reserve of 1, a floor of 2, a cost of 2 | the lock serializes; the budget gate is bypassed only by a queued send that another send's debit overtook; the dispatcher implements the arbiter; queued sends are served and the gate does not wedge |
| `tx_gate` (violation) | 2 callers, client-repeat on | the second of two concurrent sends transmits without the reserve (BUG-049) |
| `inbox` | 2 direct and 1 channel message, limit 2, 1 outgoing frame | limits; a message is lost only when SQLite refused it and another completion popped it; a message is twice there only around such a race; the inbox implements the mailbox; a stored row is fetched by a client that keeps asking |
| `inbox_pop` (violation) | 2 direct messages | a completion pops another message (BUG-027) |
| `update` | 2 checks, 2 installs, 1 channel change, 2 channels, failures of each | an install loses the state only to a check it overtook; results match the channel unless it moved under the check; announcements are newer, unless publishing broke off; the updater is not left busy |
| `command` | 3 calls of one response type and a fourth of another | no registration outlives its call; no response is consumed twice; a call that shares its type with nobody gets its own response; every call ends |
| `replies` | 4 mixes of up to 3 commands, 3 logins, texts and login responses; 2 other listeners, 2 connections | a slot in use belongs to a request in flight, or to a login whose send failed; a request loses its slot or password only to an overlapping one; nobody is called twice with a message |
| `router` | up to 3 copies of one packet, or 3 packets, over 2 bridges and a helper; an entry lasts 2 ticks | a bridge sees a packet twice in a window only by overlapping fan-outs or at the final hop; a copy is suppressed only while an entry is open, and each entry cost a full offer of a copy; an owner misses a copy only for a stated reason |
| `config` | 5 mixes of 3 requests, 6 settings, 1 restart | file, memory and copies differ only where a save failed, was cut off, overlapped another or was never made, or where the live update failed or does not reach the copy |
| `kiss_link` | 3 commands on 2 parameters, a buffer of 2, 3 connects | a worker runs beside a later one only if a failed connect, an abandoned wait or a connect on top of another left it behind; no frame is written twice, and while one worker runs they are written in order; the configuration differs from what was accepted only by an overrun; a connected adapter is served and queued frames are taken unless a worker died |
| `kiss_receive` | 3 waits, 3 frames, a loop with or without debug mode | the application misses a frame only where a wait was cancelled between the question and the answer, or on a debug loop; a wait loses its callback only by overlapping; a completed wait returns if something wakes a loop without debug mode |
| `harness` | all scripts, two false conditions or one exception | status, PASS lines and summary are what the conditions were |

Each violation is a statement of a docstring or report that the quoted code does not keep; the run
beside it states what the code does keep instead, exactly: the violation names the race, the
passing property says that nothing but that race breaks the promise.

**Why the bounds are enough.** `tx`: a bypass takes two callers (one spends, one waits), an
overtaking newcomer a third; one send closes the gate for several ticks because it costs more
than it leaves. `inbox`: two direct messages make the tail move, the channel message is
what eviction prefers, a limit of two makes both stores overflow, one outgoing frame makes the
write queue drop. `update`: two checks are needed for one to end in the other's time, two installs
to run at once, two channels that publish a newer and an older version for a stale result to
matter. `command`: a request that times out, one whose slot it removes, and one that registers
between; the fourth has a type of its own, to show that types do not interfere. `replies`: the third
request of a kind can start between the end of a first and of a second one; two of the three logins
share a hash. `router`: with three copies one can be marked while another fans out and a third is
checked; the packets cover each branch, a hash shared with the helper, a packet without a key and a
final hop, and packets meet only in time. `config`: an edit can fall into a dump that overlaps
another save; the mixes put each kind beside those it shares a setting or a failure with. `kiss_link`: a third
connect can find two workers left behind; two commands of one parameter tell the last accepted one from
an overrun. `kiss_receive`: three waits end in every order, nested and not, and a third frame meets
callbacks left installed by the others. `harness`: two failures tell counting apart from flagging.

Bounds that are not data: `Items` (what a validator's loop goes over), each message, check,
install, channel change and request happens once (a second one is another element of the set).
`MaxConnects`, `MaxFrames` and `MaxRestarts` bound counters in the guards, and `Traffic` the mixes of
requests and messages one behaviour may have.
Deadlock is checked except in `harness`, where a script ends, and in `command`, `replies`, `router`,
`config` and `kiss_receive`, where every call may have been made and be over.

## 4. Fairness

`TxDispatcher`: time passes; a driver's `send` returns; the callback and the ACK wait end (they have a
timeout); a task whose sleep is over runs. `Acquire` needs strong fairness, and the code gives
it: `asyncio.Lock` wakes its waiters first-in first-out, so a waiter is not passed over for ever,
although another may hold the lock every time it is looked at. Nothing forces a caller to submit,
a task to be cancelled, or client-repeat to change.

`CompanionInbox`: threads and the loop run; a client connects and reads. The sync command has strong
fairness: a companion app asks again until it is told there is nothing more, and while an answer is
under way it cannot. The property is about a client that stays: it allows for a disconnect.

`UpdateState`: threads run, a fetch ends by an answer or its timeout, an installer exits. No
request is fair.

`RadioCommand`: a write ends, and `asyncio.wait_for` fires. The modem owes no answer.

`KissLink`: a worker thread that can go on does. Nothing forces the owner to connect, disconnect or
end a configuration.

`KissReceive`: an awake loop resumes what is ready, and the thread finishes a frame it has. Nothing wakes
a sleeping loop, which is the defect of BUG-031; `CompletedReturns` therefore says that a
completed wait returns in behaviours in which the loop is awake again and again, and on a debug loop it says so of
cancelled waits only.

`CompanionReplies`, `CompanionRouter` and `ConfigStore` are checked for safety only: their calls end by
timeouts or by the network and storage they wait for.

## 5. Proofs

TLC checks small instances; the theorems hold for every value of the constants that satisfies the named
assumption in the module (`TxAssumption`, `InboxAssumption`, `UpdateAssumption`, `CommandAssumption`,
`RepliesAssumption`, `RouterAssumption`, `StoreAssumption`, `ReceiveAssumption`, `LinkAssumption`,
`HarnessAssumption`). TLC evaluates the same assumptions in the runs. Every safety invariant, action
property and refinement that a passing run checks is proved; so are the type invariants (`TypeCorrect`,
`InboxTypeCorrect`, `RepliesTypeCorrect`, `ReceiveTypeCorrect`, `LinkTypeCorrect`), which the runs therefore
do not check again, and the typing of `CheckHarness` is the conjunct `Placed` of its invariant.

Some theorems state properties that no run lists, each checked by TLC on the instance of its component's
run before it was proved: `SecondInstallNeedsTrample`, `BusyHasThread`, `GateComesCloser`,
`ReadyIsFinished`, `DirectIsProtected` and the mailbox's `ReadIsBounded`. `BusyHasThread`, `GateComesCloser` and
`ReadyIsFinished` are what the liveness
properties rest on that is not fairness: the thread that ends a busy state is there, the ticks that
open a gate are numbered, and a wait that can return is in the loop's queue.

`TxDispatcherProofs`, for any set of senders and any budget parameters:
- `TypeCorrect`: the budget stays in `0..MaxBudget`. Needs the debit's clamp and `RefillRate > 0`.
- `LockCorrect`: `LockIsTransmitter` is inductive with `TypeOK`.
- `RadioStateCorrect`: `RadioMeansTransmit` needs `LockIsTransmitter`: a send that ends resets
  the state, and only the lock says that no other send is in the radio then.
- `AdmissionCorrect`: a gated send that waits and was not overtaken still has its reserve. Time only
  adds to the budget (`TickKeepsGate`), and a debit marks everyone who waits.
- `GateCorrect`: the action property `OnlyOvertakenSendsBypass`, from the invariant above.
- `GateProgressCorrect`: `GateDistance`, the pace still to wait and the budget still missing, is a variant of
  `GateNeverWedges`. It falls with each tick on a closed gate, since the bucket can hold the
  reserve, and only a confirmed send's debit makes it rise. That it is reached is left to TLC.
- `DispatcherImplementsArbiter`: step simulation under `owner <- holder`,
  `waiters <- Waiting`; the lock's invariant rules out a send that waits and holds.

`UpdateStateProofs`, for any sets of requests and channels: type correctness, strengthened by
`FlightOnChannel` (what a check fetches for is a channel, and the selected one unless `set_channel` ran
in between), without which `FinishCheck` would publish an unknown version; `OwnershipCorrect`, which also
proves `SecondInstallNeedsTrample`: a second install starts only after such an overtaken check ended;
`ResultCorrect`, again from `FlightOnChannel`; `AnnouncementCorrect`, but for a version stored by a
`_finish_check` that raised; and `BusyCorrect`: a state that refuses requests
belongs to a check or an install that has not ended.

`RadioCommandProofs`, for any sets of calls and response types:
- `RegistrationCorrect` from `EventOfType`: an event is registered under its own call's type. Without that
  conjunct a call that leaves could leave its own registration behind under another type.
- `ConsumptionCorrect` from `OnePlace`: a response is with the modem, in the slot of its type, or with one
  call, and in the slot and with a call only while that call leaves. The proof needs that the
  read and the removal are one turn of the loop (`LoopFree` in `Resume`).
- `OwnAnswerCorrect` from `AloneOwnsSlots`: a call that met nobody still owns the registration, and
  its event is set only with its own response in the slot.

`CompanionProofs`, for the inbox with any messages, channel messages among them, limits, and with or without
SQLite. What `Pushed`, `PopLast`, `Tail` and `_enqueue_frame` do to the number of copies of a message in a queue
is stated once in lemmas (`PushedProperties` and those beside it); the oldest channel message exists because `<`
is well-founded (`FirstChannelIsThere`).
- `LimitCorrect` from `Bounded`: the types, the limits, and that the sync command holds a row only between its
  thread and its answer (`RowOnlyOnResume`), without which a fetch could overwrite one.
- `DuplicateCorrect` from `Counted`: where the handler of a message is bounds its copies. Each step keeps,
  makes, moves or completes (`CountStep`), and only queueing and storing make one.
- `InboxLossCorrect` from `Traceable`: a stored message is somewhere other than in memory, or gone for a
  reason of its own (`Kept`); an unstored one is there too, or in memory, or was popped for another.
- `InboxImplementsMailbox`: step simulation, from `Bounded` and `Counted`; `ReadBoundCorrect` is the mailbox's
  promise of the inbox.
- `ProtectionCorrect`: the victim of a push is a channel message, so a direct one leaves a store by a sync
  command or a completion's pop only.

`CompanionProofs`, for the replies with any requests, messages and listeners:
- `SlotCorrect`: every end of a request empties its kind's slot, but for a login whose send failed (`Lingers`),
  and only requests in flight fill one.
- `LossCorrect` from `Met`: two requests of one kind that are in flight at once have both met, so the one
  whose `finally` empties the slot of the other is recorded against it.
- `ListenersCorrect` from `Once`: no listener is in a list twice.

`CompanionRouterProofs`, for any bridges, packets, finite set of copies and TTL:
- `RoutingCorrect` from `Right`: where a task is says which identities have answered it.
- `SuppressionCorrect` from `Offers`: a task in its fan-out has asked exactly the bridges that are no longer to do, and
  the entries of a packet, open and expired, are at most its copies that were offered in full.
- `ReceiptsCorrect` from `Paced`: without overlap, the copies received are at most the windows that expired and the
  open one. It counts copies, so it needs `Copies` to be finite.

`ConfigStoreProofs`, for any requests and any order of the writer:
- `FileExplained`: `IncompleteIsExplained` is by itself inductive with `TypeOK`.
- `FileCorrect` from `DumpFollows`: what a dump has written so far agrees with memory, except for what
  others wrote since, who have not completed a save then (`Fresh`).
- `CopiesCorrect`, again from `Fresh`; a live update that failed counts as one that has not come through.

`KissProofs`, for the receiving side with any finite set of waits and any number of frames:
- `ApplicationCorrect` from `Accounts`: a wait whose result is being set has not been spoiled before, so each
  spoiled wait costs one frame; on a debug loop the completed ones are the spoiled ones that were not cancelled.
- `ChainCorrect` from `Nested`: of two waits one began on top of the other, and the callback the younger one
  puts back still holds the older one's, or one the older began on top of is over.
- `ResumptionCorrect` from `Told`: the loop has been told of exactly the waits that are cancelled or, without the
  debug mode, completed.

`KissProofs`, for the link with any commands, buffer size and number of connects:
- `ConnectionCorrect` from `Served`: a connected adapter has its stop flag clear.
- `WorkersCorrect` from `Followed`: before the adapter is down or closing, the last worker has ended or was left
  behind, and only connects from there, or on top of another, start a new one; `OrderCorrect`, its order from `Alone` and `Lined` (what was
  written, what the one worker holds and what is queued follow each other in the order of acceptance), that no
  frame is written twice from `Apart`: a command is unsent, queued once, in one worker's hand, or written
  once, however many workers there are.
- `ConfigCorrect`: inductive with `TypeOK`.

`CheckHarnessProofs`, for loops of any length, from `Placed` and `Recorded`: the checks that failed are exactly
those passed by that do not hold, a PASS line stands only beside a condition that was judged and held, and a
summary is written once, at the end, from all of them. `ExitCorrect`, `PassLinesCorrect` and
`SummaryCorrect` are read off it. The plan of a script is a sequence whatever `Items` is
(`FindingsIsSequence`, `ScriptLength`).

Only model-checked: the liveness properties `LockIsServed`, `GateNeverWedges`, `StoredIsFetched`, `BusyEnds`,
`RequestEnds`, `QueuedIsTaken` and `CompletedReturns`, as fairness and `ENABLED` are out of the prover's
reach; and the two violations, which are counterexamples.

## 6. Not modelled

- The budget's float arithmetic, encryption, packet formats, the dispatcher's receive side.
- The middle of `_do_install` and the progress stream: not quoted.
- A failing `Thread.start` after `start_install`: the endpoint has no handler quoted for it. Listed as a
  hazard.
- The KISS decoder (BUG-030): a buffer that grows without a cap; any bound in a model would be the model's
  own. The same holds of the duplicate list of BUG-016 and the executor queue of BUG-015.
- The airtime window (BUG-011): its error is the size of a clock correction, and the quoted clock code does
  not say when it corrects.
- The waits of `disconnect`, `_start_request`, the sending of a login, the loader of the channel file, and what a start
  makes of a damaged configuration: not quoted. Each is left open in the model, which may take either outcome, or ends it.
- The WebSocket heartbeat (BUG-041): the lines of `init_websocket` that start the thread are not quoted.
- The forwarding engine, and the branches of `_route_packet` that are not quoted.
- The nested update of BUG-018 and the merge of an import: which keys are written is data.
- The branch of `CompanionInbox` without SQLite is written (`HasSqlite`) and not run: it has
  no worker thread and no race.
- The rest of the mesh CLI, adverts, storage, driver registers, API schema: sequential code whose defects are
  a wrong key, unit or field. A unit test reaches them; a state machine adds nothing.
- The Web UI is minified build output.

Some statements of the reports are false in one step by construction of the code and are not worth a
counterexample: that only one operation owns the updater (BUG-020), that a radio command gets the
response of no other (BUG-035), that an accepted KISS frame is not answered as failed (BUG-029),
that a packet is marked only when a bridge received it (BUG-013). The
modules contain the step, and the properties say how far its consequences go.

## 7. Plan

Done: the dispatcher, the inbox, the updater, the harness, the radio commands, the companion's replies,
the router, the configuration and the KISS adapter, each with its proofs, and two abstract specifications.
Left: composition. `RadioCommand` as the radio under `TxDispatcher`, so that what a command returns is
what `radio.send` returns; `CompanionRouter` over `CompanionInbox`, for a packet's way into SQLite.

# Verification of the Blecon device SDK's ports

TLA+ models of the Blecon device SDK, model-checked with TLC. The invariants and
refinements that the runs check, of both ports and of the example applications,
are also proved with TLAPS, for instances of any size; liveness is only
model-checked (section 5).

The SDK's core (`src/lib/*/libblecon.a`) is a library without source. What the
repository holds in source, and what these modules model, are the two ports
underneath it, `src/ports/zephyr` and `src/ports/nrf5`, and the applications on
top of it, `src/examples`. The ports are where threads, interrupts, radio events
and bounded buffers meet the library's single-threaded callbacks, and where
nearly all of the state is.

Paths below are relative to the repository (`src/...`); `E` abbreviates
`src/ports/zephyr/src/blecon_zephyr_`, `N` abbreviates
`src/ports/nrf5/src/blecon_nrf5_`.

## 1. Inventory

### How the system fits together

The library is driven by an event loop. A component registers events; anyone
(a thread, an interrupt) signals an event, and the loop runs its callback on
main. The library calls the Bluetooth port to advertise, scan, open and close
bearers and send on them; the port calls the library back when a link, a
bearer, a buffer or a report arrives. On Zephyr those calls come from main, the
Bluetooth receive thread, the system work queue and the DFU thread, and share
the library under one recursive lock. On nRF5 everything but the app timer's
interrupt and the SoftDevice's own work runs on main, and the SoftDevice's
events wait in a queue until main handles them. An application initiates a
connection, gives the library a request and its operations, and is called back
on main as they are done; what it sets from the Bluetooth host's callbacks, from
timers and from its own threads it shares without a lock.

| Component | Source | State | Operations | Module |
|---|---|---|---|---|
| Event loop (Zephyr) | `E`event_loop.c | `k_event`, `events_count`, recursive mutex, local mask and snapshot of `run` | register, signal, break, lock, unlock, run | `EventLoop` |
| Event loop (nRF5) | `N`event_loop.c | event table, SDK scheduler queue | register, signal, run | `Nrf5EventLoop` |
| Bluetooth links (Zephyr) | `E`bluetooth.c | kept connection, its reference | connected, disconnected, disconnect | `ZephyrLink` |
| L2CAP (Zephyr) | `E`l2cap_server.c, `E`l2cap_bearer.c | bearer's link, channel, credits, transmit pool | accept, init, connect, send, close, cleanup, channel callbacks | `ZephyrLink` |
| GATT bearers (Zephyr) | `E`gatts_bearer.c | `connected`, close task | send, close, CCC callbacks, notify done | `ZephyrGatts` |
| Modem UART transport (Zephyr) | `E`ext_modem_uart_transport.c | ring buffer, error flag, event | exchange, receive interrupt, event callback | `UartTransport` |
| Firmware updates (Zephyr) | `E`memfault_ota.c | `downloading_update`, two FIFOs, flash context | check, status, chunk, error, DFU thread, install | `MemfaultOta` |
| Advertising and scan (nRF5) | `N`bluetooth.c | sets' flags and count, current and next set, rotation timer, `is_scanning` | set_start, set_stop, rotate, scan_start, scan_stop, SoftDevice events | `Nrf5Advertising` |
| L2CAP (nRF5) | `N`l2cap_server.c | cid, credits, three buffer queues, `closing` | send, close, every channel event | `Nrf5L2cap` |
| GATT bearers (nRF5) | `N`gatts_bearer.c | `connected`, pending count, MTU, close task | send, close, GATTS and GAP events | `Nrf5Gatts` |
| Timer (Zephyr) | `E`timer.c | `k_timer`, its event | set, cancel, expiry | `ZephyrTimer` |
| Timer (nRF5) | `N`timer.c | app timers, `_monotonic_ticks` and its offset, the armed timeout | set, cancel, expiry, update by main and by the monitor | `Nrf5Timer` |
| Advertising and scan (Zephyr) | `E`bluetooth.c 167-375, 388-479 | sets' identities and handles, the host's connection objects | new, update, start, stop, scan, connection callbacks | `ZephyrAdvertising` |
| Coexistence example | `src/examples/zephyr/coexistence/hr.c` | its connection, two bits, a thread | connection callbacks, poll | `HeartRate` |
| Large-request example | `src/examples/zephyr/large-request/main.c`, `src/examples/nrf5/large-request.c` | buffer position, busy operations | upload, operations' callbacks, commands | `LargeRequest` |
| Devboard example | `src/examples/zephyr/devboard-demo/` main.c, blecon_led.c | request flags, LED's variables, semaphore, timer | commands, callbacks of library, host and timer, LED thread | `DevboardDemo` |
| NVM, NFC, cryptography | `E`/`N` nvm, nfc, crypto | one blob; one message; key handles | read/write; emulate; encrypt, agree, sign | none, see 8 |
| Mutex | `E`/`N` mutex.c | a recursive mutex; nothing | lock, unlock | `EventLoop` |

### The hard behaviours, and what makes each component correct

* **Event loops.** A signal may be posted between the wait, the clear and the
  walk over the snapshot, or find the scheduler's queue full. Correct: every
  signal leads to a callback after it, callbacks never overlap each other or a
  thread in the library.
* **Links and channels.** Callbacks of three threads, of which some look at
  state before they take the lock; a link may be gone by the time its events
  are handled. Correct: what belongs to a session ends with it, is given back
  exactly once, and never makes the next peer be refused.
* **Flow control and buffers.** Credits, transmit pools, queues of buffers
  whose owner is the stack. Correct: nothing is freed while the stack works on
  it, nothing is lost, every send is answered.
* **Advertising (nRF5).** One handle shared by up to three sets; an interrupt
  anywhere in main's calls. Correct: the count follows the flags, nothing is on
  the air after the last stop, each set comes round.
* **UART.** Lines without numbers, a receive interrupt, a ring buffer that
  overflows, exchanges that fail half way. Correct: replies go to their
  requests, no event of the modem goes unheard.
* **Firmware updates.** A thread that main preempts anywhere, downloads that
  fail and start again, restarts, a trial boot that is confirmed or reverted.
  Correct: only whole images are installed and run, and an update ends.
* **Timers.** An expiry next to the loop's wait; 24-bit counters that wrap, read
  by main and by an interrupt; 32-bit products. Correct: no expiry is lost, the
  clock is never behind, no timeout is refused.
* **Coexistence.** Two parties with one host: every callback reaches both, and
  connection objects are few. Correct: each takes only its own connections, no
  start is refused, both advertise again after a link.
* **Examples.** Operations used again while others are with the library,
  requests that fail anywhere, an LED set from four contexts. Correct: what is
  uploaded is the buffer, and the LED's thread sleeps only when it shows what
  was set last.

The hazards that follow from this, each at its line and with the properties
that cover it, are listed in `PROJECT.json`.

## 2. Modules

Each component has one module: its state as variables, one action per handler
(split where another actor can come in between), and its properties. `MC*.tla`
gives the module its model values; `MC*.cfg` the bounds and properties.

| Module | What its state and actions stand for |
|---|---|
| `EventDelivery` | The promise of `src/include/blecon/port/blecon_event_loop.h`: the events owed a callback, the callbacks still to come, the one that runs. `Signal`, `Raise`, `Return`. |
| `EventLoop` | Zephyr's loop. `pc` walks through `blecon_zephyr_event_loop_run`: `Wait`, `Clear`, `LoopLock`, the callback, `LoopUnlock`, the next event; any thread signals, breaks, locks and unlocks at any point. |
| `ZephyrTimer` | Extends `EventLoop`: `SetTimeout` and `CancelTimeout` by whoever is in the library, `OnTimeout` in the kernel's interrupt, which signals the timer's event. |
| `EventLoopProofs` | The proofs about both. |
| `Nrf5EventLoop` | The scheduler queue with signals and SoftDevice entries; the entry that runs keeps its place in the queue, as in the SDK. |
| `Nrf5Timer` | Extends `Nrf5EventLoop`: real time `now` and the counter derived from it; `UpdateDiff`, `UpdateLoad`, `UpdateStore`, `UpdateOffset` are the four steps of the update at which the monitor's interrupt may come in; `Ticks` is `set_timeout`'s arithmetic, modulo the word. |
| `Nrf5EventLoopProofs` | The proofs about both. |
| `ZephyrLink` | Links, session, bearers. `rx` says what the receive thread is in the middle of (its unlocked look at the bearer, its locked check, its taking of the bearer). Channel, credits, pool and work queue stand for the host's L2CAP. |
| `ZephyrLinkProofs` | The proofs about it. |
| `ZephyrAdvertising` | The port's sets over a host that owns the connection objects; `rx` and `wq` are the two threads that report, in the middle of calling everybody's callbacks. |
| `HeartRate` | The application beside it, and the composition of the two. |
| `ZephyrGatts` | `receiving` holds the calls the receive thread has still to make after the stack has changed subscriptions or the link; `sendingOn` is main between `bt_gatt_is_subscribed` and `bt_gatt_notify_cb`. |
| `ZephyrGattsProofs` | The proofs about it. |
| `UartTransport` | `pc` is where main reads a line; `wire`, `fifo`, `asked` are the modem's line, the ring buffer and the unanswered requests. Characters are reduced to the parts of a line. |
| `UartTransportProofs` | The proofs about it. |
| `MemfaultOta` | Main's callbacks, whole, since the DFU thread cannot preempt them; the DFU thread step by step in `dfu.pc`; the library's download client; flash, the upgrade mark and the image that runs; `Restart` at any time, with the boot loader's swap or revert, and the application's confirmation. |
| `MemfaultOtaProofs` | The proofs about it. |
| `Nrf5Advertising` | Main's calls cut where the interrupt can be told apart (`pc`), the interrupt's `Rotate`, the SoftDevice's handle (`air`), scanner and event queue (`reports`). |
| `Nrf5L2cap` | The port's three queues beside the SoftDevice's own (`sdTx`, `sdRx`), and its events between the two. |
| `Nrf5Gatts` | The port's bearers beside the SoftDevice's subscriptions and notifications, and its events. |
| `Nrf5BluetoothProofs` | The proofs about these three. |
| `Requests` | What `blecon.h` and `blecon_request.h` say of the library: a connection, one request, and the operations it holds. |
| `LargeRequest` | The upload: `pos`, `size`, the operations' `busy` flags. |
| `DevboardDemo` | The commands, the LED's variables (`announcing`, `activity`, `shown`) and semaphore, `giving` for whoever has set them and not yet given the semaphore. |
| `Examples` | A device with one of the two, and its user. |
| `ExamplesProofs` | The proofs about them and about `HeartRate`. |

The two event loops are the only modules that share an abstract specification:
both instantiate `EventDelivery` with a refinement mapping. The timers are
composed with their loops, so that an expiry is followed to its callback. The
other modules take the loop for granted in the form proved there (a handler runs
on main, one at a time; a signal is answered), and each composes a component of
the port with the stack underneath it, because the hazards are between those two.

Operators whose comment begins with "Fault:" are variants of the action that
follows them, with one plausible mistake in it. They are no part of `Next`:
replacing the action by its variant must make the property it belongs to fail,
which shows that the property is about the code.

## 3. Runs

Run one with `tlc -workers 2 -config MCX.cfg MCX` in this directory.

| Run | Module | Distinct states | What it asks |
|---|---|---|---|
| `event_loop` | `MCZephyrTimer` | 12 445 | `NoSignalLost`, `MutualExclusion`, `ExpiryPending` (an expiry not answered yet is posted or ahead in the walk), the refinement `ImplementsDelivery`, and under fairness `SignalsAnswered` and `BreakReturns` |
| `nrf5_event_loop` | `MCNrf5Timer` | 594 668 | `ImplementsLossyDelivery`: delivery but for the signals dropped at a full queue; `SignalsAnswered` for those not dropped; `NeverSlow` and, within `TimerTypeOK`, that `app_timer_start` takes every timeout |
| `zephyr_link` | `MCZephyrLink` | 188 056 | `PoolConserved` (no buffer of the transmit pool is lost or given back twice), `ServerCreditsKept`, `SessionHolds` (one reference, open bearers only in the session and on its link), `TakenHasChannel`; `LostLinkFreed` |
| `zephyr_gatts` | `MCZephyrGatts` | 19 737 | `OpenIsSubscribed`, `SendsAccounted`; `BearersClose` |
| `uart_transport` | `MCUartTransport` | 28 961 | `ReplyMatches`; `EventsHeard` |
| `memfault_ota` | `MCMemfaultOta` | 7 719 | `WholeImage` (of the image marked and of the one that runs); `UpdateEnds` |
| `coexistence` | `MCHeartRate` | 12 984 | `KeptApart`, `StartsAccepted`; `AdvertisesAgain` |
| `nrf5_advertising` | `MCNrf5Advertising` | 17 600 | `CountMatches`, `SilentWhenStopped`, `ScanGoesOn`; `Rotation` |
| `nrf5_l2cap` | `MCNrf5L2cap` | 264 503 | `BuffersAccounted` (of the sends the library waits for, and of what the SoftDevice has to receive into), `HeldBuffersKept`, `TakenHasChannel`; `Closes` |
| `nrf5_gatts` | `MCNrf5Gatts` | 1 118 189 | `NoSentLost`, `OpenFitsLink` (open only while subscribed, with the MTU of this link) |
| `examples` | `MCExamples` | 151 661 | `WholeUploads`, `NoWakeupLost`; `UploadsEnd`, `LedSettles`, `AnnouncementEnds` |
| `client_credits` | `MCZephyrLink` with `MCZephyrLinkCredits.cfg` | | violated: see 6.1 |

A module's type invariant is a conjunct of one of its other invariants (or of
the inductive invariant, where there is a proof), not a run's question of its
own. Deadlock is checked in `event_loop` and `coexistence`. In the other runs
the system may stop: loops can be broken out of, a failed assertion stops the
program (and the model, in a `failed` or `halted` state), and bounded histories
run out.

### Bounds

* `event_loop`: two events, one of them the timer's, so that the walk over the
  snapshot has a next event and one already passed; two threads besides main,
  nesting of two, so that the recursive mutex is contended and re-entered.
* `nrf5_event_loop`: a queue of two entries for the timer's event, another and
  the SoftDevice, small enough to be full of repeated signals. A counter that
  wraps at five and is looked at every two ticks, in time for a wrap and the
  start of the next; a word of 64 for numbers whose product needs more
  (`Thousand`, `Frequency`), as the device's 32 bits do; timeouts below, at and
  beyond what the word holds. The theorems of section 5 have the device's own
  numbers.
* `zephyr_link`: one server, one client, two links, two credits each way and the
  pool of four buffers that the configuration makes of
  `MAX_CONNECTIONS` (1, `src/ports/zephyr/Kconfig:134`),
  `BLECON_L2CAP_MAX_CONNECTIONS` and `BLECON_L2CAP_MAX_QUEUED_TX_BUFFERS` (2 and
  2, `src/include/blecon/blecon_defs.h:34-35`). `MaxUnsent = 2`
  bounds what the library sends on one bearer before it is answered. It is a bound
  of the model, no promise of the library: two bearers empty the pool with it
  (`PoolSuffices`, 6.2). A link can be replaced while the events of the last are
  on their way.
* `nrf5_advertising`: all three sets the port allows (the rotation's
  wrap-around, a stopped set between two others), the last one connectable, two
  pending reports.
* `nrf5_l2cap`: two buffers each way and four pieces of memory, so that buffers
  left by one channel meet those of the next; two credits (fewer than the
  buffers sent); three pending events; both ways a link may end
  (`EndReports`).
* `nrf5_gatts`, `zephyr_gatts`: two bearers, since one takes the other's
  completions, and two unanswered sends each. The bearers of `nrf5_gatts` are
  interchangeable and its properties are safety, so symmetry is sound.
* `uart_transport`: two exchanges (one to be late, one to be confused by it),
  two modem events, a ring buffer of four parts (less than two lines).
* `coexistence`: two sets of the port's, one connectable, an application's set,
  and the three connection objects of `coexistence.conf` (two are not enough,
  see 6.2).
* `examples`: two send operations, chunks of two bytes, buffers of one byte, of
  two whole chunks and of three and a part, for which the operations are used
  twice; three
  commands (an upload, one while it runs, one after it).
* `memfault_ota`: images of three chunks with two in flight (the client must be
  given a chunk back to finish), three downloads (the chunks of one that failed
  meet the next, twice).

## 4. Fairness

Fairness is assumed of the code's own threads only, and of the outside world
where the code cannot go on without it. Peers never have to connect, subscribe
or send.

* `EventLoop`, `ZephyrTimer`: weak fairness of the loop; strong fairness of its lock, since a
  released `k_mutex` is handed to a waiter and not to whoever comes next;
  callbacks and threads leave the library again.
* `Nrf5EventLoop`, `Nrf5Timer`: the scheduler loop runs, and main finishes the
  update of its clock. A timer need not be set.
* `ZephyrLink`: the receive thread and the work queue finish what they began.
  The report of a lost link is strongly fair: the stack's queue is first in,
  first out.
* `ZephyrGatts`: main leaves `send`, and the receive thread gets the lock.
* `UartTransport`: the interrupt is served, main reads on, the loop runs the
  event's callback. The modem need not answer: reads time out.
* `MemfaultOta`: the DFU thread is scheduled; a download gets its next chunk or
  fails. No fairness for `Restart`.
* `Nrf5Advertising`: main finishes its calls and handles its queue; the timer
  is periodic; advertising events end, as they are started with a limit of one
  event. Strong fairness stands for the queue's order, and for the bound on
  pending reports, which only the model has.
* `HeartRate`: callbacks end, a lost link is reported (strong fairness: the
  work queue's order), the example's thread polls once a second. No fairness for
  peers or the library's starts.
* `Examples`: the library works on what it holds, a connection that is being
  ended ends, the LED's thread is scheduled, whoever set its variables gives the
  semaphore, main finishes what it began, the announcement's timer expires.
  Links may fail at any time and need not.
* `Nrf5L2cap`: main handles events, the SoftDevice transmits what it has
  accepted while the peer gives credits, and ends a link it was told to end.

## 5. Proofs

`EventLoopProofs` proves, for every number of threads, events and nested
locks, under `ThreadAssumption` (main and the "nobody" marker are no threads)
and `BoundAssumption` (at least one event and one lock level):

* `TypeCorrect`: `Spec => []TypeOK`.
* `Exclusion`: `Spec => []MutualExclusion`.
* `SignalsKept`: `Spec => []NoSignalLost`.
* `Delivers`: `Spec => ImplementsDelivery`, that is, the loop implements
  `EventDelivery` (its safety; delivery's liveness is checked by TLC).

`NoSignalLost` alone is not inductive: that a posted bit is in the snapshot
when `Clear` wipes it, and that the walk still has it ahead, depends on where
`run` is. The inductive invariant `IInv` adds

* `OwnerInv`: the mutex's owner is the one thread with a positive depth, and
  its count is that depth (without it `Release` could free a nested lock);
* `LoopLockInv`: around a callback the owner is main;
* `SnapshotInv`: what the loop waits for and what it took are registered
  events, and before `Clear` the snapshot is still posted (so that clearing the
  mask wipes nothing that is not in the snapshot).

`ExpiryKept` (`TimerSpec => []ExpiryPending`) is proved through the refinement
and not from the loop's state: a step of the timer is one of the loop or leaves
it alone (`ImplementsLoop`), an expiry makes the timer's event owed in the sense
of `EventDelivery`, and only a callback ends that.

`InitIInv` and `StepIInv` (one step per action, two lemmas for the mutex) give
`Invariance`; `StepDelivers` maps each action to one of `EventDelivery` or to a
stutter, from `IInv` and its next-state form.

`MemfaultOtaProofs` proves, for images of any number of chunks, any number of
chunks in flight and any number of downloads (`OtaAssumption`: the first two
are positive, the third a natural number):

* `TypeCorrect`: `Spec => []TypeOK`.
* `WholeImages`: `Spec => []WholeImage`.

`WholeImage` speaks of the moment the upgrade is requested; why the slot is
whole then is decided when chunks are queued, and the image that runs after a
restart is the one that was in the slot before. Its `IInv` adds

* `QueueInv`: every queued chunk follows its predecessor of the same download,
  or a reset if it is the first; the head of the queue finds its predecessors,
  and nothing else, in flash;
* `ComingInv`: the same of the chunk that will arrive next while a download
  runs (without it a chunk that arrives could follow anything);
* `WrittenInv`: from the event of a last chunk to the upgrade the slot holds
  that whole image, and there is at most one event, which is what keeps the
  thread from executing an operation in between;
* `TrialInv`: the slot, which holds what the boot loader would go back to, is
  not written to before main has confirmed the image that runs.

`BeginKeeps`, `ArriveKeeps` and `ExecuteKeeps` are the three steps that change
queue or flash; `PrefixExtends` is the fact about sequences they rest on. That
the library's count of chunks is racy (6.2) does not matter here: the invariant
does not mention it.

`Nrf5EventLoopProofs` proves, for queues of any size and any number of events
(`SizeAssumption`: both positive):

* `DeliversLossy`: `Spec => ImplementsLossyDelivery`. How often an event is owed
  a callback is the number of its places in the queue (`OwedInv`), less the one
  that runs (`HeadInv`: that one is at the head). The lemmas that lead there
  count places of an appended and of a shortened queue by bijections.
* `ClockNeverSlow`: `TimerSpec => []NeverSlow`, for counters of any width and
  delays of the monitor up to a quarter of the wrap (`ClockAssumption`). Its
  `ClockInv` says of each step of an update what the interrupt may have done
  since main read the counter.
* `EveryTimeoutTaken`, `ShortTimeoutsKept`, `LongTimeoutsLengthened`: what
  `set_timeout` computes with the device's numbers (`Device`: 24-bit counter,
  32-bit words, 16 384 Hz), for every timeout. Up to 237 566 ms it is exact to
  half a tick, or the minimum of five ticks; from there to 1 023 000 ms the
  bound's product has wrapped and every timeout is the longest, 1024 s; in no
  case is it refused.
* `TimeoutsTaken`: `TimerSpec => []TimerTypeOK`, whose part that is not a type is
  `app_timer_start`'s answer: it accepts the ticks of every timeout, although
  the bound on long timeouts overflows. It needs `MinTicks <= MaxCount` of
  `ClockAssumption`, that is, that the counter counts to five at least, and
  `Frequency <= (Thousand * MaxCount) % WordSize`, that is, that the bound of line
  92, wrapped as its product is, is at least one before it is lowered by one.

`Nrf5BluetoothProofs` is about three modules that share nothing but the
SoftDevice.

Advertising: `CountFollowsFlags`, `StopIsSilent` and `ScanKept`
(`[]CountMatches`, `[]SilentWhenStopped`, `[]ScanGoesOn`) for one to three sets,
any of them connectable, and any number of pending reports. Its `IInv` is
`CountMatches` with `SilentInv` (a count of zero means a silent handle and no
timer, and main starts the handle only with a count above it) and `ScanInv` (a
scan asked for has the scanner on, or paused with a report queued whose handler
resumes it).

The L2CAP server: `HeldBuffersStay`, `BuffersAreAccounted` and `ServerComesBack`
(`[]HeldBuffersKept`, `[]BuffersAccounted`, `[]TakenHasChannel`), and
`QueuesNeverEmpty` (the assertions of `ch_tx` and `ch_rx` that the queue they pop
is not empty), for any number of buffers, credits and pending events, and
whichever way a link may end. What makes this hard is that main works on events
of a moment ago. So the first half of `L2capInv`, `Order`, says in which order
events can stand in the queue, and what the port and the SoftDevice are in the
middle of meanwhile: a set-up comes first, then what the channel did, its end,
the next request, the end of the link. The second half, `Stock`, counts:
`Behind` says that the port's queue begins with as many buffers as transmissions
(or receptions) are reported and not handled, and that those the SoftDevice
holds come after them in it; `CreditInv` that no credit is counted twice.
`TakenInv` is `TakenHasChannel` with the event itself in place of its count. A
lemma on the way, `NoneIgnored`, says that main never handles an event of the
server's channel while the port's cid is invalid: the early return on a cid that
is not the port's loses none of them.

The receiving half of `BuffersAccounted` speaks of the buffers the SoftDevice
has and of those main replaces when it handles their events, not of the port's
queue, in which buffers of earlier channels may lie that nothing receives into.
`ch_rx_setup` counts them all the same (`N`l2cap_server.c:265). So an open
channel may lack as many as were left over; that it lacks no more, and that it
never lacks all, is what `RxInv` is for. `RxDistinct`: no buffer is in the port's
queue twice. `RxLeftFirst`: when the left-over ones have made the queue too long,
one of them is its first. `RxServed`: the SoftDevice has a buffer, or main has
one to replace. For main to replace none, the queue must stay full when its first
is popped; then the first is a left-over one, and the program has stopped on it
(`ch_rx`'s fatal error).

The GATT server: `SendsAnswered` and `OpenBearersFit` (`[]NoSentLost`,
`[]OpenFitsLink`) for any number of bearers, of notifications in the SoftDevice
and of pending events. `GattsInv` adds `BleOrder` (the end of a link is pending
last, or the start of the next comes right after it), `LastWriteTells` (while a
link lives, the last pending write of a bearer says what its subscription is),
`StartsClosed` (no bearer is open when a connected event is handled, which is why
that handler need not close any) and `MtuKnown`. `Unanswered` is a sum over the
SoftDevice's queue and the reports: `NotificationsSplit`, `CompletedMore` and
`CompletedFewer` say what a report moves from the one to the other, and what is
lost of it when it is handled.

`ZephyrLinkProofs` proves `SessionIsWhole`, `CreditsReturn`, `BearersComeBack`
and `PoolIsWhole` (`[]SessionHolds`, `[]ServerCreditsKept`,
`[]TakenHasChannel`, `[]PoolConserved`) for any number of links, servers and
clients, a pool of any size and any number of unanswered sends. Its `IInv`: `LooseTypes` (only what the steps
need), `OneReference` (the kept connection has one, no other has any),
`OpenInSession`, `TakenInv` (a taken bearer has a channel on its own link, and a
channel has its bearer's link), `RxInv` (what the receive thread looked at
before it had the lock, or between two times it had it, still holds),
`ServerInv` (a server's channel is half open only while the receive thread is at
it) and `ServerCreditsKept`.

`PoolConserved` does not say that the pool suffices, for it need not: a buffer
comes back when the stack lets go of it, which may be after `sent` has let the
library send again, and `send` stops the program when there is none. It says
that a send never finds the pool emptier than the stack makes it. `FreeInv` of
`PoolIInv` is its count of places, a place being a pair of a bearer and a number.
`PlacesChange` is the fact about it that the steps need: when one queue grows or
shrinks, the places do by as much. `CountsInv` bounds what is queued and what is
to be answered, and says that nothing is left of it when a bearer opens;
`PlacedInv` that a channel belongs to the session's link until the work queue
has freed it, so that no bearer is taken while its last channel's buffers are
out.

`ZephyrGattsProofs` proves `OpenMeansSubscribed` and `SendsAreAccounted` for any
number of bearers. Besides the two invariants themselves its `IInv` needs
`NewsInv` (a call yet to be made that tells of a subscription finds it in the
stack), `DownInv` (no subscription outlives its link) and `RoomInv` (the stack
has room for what main is about to notify).

`UartTransportProofs` proves `RepliesMatch` (`[]ReplyMatches`) for ring buffers,
exchanges and events of any number. `ReplyMatches` is about exchanges while
nothing was late or discarded (`settled`). `SettledInv` says what the ring
buffer and the line hold together then: whole lines, with at most one reply,
which is the one to the current request and stands where main, from where it
is in its own line, will come upon it. `ReadInv` says what main has read of it.
Lemmas about such runs carry the proof: `ReadOne` takes the first part,
`SendLine` appends a line, `BufferFirst` and `Joined` cut between buffer and
line.

`ExamplesProofs` proves `UploadsAreWhole` (`[]WholeUploads`) for buffers, chunks
and numbers of operations of any size, and `WakeupsKept` (`[]NoWakeupLost`). For
the first, `HeldRun` says that the operations the library holds are distinct,
busy, and follow one another from the hotspot's position to `pos`; `UploadPart`
adds what is between requests. For the second, `LedInv` says that an LED thread
that sleeps shows what is set, or the semaphore is given, or somebody is about
to give it.

About the coexistence example it proves `LinksKeptApart` and `NoStartRefused`
(`[]KeptApart`, `[]StartsAccepted`) for any number of sets and identities. Both
assume `OneSession`, which is what the library does with the port as the models
take it: at most one of its sets is connectable, and it does not start it again
between a link and the port's report of it. Without the second `KeptApart` is
violated (6.2). `NoStartRefused` also assumes `EnoughObjects`, the three
connection objects of `coexistence.conf`; with two it is violated (6.2). Of
`HrInv`, `IdentityInv` says that the host numbers identities upwards and none
twice, so that an object's identity tells whose it is; `ObjectInv` that an object
that advertises belongs to a set on the air; `CallbackInv` what state of a link
the two threads report; `SessionInv` that a link of Blecon's is the session's,
or its report is still to come, or it is the last session's on its way out;
`MonitorInv` the same of the monitor, which has no object at all when its thread
starts its set. So each start finds at most two objects taken.

Every invariant and every refinement a passing run checks is stated by a theorem.
Only model-checked is liveness, that of the refinements included: it rests on
fairness and `ENABLED`, which the prover does not do.

## 6. Known disagreements

### 6.1 Shown by a run of their own

* `client_credits` (`ClientCreditsKept`): `E`l2cap_bearer.c:80 "Give initial
  credits" to a client's channel, and then `connect` clears the channel
  structure (line 117). The peer never gets any.

### 6.2 Stated in the modules, not listed as runs

Each of these definitions says what a comment, an assertion or an interface of
the code says, or what it should keep, and is violated. To see it, take the `.cfg` of
the passing run the module belongs to, put the definition in the place of its
`INVARIANTS` and `PROPERTIES` (as a `PROPERTY`, if it is marked *), change the
constants named in the last column, and run TLC: the counterexample is the
scenario.

| Module | Definition | Where | Scenario |
|---|---|---|---|
| `ZephyrLink` | `LinkTuned` | `E`bluetooth.c:426 | the link is lost before the receive thread reports it; the assertion on tuning it stops the program |
| `ZephyrLink` | `ConnectAccepted` | `E`l2cap_bearer.c:86 | the link is lost when main opens a client's channel on it; the assertion stops the program |
| `ZephyrLink` | `PoolSuffices` | `E`l2cap_bearer.c:147-152 "This allocation has been problematic: we have seen deadlocks happen if the second argument is K_FOREVER [...] we just crash with the assert below instead" | two bearers have two buffers each with the stack, `sent` has been called for one of them, and the library sends again: the pool of four (line 45) is empty and the assertion stops the program |
| `ZephyrGatts` | `NotifyAccepted` | `E`gatts_bearer.c:137 | the subscription goes between the question and the notification; fatal error |
| `UartTransport` | `ReplyIsOwn` | `E`ext_modem_uart_transport.c:108 | an exchange times out, the next takes its late reply |
| `ZephyrTimer` | `NoStaleCallback` * | `E`timer.c:61-78 | the timer is cancelled, or set anew, after its expiry has signalled the event: the callback still comes |
| `ZephyrAdvertising` | `NoLateReport` * | `E`bluetooth.c:453-479 | `scan_stop` returns while the receive thread waits for the lock with a report; it is delivered |
| `HeartRate` | `KeptApart` | `E`l2cap_bearer.c:45 "Handle a single connection at a time" | with `Hastens = TRUE`: the library restarts its connectable set before the port has reported the link made to it, and a second one is made |
| `HeartRate` | `StartsAccepted` | coexistence's hr.c:200; boards with `BT_MAX_CONN=2` | with `Conns = {c1, c2}`: both parties start a set while an ended link still keeps its object; the second is refused, and the thread returns |
| `MemfaultOta` | `ChunksCounted` | `E`memfault_ota.c:250 under "Signal event loop"; `blecon_event_loop.h:68` has callbacks run in the main loop | with `MaxDownloads = 1`: the callback runs on the DFU thread without the lock; a chunk received meanwhile is lost from the client's count |
| `MemfaultOta` | `FreeIsCounted` | `E`memfault_ota.c:198 | a failed download's chunk is freed to the next download's client: its fatal error for a count of zero |
| `MemfaultOta` | `CompleteIsInstalled` | `E`memfault_ota.c:256 | an update begins between the end of the last and its installation, which is refused |
| `Nrf5Advertising` | `RotationEnds` | `N`bluetooth.c:216-218, 417 | `set_stop` has cleared the flag and not yet lowered the count: the interrupt looks for an advertising set that does not exist, and never returns |
| `Nrf5Advertising` | `AdvStartAccepted` | `N`bluetooth.c:426 | the interrupt between the rotation to set 0 and the start of the handle starts it first |
| `Nrf5Advertising` | `AddressSet` | `N`bluetooth.c:303 | the interrupt between the start of the scanner and `is_scanning` does not stop the scanner: the address cannot be set |
| `Nrf5Advertising` | `ConnectionOfItsSet` | `N`bluetooth.c:534 | the connected event is handled after a rotation changed the current set |
| `Nrf5Advertising` | `ContinuesWithASet` * | `N`bluetooth.c:222 | after a stop, the next set is the one just stopped |
| `Nrf5Advertising` | `RemainingSetsHeard` * | `N`bluetooth.c:219 | a stop ends the rotation timer, and the remaining sets are not rotated any more |
| `Nrf5EventLoop` | `ImplementsDelivery` * | `N`event_loop.c:105 | a signal finds the queue full; the error is ignored |
| `Nrf5Timer` | `TimeKept` | `N`timer.c:131-138 | the monitor's interrupt between main's steps adds the same difference again: the clock runs ahead |
| `Nrf5Timer` | `LongestIsMaximum` | `N`timer.c:92 | the bound's product wraps around in 32 bits: the longest timeout that is kept is 237 s and not 1023 s |
| `Nrf5Gatts` | `SoftDeviceAccepts` | `N`gatts_bearer.c:136, 192 | the peer unsubscribes or leaves before main has handled it; the refused call is asserted against |
| `Nrf5Gatts` | `NoEarlySent` | `N`gatts_bearer.c:222 | one bearer's completed notifications are told to the other as well |
| `Nrf5L2cap` | `FlowControlled` | `N`l2cap_server.c:314 | the channel is gone when main handles its set-up event; the assertion stops the program |
| `Nrf5L2cap` | `CallsAccepted` | `N`l2cap_server.c:164, 284 | main sends, or hands over a buffer to receive into, before it has heard that the channel is gone; unless the SoftDevice answers with `NRF_ERROR_INVALID_STATE` the assertion stops the program |
| `Nrf5L2cap` | `ReceiveReady` | `N`l2cap_server.c:312-313 gives the peer `RX_BUF_MAX + RX_EXTRA_CREDITS` credits | buffers left in `rx_bufs` by a link that ended silently (417) or a refused set-up (470-473) are counted as the SoftDevice's (265): the next channel opens with fewer to receive into |
| `Nrf5L2cap` | `StartsEmpty` | `N`l2cap_server.c:417 | buffers of an earlier channel are sent to the next peer |
| `Nrf5L2cap` | `RxBufferMatches` | `N`l2cap_server.c:389 | a receive buffer left behind is taken for the one received into; fatal error |
| `Nrf5L2cap` | `PendingSent` * | `N`l2cap_server.c:370 | credits reclaimed by a transmit event do not resume sending |
| `DevboardDemo` | `AnnouncementShown` | devboard-demo/main.c:419-420 | main sets the LED to announcing before it restarts the timer: the expiry of the last announcement comes in between and ends it |
| `DevboardDemo` | `ConnectionShown` | devboard-demo/main.c:406-410 | main shows "connecting" after it has initiated the connection, and overwrites what the host's callback has already set |

Seen while modelling, without a definition of their own:

* large-request/main.c:94-104: when the library refuses one of the first chunks,
  `example_send_data` cleans the request up, and `send_data` submits it all the
  same. Such a request has no last chunk and need not end. `UploadsEnd` excludes
  it, and with it all that a device does after its first refusal (`refused` is
  never reset).
* `E`gatts_bearer.c:221, 225: `cccd_write` unlocks the library without having
  locked it. The kernel refuses an unlock by a thread that does not own the mutex,
  and the port ignores the answer, so nothing changes by it.
* `N`l2cap_server.c:207 reads the server of a set-up request before line 211 asks
  whether there is one.
* devboard-demo/main.c:388-405: `_making_request` stays set when the connection
  cannot be initiated, and the next connection, whatever it was made for, sends
  the request; and a command during a request initializes that request again.
* The scanner example prints with a buffer for its format (`scanner/main.c:84`,
  `printk(buffer, "Hello blecon!")`), where a copy into the buffer was meant.

## 7. What is assumed of code outside the repository

* *Library.* It starts no set while connected and stops its sets in
  `on_new_connection`, and between a link and the report of it neither stops nor
  restarts a set (`Hastens = FALSE`); its download client hands out a chunk for each receive
  operation, closes the request in the handler of its last chunk, and counts
  the chunks the port holds. The port's callbacks find its single connection,
  so `ZephyrLink` has no second link to an own set during a session.
* *Zephyr.* Main has a higher priority than the DFU thread, Bluetooth threads a
  higher one than main. The stack reports in order, destroys channels before it
  reports the end of their link, and clears subscriptions before the
  disconnected callback. It calls the port's connection callbacks before the
  application's, and `disconnected` on the work queue. When a transmit buffer
  comes back to its pool and when `sent` is called for it are independent. A connectable set on the air holds a connection object, and a
  link keeps it until the last disconnected callback has returned.
  `k_event_wait` returns the bits it saw and clears none.
* *Boot loader.* MCUboot swaps the images at a restart when one is marked, and
  swaps them back at the next unless the new one was confirmed. The application
  confirms its image before it enters the event loop
  (`src/examples/zephyr/memfault/main.c:144-162`).
* *Library, as the applications meet it.* It holds send operations in order, and
  answers each with one callback, until the request is cleaned up or fails.
* *SoftDevice.* Events are queued in order. An advertising event lasts longer
  than the few instructions of main that follow its start. It refuses to
  advertise as connectable while its one link is in use, and calls on a link
  that is gone, as `N`bluetooth.c:263 says; a call on a channel that is gone fails
  with `NRF_ERROR_INVALID_STATE` or with another error, and the model checks both.
  As there is one link, its events carry the port's handle (asserted at
  `N`l2cap_server.c:466 and `N`gatts_bearer.c:174). A peer opens one channel at a
  time and asks only for the server's PSM; other requests are refused
  (`N`l2cap_server.c:211-227) and change nothing of the port. A link that ends may report its
  channel's release first, or end without a word about it; the model checks
  both. All sets have the same interval.
* *nRF5 SDK.* The scheduler keeps an entry's slot until it has run; its
  critical sections make a put atomic. `app_timer_cnt_get` and
  `app_timer_cnt_diff_compute` are the counter and the difference modulo its
  width. An interrupt is served, and main goes on, within `Latency` ticks.
* *Modem.* Replies to each request once, in order; an event may come in a line
  of its own or in a reply's header.

## 8. Not modelled, and the plan

Left out of the modules above: what is sent (only who holds it), values of
advertising parameters and link tuning, log and error texts, a registration of
more events than there is room for (an assertion), registrations by two
threads at once (`E`event_loop.c:108 has no lock; the SDK registers on main
before the loop runs), and the torn read of the 64-bit `_monotonic_ticks` at
`N`timer.c:83-84, which the interrupt may change between its two halves.

Components without a module:

* *NVM.* One blob, read in place, erased and written by single driver calls. The
  port has no state. Between erase and write nothing protects the blob from a
  restart; when the library erases and writes is not in the repository, so a
  model would have to invent the sequence it checks.
* *Cryptography.* Calls of PSA and nrf_crypto; a cipher's key lives from
  allocation to free, and every error path of the others leaves through the same
  clean-up.
* *NFC.* One flag and straight-line code on main.
* *Start-up.* Creates the ports' objects once. With an external modem it hands
  the library a transport that is a local variable of the function
  (`blecon_zephyr.c:79-85`), used after the function has returned;
  `UartTransport` models the transport as if it lasted.
* *hello-world, scanner, advertising-mode, Memfault and coexistence's main.* One
  request or scan at a time, without state of their own. What they share with
  the large-request example is modelled there.
* *Configuration of nRF5's stack* (`N`bluetooth.c 167-185, 257-297, 431-519):
  configuration calls of the SoftDevice, with no state in the port.

Of the repository's about 23 000 lines of implementation, 11 000 are one
generated file, `src/examples/nrf5/nrf5-sdk/config/sdk_config.h`, and some 3 500
are declarations in headers. The modules stand for most of the rest that keeps
state: about 8 000 lines of C, of which logging, shell commands, parameter
structures and the calls named above are left out. So the share of all lines
that a definition is mapped to cannot come near a third of the repository.

The work so far, in its order, and what is left:

1. Event loops and their abstract specification, proved for both. *Done.*
2. Links, channels, GATT bearers and advertising of both ports. *Done.*
3. The modem's UART transport and firmware updates with their trial boot.
   *Done, proved.*
4. Timers of both ports over their event loops. *Done, proved.*
5. `ZephyrAdvertising` and the coexistence example over it. *Done.*
6. The example applications with state of their own. *Done, proved.*
7. Proofs of the invariants and refinements the runs check. *Done.*
8. Left of the models: `ZephyrLink` under `ZephyrAdvertising` as one system (the
   sessions of the one with the connection objects of the other), once its
   states can be kept few.

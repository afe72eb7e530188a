# A TLA+ verification of nimble-rs

nimble-rs runs the NimBLE host, a Bluetooth LE stack written in C, as a library
inside an async Rust program. It has no RTOS: the porting layer the C host is
written against (NPL: events, event queues, callouts, mutexes, semaphores) is
implemented in Rust, and one future, `Ble::run`, does the work of the tasks an
RTOS would run. On top are safe wrappers of the host's GAP, GATT and L2CAP calls,
and example programs that use them. This project models the porting layer, the
wrappers and the programs, checks the models with TLC and proves theorems about
them with TLAPS.

All paths below are relative to the repository root (`nimble-rs/src/...`).

## 1. Inventory

| Component | State | Operations | Who else touches it |
|---|---|---|---|
| Events and event queue (`npl.rs:92-345`) | intrusive list `head`/`tail`/`next`, `queued` per event, one `waker` slot, `init_tag` | `eventq_init/deinit`, `event_init/deinit`, `eventq_put`, `eventq_remove`, `eventq_poll` | the C host from any thread, the run task |
| Run loop (`port.rs:84-132`, `lib.rs:530-560`) | three futures: events, timers, pump | `select3` of the three on every poll | woken by the queue, the timers, the transport |
| Pump-while-pending wait (`npl.rs:51-90`, `352-524`) | mutex owner and count, semaphore count and waker | `mutex_pend/release`, `sem_pend/release`, `wait_until` | any thread that calls the host API; handlers inside the run task |
| Parker (`npl/parker.rs`) | the thread's unpark token | `waker`, `park` | semaphore, channel and transport wakers |
| HCI pump (`hci.rs:823-965`) | `PumpSlot { fut, busy }`, the state of the TX and RX futures | `register_pump`, `PumpGuard::drop`, `pump_manual` | run task and blocked waits |
| HCI bridge (`hci.rs:366-821`) | `CMD_QUEUE`, `ACL_QUEUE`, C buffer pools | command dispatch, ack synthesis, `feed_event`, `rx_dispatch` | C host, controller |
| Callouts (`npl.rs:526-740`) | deadline-sorted intrusive list, `active`, timers' `waker` | `reset`, `stop`, `poll_next_deadline`, `fire_due` | C host from any thread, run task |
| Driver life (`lib.rs:225-262, 440-616`, `port.rs:46-79`) | `TAKEN`, callback slots, host callbacks | `Ble::new`, `run`, `Drop` | everything |
| Critical sections (`npl.rs:784-837`) | `CS_STATE`: owner, depth, restore state | `hw_enter_critical`, `hw_exit_critical`, `hw_is_in_critical` | the C host from any thread; Rust code uses the lock directly |
| Memory pools (`os_mempool.c`) | free lists, the list of pools | init, clear, get, put, register, unregister | bridge, L2CAP, C host |
| L2CAP channels (`l2cap.rs`, `mbuf.rs`) | SDU buffers that change owners | `connect`, `send`, `recv_ready`, `disconnect`, event callback | C host, hook |
| GATT server (`gatt/server.rs`, `gatt.rs`, `mem.rs`) | C service tables in flat arrays on the heap or in statics | `BleGattServices::new`, `gatt_services!`, register, access and subscribe callbacks, `notify`, `indicate` | C host, hook |
| GAP, GATT client (`gap.rs`, `gatt/client.rs`) | none of their own | call and event translation | C host, hook |
| Examples (`examples/app`, `examples/std`) | flags and handles in statics that hooks set and tasks read | server, client, scanner, L2CAP echo | the wrappers |
| Log glue (`clog.rs`) | line buffer | `nimble_rs_log` | C host |

What is hard here:

- **Critical sections are short.** Every operation is one or two critical
  sections; other threads run in between. `eventq_poll` looks and pops in two
  sections, `timers_fire_due` pops and queues in two, `callout_stop` unlinks and
  cancels in two, every `put`/`reset`/`release` wakes after it has left its
  section.
- **One waker per slot.** The queue, the timer list, the semaphore, the command
  channel and the transport each remember one waker. Whoever polled last owns
  it; progress of everybody else depends on that owner.
- **Blocking inside an async program.** A host call that waits for a command ack
  blocks its thread and polls the HCI pump itself, competing with the run task
  for it.
- **Futures are dropped.** The run future may be dropped between two polls and
  another started; wakers, queue contents and pump registration outlive it.
- **Bounded queues and pools**, with comments that say why they cannot overflow.
- **Ownership by return code.** Whether an SDU buffer belongs to the C host after a
  call depends on which error the call returned.
- **Hooks and tasks share flags.** A program waits for a flag that a hook sets;
  resets, failed connects and disconnects arrive during any of these waits.

The hazards are listed one by one, at their lines, in `PROJECT.json`.

## 2. Modules

| Module | Models |
|---|---|
| `EventFifo` | abstract specification: what the event queue promises |
| `LinkedLists` | singly linked lists as C keeps them: what a list spells out, what a walk meets |
| `NplEventQueue` | events, event queue, `run_events`; refines `EventFifo` |
| `PumpWait` | mutex, semaphore, `wait_until`, parker, pump, pump registration, run task |
| `NplCallout` | callouts, `run_timers`, `run_events` |
| `HciBridge` | command and data queues, command dispatch, ack synthesis, inbound buffers |
| `OsMempool` | memory pools: free lists, counts, put callbacks, the list of pools |
| `BleDriver` | constructors, subscriptions, run futures, leak, `Drop` |
| `NplCritical` | nested critical sections of the C host |
| `L2capChannel` | the L2CAP calls and event callback, at both ends of the echo example |
| `GattTable` | service tables: the two ways they are built, how they are read, the handles they get |
| `GattServer` | a table's life, the server callbacks and GAP calls, the server examples |
| `GattClient` | the client calls and callbacks, scanning and connecting, the client and scanner examples |
| `StructureProofs` | lemmas on the data structures: linked lists (`LinkedLists`), service tables and handles (`GattTable`) |
| `NplEventQueueProofs`, `PumpWaitProofs`, `NplCalloutProofs`, `L2capProofs`, `GattServerProofs`, `GattClientProofs` | theorems about the modules they are named after |
| `DriverProofs` | theorems about `HciBridge`, `OsMempool`, `BleDriver` and `NplCritical`; the names of the last three begin with `Mem`, `Life` and `Cs` where they would clash |
| `MC...` | instances for TLC |

How they fit together: `NplCallout` uses the default event queue as a plain FIFO
with a wake-up per put, which is what `NplEventQueue` is proved to be
(`RefinesFifo`, `WakeupCorrect`). `PumpWait` has who polls the pump and who is
woken, and only counts commands and packets; `HciBridge` has what the pump does
with them, and takes for granted that it is polled. `HciBridge` sees of a pool
the number of its free buffers; `OsMempool` has the pool itself. `BleDriver` has
the order of construction and destruction that the `init`/`deinit` actions of the
other modules assume: one driver at a time. `GattServer` and `GattClient` extend
`GattTable`: the server serves the table that was built, and the client's peer is a
table of the same kind, whose handles it discovers. That every module may treat a
critical section as one step is what `NplCritical` shows of the sections the C host
opens.

Definitions named `...Keeps`, `...Twice`, `...Unchecked` and the like, marked
"Fault:", are not part of any specification. Each is an operation with one
plausible mistake, and every property that a passing run checks is violated when
one of them takes the place of the operation it follows (`PROJECT.json`,
"mutants").

### State and actions

**`NplEventQueue`** has the fields of `EventQueue` and `Event` under their own
names; one critical section is one step. `ble_npl_eventq_put` is `EventqPut`
(link and take the waker) and `Wake` (wake it, outside the critical section);
`eventq_poll` is `EventqPeek` (look, or leave the waker) and `EventqTryPop`.
`EventqRemove` walks the list as the code does, with `Linked` for the events the
walk meets. `fifo` is a history variable. `StartRun`/`DropRun` replace the run
future; `EventqInit`/`EventqDeinit` are a driver's life as the queue sees it.

**`PumpWait`** has a program counter per context (a thread that calls the host,
or the run task). `Enter` to `Park` are the loop of `wait_until`: check,
register the waker, check again, poll the pump, check again, park. `PumpBegin`
to `PumpEnd` are `pump_manual` and the poll of the two arms inside it:
`TxReceive`, `TxExec`, `RxRead`. `MultiThread = FALSE` is one executor thread,
where a blocking call does not yield. The C host's side of a command (lock,
queue, pend, unlock) is external. The semaphore's release and its wake are one
step: both are done by the context that is polling the pump and nothing that the
waiter does in between depends on their order.

**`NplCallout`** has the list of timers as a sequence sorted by deadline, and the
clock: a reset drops the callout from the list (`Without`) and inserts it behind every
callout that is due no later (`Place`). The history variables `linked` and `links` number
the resets, for the order of equal deadlines. `CalloutReset`/`ResetLink`/`ResetWake` and `StopUnlink`/`StopUnqueue` are
the critical sections of reset and stop; `NextDeadline`, `ArmTimer`, `FirePop`,
`FirePut` those of `run_timers`. Callouts without a queue (`Inline`) run their
handler while they fire.

**`HciBridge`** numbers commands and ACL packets as they are accepted.
`ToLlCmd`/`ToLlAcl` are the transport's entry points (the buffer is freed, then
the copy is queued), `TxSelect`, `DispatchHere`, `Forward`/`Executed`, `WriteAcl`
the transmit loop, `RxEvent`, `RxAcl` the receive loop, `Answer` is `feed_event`.
`HeldOf` and `Written` count buffers and packets. Of a command the class under
`send_cmd` is kept: forwarded with a Command
Complete or a Command Status, answered by the bridge, or unknown. `past` is how much had
been accepted when the last session ended: `LlDeinit` empties the queues, and
`CommandsInOrder` and `AclInOrder` say that nothing accepted before it is in hand
or queued after it.

**`OsMempool`** has the C structures: `first` and `next` are the free lists,
`qFirst`, `qLast`, `qNext` the list of pools, and a block that a client has
carries whatever the client wrote where its link used to be (`ClientWrite`).
Clients also free blocks twice or to the wrong pool, and clear a pool in use;
`misused` is a history variable that remembers it, for the one property that needs
well-behaved clients. What they do not do is write into a block that is free, which
no allocator survives. Each operation is one critical section, except
`os_memblock_put`, which may call the host's callback first.

**`BleDriver`** numbers drivers. A slot (`HOST_CALLBACK`, ..., the active parker)
holds the driver whose lifetime its reference was borrowed for, so that a slot
with a number that is not `alive` is a dangling reference. Construction and
`Drop` are one step per call that changes state; other threads race for `TAKEN`
at every one of them.

**`NplCritical`** has the fields of `CS_STATE` and the lock. An entry is three steps
(`EnterCritical` reads the owner, without the lock; `EnterAcquire`; `EnterOwn`), the
outermost exit two (`ExitCritical`, `ExitRelease`); `WithBegin`/`WithEnd` are Rust's
`critical_section::with`, inside and outside. The lock is external: it blocks, may be
taken again by the thread that has it, and remembers whether it was.

**`L2capChannel`** has, per end, the pool of mbufs (how often each buffer is on the
free list), the buffer the channel receives into and the one it is sending, and the
example's statics. The operators `l2cap_connect`, `l2cap_send`, `l2cap_recv_ready` and
`l2cap_event_cb` return the set of outcomes, each the device's next state with the
code and the messages it sent: a buffer is freed by the wrapper, the host, both or
neither exactly as the returned code and the code's `match` decide. A call, and an
event with all its hook does, is one step: both programs run on one thread. The host
and the link are external: one credit per receive buffer, messages of one direction in
order, and the link may be lost.

**`GattTable`** has a table as the C structures are: pointers into arrays of
definitions that end with a zeroed one. `NewTable` is `BleGattServices::new`, a loop
over the services that fills the four flat arrays; `StaticTable` is what
`gatt_services!` expands to; `Walk` is how a reader of the structures finds the services
again, and `Attributes` the handles the host gives them. The loops are recursive functions
of the number of rounds done (`AddChrs`, `AddSvcs`, `AddAttributes`), which is the form
the proofs need.

**`GattServer`** builds a table (`BuildAlloc`, one step per allocation, each of which may
fail), constructs and drops the driver (`NewDriver`, `DropDriver`, with `DropCSlice` per
array), and serves it. The callbacks of `lib.rs` (`gap_event_cb`, `gatts_access_cb`,
`gatts_register_cb`) route the host's events to the hooks of the example; `Tick` is one
round of its loop. Peers connect, subscribe, read, write and disconnect; the host resets
and syncs.

**`GattClient`** chooses one of five programs. The client and the scanner, portable and
`std`, wait in `pc` for the flags their hooks set, and go on as the code does;
`"calls"` makes every client call there is. `HostProc` completes the pending procedures
one callback at a time, and a lost connection ends each of them with an error.
`adv_has_name` walks advertising payloads byte by byte, against `CarriesName`, which says
what carrying the name means.

## 3. What the runs check

| Run | Instance | Shows |
|---|---|---|
| `event_queue` | 3 events, 2 threads, 2 run tasks, any number of restarts | `TypeOK`, `ListOK`, `NoLostWakeup`, refinement of `EventFifo`, `EventServed` |
| `pump` | one thread: a calling task and the run task, 4 commands, 2 packets, 3 timeouts, a dropped and restarted run; and 3 threads, 2 commands, 1 packet | `PollsExclusively`, `AcksMatchWaiters`, `AckServed`, `PacketsServedOneThread` |
| `callout_threads` | 2 threads, 2 callouts, one of them inline, 2 resets, clock to 3 | `TimersOK`, `NoMissedDeadline`, `FiresEventually` |
| `npl_critical` | 3 threads, sections nested up to 3 deep | `Exclusive`, `KnowsAndKeeps` |
| `hci` | 3 commands of any class, an inbound packet, 2 timeouts, a dropped pump or a restart; and 3 ACL packets with a command | `CommandsInOrder`, `AclInOrder`, `AcksTruthful`, `BuffersConserved`, `CommandAnswered` |
| `mempool` | a pool of 2 blocks and 2 pools without, 2 clients, well-behaved and not, restarts | `FreeListOK`, `HandedOutOnce`, `PoolListOK` |
| `driver_life` | 3 threads, 3 drivers, 3 slots, 2 run futures | `OneDriver`, `NoDangling`, `FreshWhenFree` |
| `l2cap` | 2 ends, pools of 2 and 3 buffers, 4 SDUs, 2 failures | `BuffersOwnedOnce`, `NeverStarved`, `EchoesFaithful`, `EchoReturns` |
| `gatt_server` | every list of up to 3 services of three kinds, both builders, 2 handles, 3 failures, 2 resets | `TableFaithful`, `HeapBalanced`, `SubscribersMirror`, `AckedWasHeard`, `AdvertisesAgain`, `SubscriberServed` |
| `gatt_client` | 5 programs, every payload of up to 5 bytes over 4 values, 8 peers, 2 failures, a reset | `PeerNamed`, `WritesHitTargets`, `CompletedOnce`, `EndsForCause`, `EndsOnDisconnect` |

The bounds. The event queue, the pools, the list of pools and the critical sections
have no counters but the nesting depth: their runs cover every history over their
objects. Three events and three pools are the least with a first, a middle and a last
one; with two blocks a double free can already make the free list cyclic, and to the
pools without blocks every block is foreign. Two calls are the least with contention
for the mutex; four commands with three timeouts are the least that fill `CMD_QUEUE`
(depth 2) while one command is being executed. Two callouts with delays 0 and 2 give
equal, earlier and later deadlines, and the clock passes all of them. The HCI pools
have one buffer each, so that they run empty while another packet or an ack comes.
Behaviours with many commands and behaviours with data and commands mixed are bounded
apart (`Budgets`); so are the long single-threaded and the short multi-threaded ones of
the pump. Three drivers are the least with one constructed while another is dropped and
a later one that finds what both left.

A pool of three mbufs is the least that never fails the L2CAP hook and two the least
that does; four SDUs outlast the one that is sent, the one that is stalled and the one
that is refused. Three services include one with no characteristics before, between and
behind others. Five bytes hold an empty structure, a truncated one, and a name behind
another structure. The peers have the service, a twin with the same characteristics
under another UUID before or behind it, the service twice, the second time whole or
without a characteristic, and services that lack a characteristic or its indicate flag.

Deadlock is not checked where the system may stop: when every bounded call has
been made (`PumpWait`, `NplCallout`, `HciBridge`), a leaked driver keeps the
flag for ever (`BleDriver`), or the program has ended (`L2capChannel`, `GattServer`,
`GattClient`). It is checked for the event queue, the pools and the critical sections.

Fairness. A woken task is polled and a poll goes on to its end (the executor); a
thread that is running takes its next step, and in particular wakes a waker it
has taken (the scheduler); handlers return (`lib.rs` asks for it: "do not block
the task polling `run`"); the controller answers the command it was sent; the host
comes back into sync after a reset, works on its procedures and delivers what arrives;
time passes. A handler that calls the host over and over enables its own return only
now and then, so its return is strongly fair in `NplCallout`; everything else is
weak. No application is obliged to call, no packet to come, no peer to connect, no
future to be dropped or restarted, and no wait to time out.

Exceptions that the statements name. `AcksMatchWaiters` allows one late ack for each wait
that gave up, as the code does: the semaphore counts acks and does not know whose they
are. `PacketsServedOneThread` excepts a wait that timed
out: it may have left its thread's waker with the transport, and gives it back to nobody.
`AdvertisesAgain` excepts failed calls and failed connects: the example clears its flag
before it tries, and a failed connect stops advertising with no disconnect to follow.
`BuffersOwnedOnce` excepts the buffer of a connect that ran out of memory, which the code
leaves alone because it cannot tell whose it is. `WritesHitTargets` excepts a peer whose
characteristic cannot indicate: the client writes to the handle after the value all the
same, whatever is there. `EndsForCause` lists the causes a program may end for: a call or
a connect that failed, a reset, the loss of the link, and a peer whose last service of the
right UUID, the one the client settles for, lacks a characteristic; the `std` scanner ends
by design.

### Where the code and its comments disagree

Two runs show a behaviour that a comment of the repository rules out.
`PROJECT.json` quotes the lines.

| Run | What happens |
|---|---|
| `pump_mutex` | a thread that waits for the mutex finds the pump busy, parks with its waker nowhere, and is not woken by the release |
| `callout_stop_race` | a stop between the two halves of firing cancels nothing |

Both need threads (the `std` feature). Threads also break two properties that `pump`
therefore checks on one executor thread, or with the run future dropped on the thread
that polls it: a run task that finds the pump busy leaves no waker, so that packets stay
unread until something else wakes it (`hci.rs:940`, against `lib.rs:544`), and a run
future dropped while another thread polls its pump dies under that poll (`hci.rs:927`,
against `hci.rs:953`). No property covers that race: where the run drops futures no poll
can be under way.

Three places where a limit is reached that a comment says cannot be (commands whose
waits timed out fill `CMD_QUEUE`, the ACL pool does not bound `ACL_QUEUE`, an ack finds
no event buffer) are in the models as the code has them, as refusals and losses.

What the models of the examples show about waits without a way out, as the programs are:
the L2CAP client polls for its channel for ever when the server refuses it; the `std`
client waits for ever after a failed connect (the portable one goes on with the handle
it was given and is stopped by the next call); a client that is reset before it has
found its peer never scans again; a scanner that is reset may ask for its next round
before the host is in sync, and panics.

## 4. What is proved

All theorems hold for every value of the constants; the assumptions on them are
the named `ASSUME`s of the modules, which TLC evaluates in every run.

**Linked lists** (`StructureProofs`). Push, pop, append and removal do to the
sequence a list spells what they should, and a walk meets exactly its members
(`WalkedIsRange`). The walk is defined as the least set that has the head and is
closed under `next`; its proof takes the least position of the list that is
outside a closed set (`LeastNumber`).

**Service tables** (`StructureProofs`). `LeastNumber` gives an induction over the numbers
up to a bound that lie in a set (`Upwards`), and with it what a loop has done after n
rounds, for every n. Each loop has two such proofs: that its recursive function exists,
and what its value is. `Added` and `Laid` say what the arrays of `BleGattServices::new`
hold after n characteristics and after i services: the part that is filled is what it
should be, the rest is untouched, hence still zero. The places of a service's definitions
are sums over the services before it (`OffsetFacts`), which is why a service without
characteristics has a terminator of its own. `EntriesFacts` says what a reader finds in an
array that is full up to its terminator; `NewTableWalk` and `StaticTableWalk` put these
together: for all services, what is read is what was declared. `DatabaseFacts`,
`DatabasePlaces` and `GroupFacts` are about handles: they rise through the table, each
service's are an interval, and a characteristic's declaration lies in the interval of its
own service and in no other.

**Event queue** (`NplEventQueueProofs`): `TypeCorrect`, `ListCorrect`,
`WakeupCorrect`, `RefinesFifo`, from `NullAssumption` (the null pointer is no
event and no task). The inductive invariant is `TypeOK`, `ListOK` (the list
spells `fifo`, without repetition, `queued` marks its members), `SleeperReachable`
(a sleeping task that nobody is about to wake has its waker in the slot and the
queue is empty) and `LifeOK` (nothing is queued and nobody runs before the queue
is initialised). `NoLostWakeup` alone is not inductive: that the slot holds the
sleeper's waker is what makes the next put take it. The refinement follows from
the same invariant: a removal finds its event's place in `fifo` because the list
spells it.

**Waits and the pump** (`PumpWaitProofs`): `TypeCorrect`, `PollExclusion`,
`AckMatching`, from `PumpAssumption`. The invariant adds `GoalsOK` (what a context is
after fits where it stands), `MutexOK` (whoever is between a pend and its release is the
owner of the mutex) and `PumpOK` (who polls has set `busy`, and the futures exist) to
the properties. `AckMatching` holds with timeouts and dropped futures: each timeout adds
at most one command that nobody waits for, and a dropped future only loses some. Only the owner of the mutex sends, which is why one command at a time is
on its way; the invariant says so by where a context stands, because the C host's calls
are several steps. `PollExclusion` has the exception of the run that checks it as a
premise: `DropsAlone`, no run future has been dropped while other threads may poll it.

**Callouts** (`NplCalloutProofs`): `TypeCorrect`, `TimersCorrect`, `DeadlinesKept`, from
`CalloutAssumption`. The lemmas on `Without` and `Place` say that the list stays sorted
and without repetition (`ListOK`). `OrderStep` adds that callouts with one deadline stay
in the order of their resets: a new one is numbered last and placed behind all that are
due no later (`InsertTies`), and leaving members out keeps the order of the others
(`TiesKept`). `NoMissedDeadline` is about a task that sleeps, and becomes false
between two of its own critical sections unless more is kept (`WakeOK`): from the moment
the task has read the first deadline it has its waker with the timers, or somebody is
about to wake it, and the deadline it goes to sleep with is one that it has read and that
is still right. That the alarm is in the future is part of the property: a task whose
alarm has gone off is polled.

**HCI bridge** (`DriverProofs`): `TypeCorrect`, `CommandOrder`, `AclOrder`,
`AcksTrue`, `Conservation`, from `BridgeAssumption`. Both lanes have the same invariant,
`Ordered`: what is done with, the packet in hand and the queue are numbered through.
`SessionStep` adds that what is done with reaches at least to where the session began.
`ExecutedOK` says that the controller has seen nothing later than the command in hand,
without which a refusal of the next command could not be known to be one it never saw.
The buffers are counted as the places of a sequence that hold them (`CountAppend`,
`CountTail`).

**Memory pools** (`DriverProofs`): `MemTypeCorrect`, `FreeListCorrect`,
`PoolListCorrect`, `Ownership`, from `PoolAssumption` (pools do not overlap, a layout
names a block once, NULL is neither). The invariant of the first three is their
conjunction: a get needs the list to have as many blocks as the count says, and a put
needs the walk to find every free block, or it would push one twice. Nothing is assumed
about clients except that they do not write into free blocks. `Ownership` is about the
time until a client misuses a pool; it needs besides that a put underway is of a pool in
use (`PutsOK`), and that a list of different blocks that lacks one of the pool's is
shorter than the pool (`RoomLeft`), so that a put by an honest client is never refused.

**L2CAP** (`L2capProofs`): `Inductive`, `OwnedOnce`, `PoolSuffices`, `EchoOrder`, from
`L2capAssumption` (no buffer is NULL). A call is a set of outcomes, so the proof goes
operator by operator. `Keeps(n, v, X)` says that the end `v` with `n` buffers accounts
for each of them once when those in `X` are in the hands of the code that runs; each
operator has a lemma that takes some `X` to another for every outcome, whatever code it
returns. The invariant says that nothing is in hand between steps, and that the one
request for a channel is the first message to a server that has none yet (`WireOK`), or
an accepted channel could overwrite a receive buffer. `Calm` goes through the same
lemmas: with three buffers, an event that ends without a fault has found one to receive
into. For the echoes, `Line` puts the five places a number can be in into the order of the
numbers: come back, on its way to the client, waiting at the server, on its way to the
server, waiting at the client. Refused numbers are in none of them. A second lemma per
operator says that it moves at most one number by one place (`Moved`, `Passes`).

**Critical sections** (`DriverProofs`): `CsTypeCorrect`, `MutualExclusion`,
`OwnerCorrect`, from `CriticalAssumption` (identities are unique and not 0, which
`Parker::ctx_id` promises). The invariant `CsIInv` says who has the lock by where each
thread stands, and what `CS_STATE` holds while somebody is inside, while the outermost
exit is half done, and while nobody is. The step that needs it is the read of the owner
without the lock: an owner equal to the reader's identity is not 0, so somebody is
inside, and identities are unique, so it is the reader.

**Driver** (`DriverProofs`): `LifeTypeCorrect`, `OneDriverAtATime`,
`NothingDangles`, `FreshStart`. The invariant adds to them `Owned` (what is set
belongs to the driver of the thread that has the flag), `Phases` (what has been
set up or taken down by then) and `LeakOK` (after a leak nobody has the flag).

**GATT server** (`GattServerProofs`): `TablesFaithful`, `HeapStaysBalanced`,
`SubscribersMirrored`, `AcknowledgedHeard`, from `GattServerAssumption` (the programs
declare lists of services). `TablesFaithful` is `NewTableWalk` and `StaticTableWalk`, and
that the table does not change once it is built. The invariant of the others says where the
construction is (`BuildInv`), that a running host has the handles of these services
(`HostInv`), that the hook knows the handle of a characteristic that is declared once
(`HandlesInv`: a registration goes over all characteristics and stores the last of that
name), and that a host with a peer does not advertise (`OnePeer`). The last is why a list of
subscribers with room for one is enough: `SubsInv` then says that the list is empty or has
the one peer, which makes what `retain` and the double subscription do to it a matter of
two cases. A peer's disconnect goes over all characteristics; that it leaves no
subscription behind is again an induction over the table.

**GATT client** (`GattClientProofs`): `PeerIsNamed`, `WritesReachTargets`,
`CallsCompletedOnce`, `EndsHaveCause`, from `GattClientAssumption`. `PeerIsNamed` rests on
`adv_has_name` computing `CarriesName` for every payload: the walk from a position finds
the name if and only if the rest of the payload can be cut into whole structures up to it
(`CarriesFrom`), by induction from the end of the payload. For the writes the invariant follows the
discoveries: while services are discovered, what the host has yet to report is a suffix of
the peer's services and the range kept is that of the last matching one before it
(`SvcInv`, `RangeAfter`); while characteristics are discovered, each one still to come is
one of ours, because it lies in the range (`GroupFacts`), and each one of the service that
the client needs is known or still to come (`ChrInv`). A procedure carries the handle it
was started with, so the invariant speaks of the handles in flight too (`Targets`). For the
calls, the pending procedures are counted by kind (`Counted`); a broken link completes all
of them, one after the other, and an induction over the queue says that each is counted
once. `EndsHaveCause` needs where each program can be (`Control`), that until something has
gone wrong its calls find the host as they need it (`Ready`), and that a discovery that ran
to its end has seen everything.

Only model-checked: liveness (`EventServed`, `AckServed`, `PacketsServedOneThread`,
`FiresEventually`, `CommandAnswered`, `EchoReturns`, `AdvertisesAgain`,
`SubscriberServed`, `EndsOnDisconnect`), which TLAPS does not do. Every invariant that a
passing run checks, and the refinement, is proved. The induction theorems of the library
take an operator for the property, which the provers cannot instantiate; where a proof
needs an induction it forms the set of numbers that have the property and uses `Upwards`.

The type invariants of the modules are proved where a theorem is named for it. The others'
inductive invariants (`Inductive` of `L2capChannel`, `Invariance` of `GattServer` and
`GattClient`) have of the types what the proofs need. They are not repeated in the runs,
except the event queue's, which also says that `run_events` never runs a null event.

## 5. What is not modelled

- The NimBLE C host: its sources are a submodule that is not in the repository.
  Where the code under `src/` depends on it, it is an external action, modelled
  from how it is used.
- Widths of integers: ticks are milliseconds in 32 bits, deadlines 64-bit
  instants. The truncation in `ble_npl_callout_remaining_ticks` is listed as a
  hazard; `gap.rs:424` casts a duration in the same way. Both values are read by the
  C host only.
- Opcodes, parameters, packet and attribute contents and the features a build selects:
  data the properties do not tell apart.
- Security (pairing, passkeys, bonds), connection parameters and the other GAP calls that
  are passed to the host and keep nothing.
- Spin and WFE parkers: they return at once or at any interrupt, so they block
  less than the one modelled.
- The log glue, which assembles lines of text, the heap itself, build scripts, tests,
  board support.

## 6. What could follow

1. `EchoReturns` has no proof, but the step that it rests on can have one: an undisturbed
   number is always in one place of `Line` or refused. The same goes for the other
   liveness properties: that the helpful step is enabled and takes the system closer.
2. Callouts across a driver restart: `TIMERS` outlives the driver (`npl.rs:591`).
3. The linked list of timers as such (`NplCallout` has a sequence), refining the
   sequence; the lemmas it would need are those of `StructureProofs`.

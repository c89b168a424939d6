# A verification of mini-apollo's cyber runtime

TLA+ models of the runtime in `src/cyber`: its lock, its lock-free queue, its
coroutine scheduler, its timers, the buffers between channels and tasks, `Async`, the
listeners of a process, the shared-memory transport and the logger, with the runs that
model-check them (TLC) and the theorems proved about them (TLAPS). `PROJECT.json` maps every definition to
the lines of the source it stands for and lists the hazards, runs, mutants,
findings and theorems that this page explains.

    tlc -workers 2 -config MCAtomicRWLock.cfg MCAtomicRWLock.tla     # a run
    tlapm ClassicSchedulerProofs.tla                                 # the proofs

Contents: [the system](#the-system), [the plan](#the-plan),
[the modules](#the-modules-and-the-code), [the runs](#the-runs),
[the proofs](#the-proofs), [findings](#findings),
[what is not modelled](#what-is-not-modelled).

## The system

mini-apollo is a reduced copy of Apollo's cyber: an in-process middleware in
which *components* read and write *channels*. A message goes from a `Writer`
through a transport (in the process, or through shared memory) to the dispatcher
of the receiving process, whose listeners put it into the buffers of `data/` and
notify the *task* of each reader; the scheduler then runs the task, a coroutine,
on one of its processors, and the coroutine fetches the message and calls the
component. Timers and `Async` bring other work to the same scheduler.

      Writer --transport--> Dispatcher --> DataDispatcher --> ChannelBuffer
                                              |  DataNotifier      ^
                                              v                    | TryFetch
      Timer --> TimingWheel --Async--> TaskManager          DataVisitor
                                              |                    ^
                                              v                    |
               SchedulerClassic  --queues-->  Processor --resume--> CRoutine

### Components, their state and what makes them right

*Modelled*

| component | state | operations | what is hard | what must hold |
|---|---|---|---|---|
| Reader-writer lock (`base/atomic_rw_lock.h`, `rw_lock_guard.h`) | the lock word, the count of waiting writers | `ReadLock`, `WriteLock`, the unlocks, the guards | a decision on stale copies, then a compare-exchange; blind decrements | the guards exclude each other; the counters are exact; with `write_first_` readers do not overtake and writers get in |
| Bounded queue (`base/bounded_queue.h`, `wait_strategy.h`) | three positions, the ring, a wait strategy | `Enqueue`, `Dequeue`, the waiting forms, `BreakAllWait` | claims out of order with commits, copies of slots that may be overwritten, notifications without a mutex | it is a FIFO queue; refusals are justified; calls return; no element stays beside a waiting consumer |
| Scheduler (`scheduler/`, `croutine/`) | the coroutine table, the run queues, a mutex per id, each coroutine's state, update flag, lock and stop flag, each processor's scan | `CreateTask`, `RemoveTask`, `NotifyTask`, `Shutdown`; `NextRoutine`, `Wait`, `Resume`, `Yield`, `Sleep`, `HangUp` | removal while a routine runs, creation again under the same name, notifications that race with the fetch, shutdown from anywhere | one processor per routine; table and queues agree; no notification falls through; calls return; sleepers wake |
| Timers (`timer/`, `time/rate.cpp`) | the counter of ids, slots, three queues, the list of cancelled ids, tick and origin of time, each task's deadline, rounds and fire count | `Timer::Start/Stop`, destructor; `TimerManager::Start/Shutdown`; `Step`; `Rate::Sleep` | a counter without a lock, cancellations consumed early, a wheel that lags or catches up, unsigned deadlines | a task is in one place, in its slot, with its rounds; it does not fire early or twice; a stop holds |
| Message buffers, dispatch and fusion (`data/`) | a ring per reader and channel, `next_msg_index_`, the buffers and notifiers of each channel | `AddBuffer`, `AddNotifier`, `Dispatch`, `Notify`, `Fetch`, `Latest`, `TryFetch` | overruns of a slow reader, fusion that looks at the rings one after another, readers that come while messages do | a ring is read like a log; no unseen message beside a sleeping task; companions are not older than the trigger |
| Task manager (`task/`) | the queue of tasks, `stop_`, the workers' routines, futures | `Async`, `Enqueue`, `Shutdown`, the workers' loop | who wakes a worker that hung up | every future becomes ready (it does not) |
| Dispatchers and listeners (`transport/dispatcher`, `message/listener_handler.h`, `base/signal.h`) | a table of handlers; slots, connections and a read-write lock per handler | `Enable`, `Disable`, `AddListener`, `RemoveListener`, `Connect`, `Disconnect`, `OnMessage`, `Run`, `Shutdown` | connection against disconnection and delivery; calls outside the mutex | an enabled listener gets each message once, a disabled one none |
| Shared memory (`transport/shm`, `transmitter/shm_transmitter.h`, `dispatcher/shm_dispatcher.cc`) | segments of blocks with a lock each, `need_remap_`, `wrote_num_`, the reference count, the ceiling; per process the mapping and its conf | `Transmit`, `AcquireBlockToWrite/Read`, `OpenOrCreate`, `OpenOnly`, `Remap`, `Recreate`, `Destroy`, `Notify`, `Listen`, `ReadMessage` | several processes, crashes, recreation under readers, announcements without acknowledgement | the locks say who is in a block; whole and fresh messages only |
| Logger (`logger/`) | two buffers, the flusher, a state, a count of rounds; the file's length and attempts | `Start`, `Write`, `Flush`, `Stop`, `RunThread`; `LogFileObject::Write`, `Flush` | the swap of buffers against `Write`, `Flush` and `Stop` | nothing accepted is lost between the buffers; a `Flush` covers what came before it; calls return |

*Partly modelled*: of the logger, file names, links and the routing by severity are
not; of the notifiers of shared memory, only what an announcement may suffer; of
`AtomicHashMap`, only `Get` and `Set` as steps.

*Not modelled*

| component | state and operations | why |
|---|---|---|
| Messages, identities, QoS; node, reader, writer | history of sent messages; init flags, blockers, the members of a node | mostly constant data and forwarding to the modelled parts |
| Blocker (`blocker/`) | published and observed queues, callbacks, two mutexes | every operation is one critical section |
| Thread pool and other containers (`base/`) | a bounded queue and threads; object pools, a re-entrant lock | a thin client of the bounded queue; no client in the modelled components |
| Performance events (`event/`) | a bounded queue and a writer thread | a trace facility that drops events by design |

Components, main board, class loader, global data, message traits, initialisation,
time, generated code and examples hold little state of their own: registries behind
one mutex, start-up code, conversions and I/O.

## The plan

Order, the most important behaviour first. Done: the modules 1 to 9.

1. `AtomicRWLock`: everything above rests on it. Its exclusion lets the other
   modules treat a write-locked section as one step.
2. `FifoQueue` (abstract), `BoundedQueue` (detailed, implements it). The modules
   above it use sequences.
3. `ClassicScheduler`: processors, coroutines, callers, and messages as the source
   of notifications.
4. `TimingWheel`: timers, the manager's thread, rate and wheel.
5. `TaskManager`: the workers of `Async`, over the abstract queue and the scheduler's
   `HangUp`.
6. `ChannelView` (abstract), `DataPath` (detailed, implements it): rings, dispatch,
   fusion.
7. `AsyncLogger`: writers, flusher, `Flush`, `Stop`, and the file.
8. `Listeners`: `Dispatcher`, `ListenerHandler` and `Signal`.
9. `ShmSegment`: block locks, remapping and recreation between processes.

Left: the ring of `ConditionNotifier` (`transport/shm/condition_notifier.cc`), whose
laps and skips the lossy announcements of `ShmSegment` stand for.

Proofs done: the safety of the lock, of the scheduler, of the queue with its refinement of
`FifoQueue`, of the data path with its refinement of `ChannelView`, of the logger, of the
segments, of the listeners and of the timers: every safety property of the
passing runs.

## The modules and the code

A module has one action per step that other threads can see, named after the
function or the part of it that it models. An action in the code's name with a
suffix `Blind`, `Forgets` and the like, marked *mutant*, is no part of the
specification: it is a plausible bug of the definition after it, and the property
paired with it in `PROJECT.json` fails with it.

**AtomicRWLock.** A step is one access to an atomic. `lock_num`,
`write_lock_wait_num` and `write_first` are the members; `seen` is the local copy
that `ReadLock` compares with; `pc` the place of each thread. Threads use the
guards, so they release what they took and do not nest. `compare_exchange_weak` may
fail spuriously. The retry counter, which only yields the CPU, is left out. `behind`
is a history variable for `NoOvertaking`.

**BoundedQueue, FifoQueue.** A step is one access to `head_`, `tail_`, `commit_` or
a slot; writing an element to its slot takes two steps, between which the slot is
`Torn`, as an element is a `shared_ptr` or a `std::function`. Positions grow without
wrap (64 bits), `GetIndex` maps them to slots. The wait strategies differ in
`EmptyWait`, `NotifyOne` and `BreakAllWait`. `FifoQueue` is the promise: put at the
end, take from the front, "empty" only when it is. The mapping takes for the abstract
queue the slots from after `head_` to before `commit_`, so a put happens at the
commit and a take at the compare-exchange of `head_`.

**ClassicScheduler.** One processor group. A section under a write lock is one step;
a section under a read lock that lasts several steps (the scan of a run queue, the
lookup in the table) shows in the guards of the writers, `NobodyScans` and
`WithoutReaders`. `ProcessorStep` is the loop of `Processor::Run` with
`ClassicContext::NextRoutine` and `Wait`, one step for each access to a flag that a
caller changes as well; `body` is where a coroutine's function is, so `Resume` goes on
where it yielded. `CallerStep` is the handlers `CreateTask` (with `DispatchTask` and
the registration of the visitor's callback), `RemoveTask`, `NotifyTask`, `Write` (a
message dispatched and notified) and `Shutdown`, cut where the code drops a lock.
Time is one bit per coroutine, `due`: has its wake time passed?

**TimingWheel.** `now` is the clock, in units of which a tick has `TickDuration`.
`StartTimer` is cut at the reads and writes of the unlocked `id_counter_`; `Step` at
the cancellation list's mutex and at each element it takes from the add queue. The
enumeration of a slot, `tick_++`, refilling and the handing of handlers to `Async` are
one step, as they touch nothing another thread uses; the order in which an
`unordered_map` lists a slot is a nondeterministic choice. Deadlines and ids are unsigned
numbers up to `UINT64_MAX`, so the underflow of a deadline before `start_time_` happens in
the model; `WidthAssumption` says that neither the count of timers nor the clock comes near
that limit. A wheel has two slots at least (`WheelAssumption`, 128 in the code): with one,
a task of the next tick would be under the hand a tick early, with a round left. The
bounded queues are sequences of bounded length, as `BoundedQueue` shows them to be.
`latest`, `handed`, `stopped`, `settled`, `overrun`, `clash` and `skew` are
history variables. A stop may cancel the id of the task before while the Timer is being
started again, so both tasks count as stopped: the one of the id, and the Timer's last.

**DataPath, ChannelView.** A critical section on a ring's mutex is a step, so is each
turn of the loops of `Dispatch` and `Notify`, and each step of a reader's creation
(`AddBuffer` per channel, `AddNotifier`, `DispatchTask`, `RegisterNotifyCallback`), as
messages may arrive between any two of them. A ring is `head_`, `tail_` and `slots` of
`Size + 1`; `index` is `next_msg_index_`. A task's loop is `Resume`, `Fetch` on the
first channel, `Latest` on each other one, then `Call` and `Yield`, or back to waiting;
of the scheduler there is the state and the update flag only, as
`SchedulerClassic::NotifyProcessor` sets it (`updated`). `ChannelView` is the promise of
one ring to its reader: a log, read in order, each message once, a jump only at the
start and after an overrun, to the newest, and "nothing" only when all is seen. The
mapping takes as log everything ever put into the ring (`log`, a history variable) and
`index - 1` as the place in it. The vectors that `Dispatch` and `Notify` walk without
the mutex grow only while nobody walks them: an append meanwhile is a data race.

**TaskManager.** Clients call `Async` one after another and wait for the future; `stop`
is read in one step and the queue used in a later one. A worker is READY, in DATA_WAIT
or FINISHED; nothing takes it out of DATA_WAIT, as nothing in the code does.

**Listeners.** One channel. `table` is its entry in `msg_listeners_`, an index into the
`handlers` ever made, as a lost handler is still in use by whoever got it. A handler has
the slots of each signal (`All` is `signal_`, a sender is its entry of `signals_`), the
recorded connections and the set of threads that hold its read lock. Slots are numbered
as they are connected: the list of a signal is a set of numbers, and `First` is the next
one to be called. `Connect` for all senders is two steps, for one sender it is under the
write lock. `Run` copies the slots, tests and calls them one by one, and clears the
disconnected; for the sender's signal it does so under the read lock. `status`, `must`,
`never` and `called` (how often a `Run` has called each listener) are history variables.
`Enable` for one sender has no guard against a second one, which would overwrite the
recorded connection; `PlansAssumption` says that a sender joins again only after it left,
as `Reader::OnChannelChange` has it.

**ShmSegment.** A *user* is a process with one `Segment` object: transmitter or
dispatcher. `segs` are all segments ever created, `key` the one `shmget` finds; a
removed segment lives on for those who have it mapped. Every access to the shared
memory is a step: the compare-exchanges of the block locks, `wrote_num_`,
`need_remap_`, the reference count, and the writing of a block in two steps with a
`Torn` content between them. `conf` is the process's own idea of the layout. The
announcements are a set that never shrinks: reading a member again, later or never is
duplication, delay and loss. `Die` ends a process at any step. Three races that the code
lets happen break the contents of a segment for good: it is opened while its creator
constructs it (`segment.cc:169`), a message is written that is larger than its blocks
(`segment.cc:147`, and above 32 MB), and an index from a segment with more blocks is
used (`segment.cc:104`). The model has all three and marks the segment `spoiled`; the
properties are about the others.

**AsyncLogger.** A section under `mutex_` is one step; `Write` looks at the pointer to
the active buffer and at its size without it, one step each. `RunThread` is cut where it
lets go of the mutex and at each message. `WriteFile` is `LogFileObject::Write`: the
environment chooses whether a file can be created, whether the disk is full, and whether
it is time to flush. One log file, as all messages of one module go to one. `accepted`,
`disk`, `flushed`, `due` and `promised` are history variables.

## The runs

| run | what it asks | instance | states, about |
|---|---|---|---|
| `lock` | exclusion, exact counters, no overtaking, writers get in | 4 threads that read and write without end, both values of `write_first_` | 200,000 |
| `queue` | the ring is a FIFO queue, its refusals are justified, calls return, no waiter is left | 2 producers, 2 consumers, 4 slots, four scenarios | 250,000 |
| `queue_block` (violation) | the same `NoItemStranded` under `BlockWaitStrategy` | 1 producer, 1 consumer | a short trace |
| `scheduler` | one runner, legal resumes, table and queue, one live routine per task, notifications kept | 2 processors, 2 callers, 2 priorities, 3 routines, four plans | 1.5 million |
| `scheduler_live` | calls return, sleepers wake | as above, two plans, 2 routines | with fairness |
| `timer` | places, rounds, earliness, stops of timers | 2 users, wheel of 2 slots, ticks of 2 units, 5 plans, 6 units of time | 4 million |
| `timer_stop` (violation) | `@brief Stop the timer` | 1 user: start, stop | a short trace |
| `data` | a ring is read like a log, fusion takes no old companions, nothing unseen | 2 writers, 2 readers (a fusion of two channels, a single channel), rings of 1 and 2 | 850,000 |
| `logger` | nothing lost, flushes cover, calls return | 2 threads, three plans | 270,000, with fairness |
| `listeners` | a run reaches all and calls nobody stale | 2 receivers, 2 senders, three plans | 1.1 million |
| `shm` | locks exact, reads whole and fresh | 2 writers, 1 dispatcher, 4 plans, 1 crash | 2.2 million |
| `async` (violation) | `task_1.get()` returns | 2 clients, 2 workers | a short trace |

**Properties.** Each one carries a comment in its module. In short:

- *lock*: `Exclusion`; `ExactCounters` (the atomics count the threads they
  stand for); `NoOvertaking` (a reader that arrived after a waiting writer does not get
  in before it); `SomeWriterGetsIn`.
- *queue*: `RingBounds` (the positions stay in order and within a ring of each other),
  `SlotsOwned` (a producer between its claim and its commit has its slot for itself, and
  no element that can still be taken is in it),
  `ImplementsFifo` (the
  refinement), `RefusalsJustified` (an `Enqueue` is refused only when the
  ring is full or the tail has moved since it was read),
  `PlainCallsReturn`, `NoItemStranded`, `WaitersReleased`.
- *scheduler*: `OneRunner`, `ResumesReady`, `TableMatchesQueue`,
  `OneLiveRoutinePerTask`, `NotificationKept`; `CallsReturn`, `SleepersWake`.
- *timer*: `RoundsExact` (a task is in the slot of its tick, with the number of turns
  before it, however far the wheel lags), `OnePlace` (a timer nobody stopped is in
  exactly one place; a oneshot fires once), `NotEarly` (no handler a whole tick
  early), `SettledStop` (a stop of a seated timer holds, though a step may be moving
  it). `OnePlace` is conditional: calls of `StartTimer` that overlap get wrong ids
  (`clash`), and a full queue loses tasks (`overrun`); both happen in the run.
- *data*: `ImplementsView` (the refinement, for every reader); `FusedInOrder` (each
  companion of a fused message is at least as new as what had been dispatched before
  the dispatch of that message began: it rests on the first channel being fetched
  before the others); `NothingUnseen` (with all dispatches done, a task that waits
  unnotified has seen the newest message, found another channel empty, or missed an
  announcement made before its callback was there).
- *logger*: `NothingLost` (accepted = passed to the file, then what the flusher still
  has, then the active buffer, in order; both empty when `Stop` has joined);
  `FlushCovers`; `CallsReturn`. Its `TypeOK` bounds the buffers: the limit is tested
  without the mutex, so each thread may exceed it by a message.
- *listeners*: `RunsReachAll` (once each, for listeners enabled throughout and not lost
  with a replaced handler), `NoStaleCalls`.
- *shm*: `LockWords` (a block's lock is -1 with exactly one writer in it and nobody
  else, or the number of its readers; dead ones included), `FreshReads` (never a torn
  message, and with one writer that stays never one older than announced; with two
  writers the blocks' numbers say nothing about age, which the model confirms).
- *async*: `FuturesReady`.

**Bounds and why they are enough.**

- Four threads put a holder, a reader between its test and its compare-exchange, a
  waiting writer and a newcomer beside each other; a fifth would double one of them.
- The ring has four slots (`Size` = 2) and three to five elements pass through it, so
  positions wrap, the ring is full and empty, and a producer laps a consumer that
  holds a stale copy. `MaxCalls` bounds the calls of a thread.
- Two processors and two callers make every race of two; two priorities make the scan
  cross a boundary; three routines are a task, its successor of the same name and a
  bystander. `Plans` bounds the calls; each plan is a race the hazards name. The
  symmetry over processors, and over the two routines of one task, is sound for
  invariants because no plan or parameter tells them apart; the liveness run has none.
- A wheel of two slots with intervals shorter than one turn, as in the code (1000 ms
  at most, 1280 ms a turn), so that only a lagging wheel needs rounds, which it does
  in the run. `MaxTime` = 6 is three ticks; `MaxTasks` = 2; a queue of one is full when
  two users meet. `UINT64_MAX` = 63 is enough for every deadline, and finite for underflow.
- Rings of one (the default of a fused channel) and two, with up to five messages:
  full, wrapped, overrun once and twice between two looks of the reader. Plans of
  `data` bound the messages.
- In the logger `Limit` = 1 makes a buffer full with two messages, so that a third is
  dropped or, tested on the wrong buffer, added; files roll over at two messages
  (`MaxLogSize`), creation is tried every second (`kRolloverAttemptFrequency`, 32 in the
  code). `MaxRounds` bounds the timeouts of the flusher, not its rounds of work.
- In `listeners` two receivers race to create the handler, and a receiver goes and comes
  back while two senders are in their runs, one twice.
- In `shm` there are two layouts, two blocks for messages of size 1 and one block for
  size 2, so that a stale index can lie past the end; size 3 is more than any. Two
  tries for a read lock (`kMaxTryLockTimes`, 5 in the code), one death (`MaxDeaths`),
  and no user attaches to a segment counted `MaxRefs` = 3 times. The writers are
  symmetric, as the set of plans is closed under exchanging them.

Runs with finite plans stop when the plans are done, so their cfgs say
`CHECK_DEADLOCK FALSE`; the lock's threads go on for ever, and there deadlock is
checked.

**Fairness.** Weak fairness only, and only of what the code does by itself: the
operating system runs every thread that is inside a call or a loop
(`ReadLoop`, `WriteLoop`, `Enqueue`, `Dequeue`, `ProcessorStep`, `CallerStep`), a
guard's scope ends (`Unlock`), a coroutine's callback ends or sleeps, time passes
(`WakeTimePasses`), and a *timed* wait ends (`WaitReturns` with `need_sleep`). An
untimed `cv_.wait` is never given fairness, and nothing makes a thread begin a call of
the lock. Strong fairness is not assumed: which thread wins a compare-exchange is open,
hence `SomeWriterGetsIn` and not "every writer gets in". In the logger the threads run
and the mutex is free again and again (`FlusherStep`, `CallerStep`): every critical
section is short, and a condition variable's waiters need a notification, which no
fairness provides. In `TaskManager` clients and workers go on, and a READY routine is
run; that a routine in DATA_WAIT is not is the code's doing.

## The proofs

TLC shows a property for an instance, TLAPS for every value of the constants.

**AtomicRWLockProofs**, for any finite set of threads (`ThreadsAssumption`). The
invariants of the run are nearly inductive: `IInv` is `TypeOK`, `Exclusion`,
`LockWord`, `WaitCount` (together `ExactCounters`) and `CopyReadable`, which says that the copy of a
reader at its compare-exchange was not write-locked. It is needed because the exchange succeeds when
the word equals the copy: were the copy -1, a reader could come in beside a writer.
The steps of readers, writers and unlocks are lemmas that count holders by the
cardinality of their sets. From `Inductive` follow `TypeCorrect`, `MutualExclusion` and
`ExactCounts`; `WritersFirst` adds an invariant about the history of arrivals: since
`WaitCount` holds, a reader that meets a count of zero has no waiting writer in front
of it.

**ClassicSchedulerProofs**, for any processors, callers, tasks, priorities and plans.
`SingleRunner` (`OneRunner`) is not obvious because `RemoveCRoutine` clears the lock of
a routine that may be running. `IInv` is therefore about the run queue: what a
processor holds is known to exist (`HoldersKnown`), a routine is in the queues at most
once (`QueuedOnce`), a routine that is held *and* queued is locked (`QueuedLocked`), and
the routine a call is about to push is known to that call alone (`Newcomers`). A
processor takes only what it finds unlocked in a queue, so nobody holds it; what has
left a queue never comes back. `Busy` ties the place of a call to the head of its plan.
There is a lemma for each group of actions, and `TypeCorrect` comes with it.

The other four properties are in `TInv`, which rests on `IInv`. `Mutexes` says that a call
between `LockId` and the unlock is the only one on its id, so it alone can be between the
two updates of table and queue; `Agreement` then holds what `TableMatchesQueue` says for
every other id, and for the id of such a call what the update has done so far. With it,
routines of one name are never both queued; a routine that is held but has left its queue
was told to stop (`Unstopped`), since only `Unlink` takes routines out; hence
`OneOfATask`. `ResumesReady` is inductive because the state of a held routine is its
holder's alone (`OneRunner`). `Kept` is `NotificationKept` without the condition that the
callback is registered, as the registration would break it: a routine begins to wait for
data with nothing unread (`FetchFails`), a message comes with a caller that announces it
(`Heralds` ties the callbacks of a `Write` to its channel), and this caller ends with the
flag cleared unless the task is gone or stopped.

**BoundedQueueProofs**, for any producers and consumers, any `Size` and any plans. The
argument is about windows of positions: from after `head_` to before `commit_` lie the
elements that can be taken, from `commit_` to before `tail_` the positions producers have
claimed (`Claims`: each its own). `RingBounds` makes the two together shorter than the
ring, so no two of their positions share a slot (`ModApart`, `SlotsApart`): that is
`SlotsOwned`, and hence a `Write` touches nothing that a consumer may take (`Contents`).
What a thread has read of the indices is old by then; `Copies` keeps what still holds of
it (a `tail_` that has not moved since the check still has room before `head_`, what
follows a checked `head_` was committed, because neither ever goes back). In `Refinement`
`Items` is the sequence of slots in the first window: the commit of a producer is `Put`,
the compare-exchange of `head_` is `Take`, finding nothing is `Miss`, and every other step
leaves `Items` alone, which is what needs `SlotsOwned`.

**DataPathProofs**, for any channels, writers, readers, inputs and sizes of the rings, 0
included. `NoMessage` is assumed to be no message. `Windows` says that a ring is a window
on the log of its channel: it ends where the log ends and holds, slot by slot, the newest
messages from `head` on (`FilledIsWindow`, with positions modulo the ring that stay
apart). A `Fetch` therefore finds a message of the log at the reader's index, or the
newest one after an overrun. In `Refinement` a `Fill` is `Write`, a fetch is `Look`,
`Jump` or `Miss`, the call of the task is `Consume`, the rest `Forget` or a stutter.
`FusedInOrder` follows from `Marks` (a message carries the lengths the other logs had when
its `Dispatch` began, and they only grow) and from `Fetching`, which holds what a fetch
that is under way has found so far. For `NothingUnseen` the invariant `Heard` says that a
waiting task with something unseen has a writer on its way to its notifier
(`WillNotify`); `Creation` knows that its callback is listed there.

**AsyncLoggerProofs**, for any finite set of callers, any plans, any `Limit`, any file and
disk (`LoggerAssumption` types the constants). `NothingLost` says what the two buffers,
the flusher's place and the disk add up to; it is not inductive, because a swap would
put the active messages in front of what is left in the other buffer. `Phases` says
that nothing is left then: outside "writing" and "clear" the flusher's buffer is empty,
and at "clear" its place is past the end. Its last part, that the flusher ends only
when the state is no longer RUNNING and the active buffer is empty, holds since `Write`
tests the state again under the mutex, which is the mutant `WriteAddUntested`. `Busy`
keeps the message of a call typed: a thread inside a call has it at the head of its
plan. `Order` moves one message at a time (`MoveOne`, `AppendLast`), and `SwapKeeps`,
`AddKeeps` and `CallerQuiet` are the steps that move all, one and none of them.
`TypeCorrect` includes how far a buffer can exceed its limit: `Room` adds to the length of
the active buffer the callers that have tested it and not yet added (`Adders`), which is
why the callers must be finitely many. `FlushIsKept` rests on `Served`: what a caller in
`Flush` is due is in the file already, or on its way in the round that the flusher is in
(`OnItsWay`), or in the active buffer with a flush request set, as long as the count of
rounds has not passed the two that `Flush` waits for.

**ShmSegmentProofs**, for any finite sets of writers and readers that are apart, and any
ceilings and block numbers. There is a lemma for each action on its effects and one,
`Frame`, on what a step leaves to everybody else, so that the invariants are argued about
without the actions. `Types` needs `Bumps`: that `wrote_num` does not go beyond what the
writers will send is shown by counting the writers yet to add to it. `LockWords` is
inductive except where blocks are constructed, which overwrites their locks: `Alone` says
that a creator about to do so has the segment for itself, or the segment is `spoiled`.
`FreshReads` has two halves. What is read is not torn (`Whole`), because a torn block has
its writer in it (`Clean`) and the lock then admits no reader (`LockWords`). It is not
old (`News`): with one writer the newest segment is the only one that is not marked for
remapping (`Solo`), so a reader that has looked at `need_remap` is in the newest one or
was told of its message before that was created.

**ListenersProofs**, for any receivers, senders and messages, and any plans in which a
sender joins again only after it left (`ListenersAssumption`, `PlansAssumption`). The
argument is about a slot and the connection recorded for it. `Places` keeps a slot in one
signal of one handler. `Conns` says that a connected slot in a signal is the one that the
handler has recorded for its listener, except between the two steps of `Connect` for all
senders, when nothing is recorded yet; so `Disconnect` always finds the slot, and a
listener that is off has none in the handler of the table. It rests on `Turns`: where a
receiver is in its call determines the status of its listener, one receiver makes one call
at a time, and by the order of its plan it does not connect a listener that is connected.
`Running` says that what a `Run` has copied and not yet called is in the signal if it is
still connected, which is what `ClearDisconnectedSlots` must leave alone, and that a `Run`
of the sender's own signal holds the read lock, so no `Disconnect` happens meanwhile. With
these, `Reaching` (a listener to be reached has been called, or its slot is still to be
called, never both) gives `EveryoneReached`, and `Sparing` (a listener to be spared has no
connected slot in the handler) gives `NobodyStale`.

**TimingWheelProofs**, for any users, timers and plans, any tick, any wheel of two slots
or more and any bounded queues. `WInv` says where a task is: being made, in the add queue
or seated, never in two of them (`MadeApart`, `QueuedOnce`), so that a user's step touches
no seated task. `RoundsExact` is then preserved by arithmetic alone (`Turn`: what one tick
does to the rounds of a task under the hand, and of one elsewhere; `Meets`: under the hand
there are tasks that fire and tasks with a round to go, and never an expired one with
rounds, which is the branch "task deadline overflow"). `Leaving` strengthens
`SettledStop`: a task whose id was stopped while seated is neither queued nor made again.
`CInv` is about time. The hand is not ahead of `Rate` and `Rate` not of the clock, in each
place of the thread (`Paced`), through catching up and through a shutdown and a new start,
whose `Rate` begins at the present; deadlines count from the first step
(`DeadlinesExact`); and an underflowed deadline never comes (`WidthAssumption`). This gives
`NeverEarly`. `OInv`, under the condition of `OnePlace`, says that ids are the numbers of
the tasks: one user at a time is between the accesses of `id_counter_` (`Alone`), so it
reads the count of tasks (`Numbered`), an id in the cancelled list has a task that counts
as stopped (`Known`), and the slots, which are keyed by id, take in every task given to
them. The proof showed that the history variable `stopped` had been too small: it held the
last task of a Timer, not the one whose id a racing stop cancels.

**Only model-checked.** Liveness under fairness (`SomeWriterGetsIn`,
`PlainCallsReturn`, `NoItemStranded`, `WaitersReleased`, `SleepersWake` and
`CallsReturn`, of the scheduler and of the logger) and anything with `ENABLED` are beyond
TLAPS here, and so is induction over data, which the library's theorems could only give
through operator parameters. The modules use none: loops over queues are steps, or, where
nothing can come in between, sets and functions in closed form (`FillSlots`). No module
declares a RECURSIVE operator.

## Findings

All are disagreements between what a test or a comment says and what the code does.

- `queue_block`: `BlockWaitStrategy::EmptyWait` (`base/wait_strategy.h:45`) waits
  without a condition, and `NotifyOne` takes no mutex. A notification between a failed
  `Dequeue` and the wait is lost, and the waiting consumer that
  `base/bounded_queue_test.cc:116-126` joins never ends.
- `timer_stop`: `TimingWheel::Step` consumes cancellations before it moves new timers
  from the add queue into their slots (`timer/timing_wheel.cpp:101`). A periodic timer
  that is started and stopped between two steps fires for ever.
- `async`: the call of `NotifyTask` in `TaskManager::Enqueue` is commented out
  (`task/task_manager.h:34`). Workers that found the queue empty hang up and are never
  run again, so `task_1.get()` of `task/task_test.cc:58-59` waits for ever.

One more disagreement has no run, as it is a comment against a plain line of code:
`logger/async_logger.h:62-65` says that writers block when the buffers are full, and
`async_logger.cpp:77` drops the message.

Other hazards that the code does not handle and no doc speaks about are listed in
`PROJECT.json` with a note; the model has them and the properties exclude exactly them:
a message announced before its callback is registered (`unheard`), `StartTimer` by two
threads at once (`clash`), a full queue in the wheel (`overrun`), an underflowing
deadline, a handler replaced by another `AddListener`, and the three ways to spoil a
segment. `ShmSegment` also has, without a claim about them: the null `state_` that
`Recreate` dereferences after a failed remap (`segment.cc:357`, the process dies), the
removal of a segment that another process has just created (`:359`), the decrement and
later read of the reference count (`:320`), references that a crash or a repeated remap
leaks, and blocks that a dead process left locked.

## What is not modelled

- *Within the modelled parts*: weaker memory orders than sequential consistency (the
  atomics are steps in one order); the data race on the table of id mutexes
  (`scheduler_classic.cpp:115`), whose outcome is undefined; the queue's destructor and
  `SetWaitStrategy` on a queue in use; thread attributes, cpusets and several processor
  groups, which share nothing the model has; a callback that yields instead of sleeping;
  simulation mode of timers and a clock that goes back; the data race on the vectors of
  `DataDispatcher` and `DataNotifier` (`data_dispatcher.h:65`, `:80`); `FetchMulti`;
  `RawMessage` and receivers of a wrong type; failures of `shmat`; several threads on one
  `Segment` object; log file names and links.
- *Other components*: as in the tables above. Generated protobuf code, examples,
  command line, class loading and files are I/O or constant data; the rest keeps
  its state in one critical section or none.

# Longene in TLA+

Longene runs Windows programs on Linux with Wine whose server is not a process but
a kernel module. `src/module/` is the wineserver of Wine 1.7.10 ported into the
kernel: clients reach it through ioctls on `/dev/syscall`, wake-ups that went
through pipes go through a structure and a completion per thread, and poll
callbacks and a timer thread replace the server's poll loop. The port turns a
single-threaded server into one that several contexts enter, and that is what most
of this project is about.

## The system

| Part | Source | Here |
|---|---|---|
| Recursive spin lock `thread_lock` | `lib.c` | `RecursiveSpinlock` |
| Waits: select, wake-up scans, APCs, suspension, kill; events, semaphores, mutexes, threads | `thread.c`, `event.c`, `semaphore.c`, `mutex.c` | `WaitSync` |
| Delivery of a wake-up to the client: `wake_info`, completion, ntdll's `wait_select_reply` | `thread.c`, `request.c`, `ntdll/server.c`, `ntdll/exception.c` | `WakeChannel`, over the abstract `WakePipe` |
| Objects, reference counts, names, handle tables | `object.c`, `handle.c`, `directory.c`, `process.c` | `HandleTable` |
| Named pipes, and the asynchronous waits they use | `named_pipe.c`, `async.c` | `NamedPipe` |
| Waitable timers, keyed events | `timer.c`, `event.c` | `WaitSync` |
| Asynchronous I/O, poll callbacks, completion packets | `async.c`, `fd.c`, `completion.c` | `AsyncIo` |
| Process and thread life cycle, request entry, timeouts and the timer thread | `process.c`, `thread.c`, `request.c`, `fd.c` | `ProcessLife` |
| Messages between threads, and user32's waiting for them | `queue.c`, `user32/message.c` | `SentMessages` |
| Windows, classes, hooks, desktops, clipboard, atoms, USER handles, regions | one file each | not modelled |
| File locks, directories, registry, tokens, mailslots, console, files, mappings, sockets, devices, serial, debugger, snapshots | one file each | not modelled |

`PROJECT.json` lists all of them with reasons, the line ranges of every
definition, the hazards and what covers them.

How the parts run together:

* A request (ioctl) runs under `uk_lock`, a semaphore that is a no-op on a machine
  with one processor. The timer thread runs its callbacks under the same lock. So
  a request or a timeout is one step of a module, except where something else may
  happen in the middle; there it is several.
* Poll callbacks, and `read` and `write` on `/dev/syscall`, run without `uk_lock`.
  `thread_lock` protects the wait lists against them.
* `assert` logs and goes on. A property that restates an assertion matters because
  nothing stops the code when it fails.

## Modules

**RecursiveSpinlock** (`recursive_spin_lock_bh`, `recursive_spin_unlock_bh`). One
action per access to a shared word: `Test` reads the owner's pid without holding
the lock, `Acquire` takes the spin lock, `SetPid`, `Bump`, `Unlock`, `ClearPid`
and `Release` are the other accesses. `depth` is a history of what each context
has locked. Contexts are tasks, and soft interrupts on idle processors, whose
`current->pid` is 0.

**WaitSync**. State: the stack of waits of each thread (a signal handler waits on
top of the interrupted wait), the wait queue of each object, suspend counts, APC
queues (by owner), pending signals, the last status given to each thread, and the
state of events, semaphores, mutexes and timers. A request that wakes threads is
split at each thread: `scan` is the `uk_wake_up` or `wake_thread` in progress,
`cont` what the request does after it. No other request starts in between, but the
clock may advance, since the code reads it for each wait. `Select` is the whole
`select` handler; `SignalAndWait` and `SelectRest` are its two halves around
`signal_object`. `TerminateThread`, `ExitThread` and the `Kill...` steps follow
`kill_thread` in order. `Smp` says that a thread may be killed while its own
request waits for `uk_lock`; that request then still runs. `SetTimer`,
`CancelTimer`, `TimerCallback` and `TimerSignal` are the waitable timers, with the
APC of a timer and the thread it remembers. The two sides of a keyed event are
waits whose check ends the wait of a partner; `Partners` is what
`keyed_event_signaled` finds in the queue, entry by entry, and the partner's wait
ends in the same step. The entries that leave the queues with a wait leave them
through **Lists**: `Keep` is what calls of `list_remove` leave of a list. It is
written with sets of positions rather than by recursion, so that the proofs can
use it.

**WakeChannel** has one thread and its wait stack, the slot `wake_info`, the
completion's counter, and the client's calls of `wait_select_reply` as a stack of
frames with program counters. The read of the completion and the copy of the slot
are separate steps, since no lock covers them. Nothing keeps the server from
sending a reply while an earlier one is unread or half read, and nothing does in
the model. Three history variables record what the properties speak of: `ended`
(how each wait ended), `stray` (SELECT_SIGNAL_AND_WAIT has sent a reply without a
cookie) and `crossed`: while a reply was on its way, another was sent or put back,
or a handler began to wait. The reply of `kill_thread` does not count as crossing,
since nothing has to arrive after it. **WakePipe** is what the client code was
written for; it promises nothing once it is no longer `intact`, which is mapped
to `~crossed`.

**HandleTable**. Tables are records with `count`, `last`, `free` and entries;
memory that has never been written is the value `Junk`, so that a read of it
shows. Requests that release objects take one step per release, because the last
release of an object releases its directory. The outcome of an access check, a
failed growth and the handles passed in are inputs. `pins` are references held by
waits.

**NamedPipe**. One pipe name with its servers in list order, their states, the
clients, the listen operation of each server, the clients waiting with
`FSCTL_PIPE_WAIT`, and flushes. Every request, destructor and timer callback of
`named_pipe.c` that changes any of it is an action. That the two ends' data is
read or written is outside the module (a socket pair) and appears as `unread`.
Paths on which memory runs out are left out: `create_named_pipe` and
`named_pipe_open_file` undo what they have done by releasing the half-made
objects, whose destructors then run on fields that are not set yet.

**AsyncIo**. One descriptor with its read and write queue, the `struct async` of
each operation (life, status, references, timeout, the APC it has allocated), the
system APCs of the threads, and the poll entry. `async_terminate`,
`default_poll_event`, `set_fd_events` and `async_destroy` call each other; a
context keeps the calls it has left to make in a list, and one step makes one
call. There are two contexts, the request or timer callback under `uk_lock`, and
`uk_pollwake`, which takes no lock; with `Smp` their steps interleave, without it
one context runs to its end before another starts. The file becomes ready, unready
or hangs up at any time.

**ProcessLife**. `srv` is all that `uk_lock` protects: processes, threads, startup
infos, handles on them, `running_processes`, `user_processes`, `shutdown_timeout`
and the lists of timeouts. Each server function is an operator from `srv` to
`srv`, and a request composes them. The timer thread is modelled in its own steps:
it moves what is due to a list of its own, calls the callbacks under the lock,
computes its sleep, drops the lock and only then sets its task state, so that a
`wake_up_process` in between is lost. Times count down to 0; `Tick` is the clock.

**SentMessages**. The message queue of each thread (sent, posted, quit and
hardware messages, wake bits and masks, the stacks of results), the results that
sender and receiver share, and the stack of calls of each client: its message
loop, the procedures it executes, and the calls of `wait_message_reply` inside
them. The functions of `queue.c` are operators on the pair of queues and results.
A thread may end, which destroys its queue, or be killed, which leaves the queue
to the handle that its process holds. Windows are reduced to one per thread; the
masks are those of `GetMessage` and of `wait_message_reply`, where a send with
SMTO_BLOCK waits for its result only (`ReplyMask`), while the bits in the answer of
`set_queue_mask` are looked at whatever the mask (`AfterMask`). A low-level hook
lets its key pass or rejects it (`ReturnFromHook`), and that is the value it
answers with.

Definitions called "A version ..." or "Mutant" are variants with a plausible
mistake in them; each property is violated by at least one, so it does depend on
the code.

## Runs

`tlc -config X.cfg M` in this directory; the sizes are distinct states.

| Run | Module | Instance | Shows |
|---|---|---|---|
| `spinlock` | `MCRecursiveSpinlock` | 3 tasks, depth 3; 116 | `MutualExclusion`, `WaitOnAssertion`; no deadlock |
| `wait_sync` | `MCWaitSync` | 3 threads, event, semaphore (limit 2), 2 mutexes, 9 selects, timed waits for a mutex, one processor, symmetry of 2 of the threads; 2,602,898 | `QueueConsistent`, `SemaphoreInBounds`, `NoLostWakeup`, `MutexConsistent`, `DeadThreadGone`, `AbandonedReported` |
| `wait_suspend` | `MCWaitSync` | 2 threads (symmetric), mutex, periodic timer with APC, timed waits for the mutex, suspension, handlers, late requests; 6,143,113 | `TimerApcOwned`, `NoLostWakeup`, `SuspendedAcquiresNothing` |
| `wait_timeouts` | `MCWaitSync` | 2 threads, manual event, semaphore, keyed event with 2 keys, timed waits, suspension; 261,363 | `RequestsEnd`, `TimedWaitEnds` |
| `wake_channel` | `WakeChannel` | suspension, timeouts, stray replies (at most 2 unread), kills; 176,753 | `KilledThreadEnds`, `ReturnsOwnStatus`, and the refinement `ImplementsPipe` |
| `wake_lost` | `WakeChannel` | suspension, timeouts | **violated**: `RepliesArrive` |
| `handle_names` | `MCHandleTable` | 1 process, 2 objects, a directory, one name, protected handles, a waiter; 504,173 | `TableConsistent`, `RefcountExact`, `NamesUnique`, `HandleStable` |
| `handle_dup` | `MCHandleTable` | 2 processes (symmetric), global table, inheritance; 45,915 | `RefcountExact` |
| `pipe_states` | `MCNamedPipe` | 3 servers, 2 clients, 1 waiter, limits 0 and 2; 179,148 | `StatesMatch`, `InstancesCounted`, `NoMissedListen`, `OutcomesHonest`, `FlushEnds` |
| `async_io` | `MCAsyncIo` | 1 thread, 2 operations with timeouts, one processor; 1,411,988 | `OneOwner`, `NoStaleAsync`, `NoMissedInput`, `PacketOnce`, `EndedIsFreed` |
| `process_life` | `MCProcessLife` | 2 processes, 2 threads, late requests; 745,355 | `CountsExact`, `ShutdownArmed`, `RefcountExact`, `DeadIsReaped`, `SystemTold` |
| `sent_messages` | `MCSentMessages` | 2 threads, one with the hook and one with the focus, 2 results, 3 sends, SMTO_BLOCK, timeouts; 1,124,622 | `ResultsOwned`, `BitsMatch`, `OneAnswer`, `SendReturns` |

Deadlock is checked for the lock only. The other instances may stop: all threads
dead or waiting for ever, all processes gone, a bounded counter full.

### Where the code disagrees with itself

`wake_lost` is a run. A resumed thread's wake-up may end two stacked waits at
once; the second reply overwrites the first. The client then puts a reply that is
not its own back, which announces nothing. The outer select sleeps for ever.

This is why the promises of `wake_channel` end when replies cross. What goes wrong
after that, besides lost replies: a handler's wait may return early, with the reply
to an earlier one of the same depth, since the cookie is an address on the stack;
and the reply of `kill_thread` may be overwritten, by a stray reply that a handler
puts back or by the reply to a handler's wait that began after the kill, so that
the thread stays. What does not go wrong: a select of the program never returns
with a status that is not its own, unless stray replies are about
(`ReturnsOwnStatus`).

The others are met with different constants or kept out of the instances; the
hazards in `PROJECT.json` record them.

* The lock knows its holder by `current->pid`, and soft interrupts on two idle
  processors both have pid 0 (`lib.c:3743`). Each takes the other for itself; one
  of them unlocks, and a task that has since taken the lock finds it free, which
  `wait_on` asserts it is not. The spin-lock results assume `DistinctPids`.
* `release_semaphore` wakes nobody when the count is not 0: "there cannot be any
  thread to wake up" (`semaphore.c:124`). A wait for all
  that `uk_wake_up` finds timed out, and that lacks another object, counts against
  the number of wake-ups, so a unit can remain with a thread behind it in the queue
  that could have it; an auto-reset event the same. `NoLostWakeup` fails then: it
  takes `wait_timeouts.cfg` with a third thread. A timed wait for the semaphore
  alone is harmless, because `check_wait` looks at the objects before the clock
  (three threads, `Selects <- SemaphoreSelects` and no other object: 4,670 states,
  no error). The timed waits of `wait_sync` and `wait_suspend` are for a mutex,
  which wakes all its waiters.
* A wait for all that names one semaphore twice takes its count below zero
  (`semaphore.c:115`). The selects of the runs name it once.
* On several processors a thread killed inside the ioctl can still take a mutex or
  begin a wait (`request.c:961`). `wait_suspend` has these late requests;
  `DeadThreadGone` is checked and proved without them; `MutexConsistent` is
  checked without and proved with them.
* On several processors a poll callback may be in `async_terminate`, between the
  queueing of the APC and `async->apc = NULL`, while the thread executes that APC and
  its result restarts the operation with a new one. The callback clears the new
  one, and the next `assert( async->apc )` (`async.c:193`) fails: `ApcAllocated` with
  `Smp` set. `async_io` is for one processor.
* The reference that `NtEarlyInit` takes on a thread is never released
  (`request.c:943`); `RefcountExact` counts it and shows that it is the only one.
* `alloc_message_result` leaves the bit QS_SMRESULT of an earlier result set, so a
  nested send is told that its reply is there, asks for it, gets "pending" and
  cancels its own message. `RepliedWhenAsked` states what `wait_message_reply`
  expects ("Wait until a sent message gets replied to.") and fails with three
  sends.
* A thread that sends with SMTO_BLOCK is not woken for a message sent to it
  (`message.c:3012`), which is what the flag is for; two that do wait for each
  other. `SendReturns` excepts a thread that sleeps so with a message to answer.
* `process_sent_messages` removes the WM_QUIT it meets when there is no sent
  message, and drops it. `SentMessages` follows the code; no property depends on
  the loss.

### Bounds

* `spinlock`: the third task is the one that finds the lock changing hands between
  its test and its acquisition; depth 3 has nested calls inside nested calls.
* `wait_sync`: three threads give a queue with one waiter before the interesting
  one and one acting thread. The limit 2 with releases of 1 and 2 lets one release
  wake two waiters, and meets the limit. `WrapAt` 8 stands for 2^32, so that the
  overflow test is exercised by the same comparison. `MaxRecursion` 2 has
  recursive ownership. A wait on `t1` is among the selects, so only the other
  threads are interchangeable.
* `wait_suspend`: two waits can be stacked on one thread, `MAXIMUM_SUSPEND_COUNT`
  and the APC queues are 1; a suspension while suspended is refused, as at the
  real limit. The timer is periodic, so that it can expire again with its APC
  queued, running or cancelled. Threads are interchangeable there: no select names
  one, and no liveness is checked.
* `wait_timeouts`: two keys let a partner be passed over. Two threads are the two
  sides of a keyed event. A suspended partner that is passed over for another one
  takes three threads: with `wait_suspend.cfg` changed to `Thread = {t1, t2, t3}`,
  `Mutex = {}`, `Timer = {}`, `TimerSets = {}`, `KeyedEvent = {k1}`,
  `Key = {key1}`, `Selects <- KeyedSelects`, `MaxRecursion = 0`, `MaxApc = 0` and
  `Smp = FALSE`, `NoLostWakeup` holds in all 405,445 states.
* `wake_channel`: one wait of the program and one of the handler is all that can
  be stacked, because the handler blocks SIGUSR1. `MaxDone` bounds only the stray
  wake-ups of the program's own signals; with 2 of them one can be unread while
  another is kept.
* `handle_names`: tables of 1 and 2 entries grow, fill up and shrink; other sizes
  are left to the proof. `handle_dup` spends the states on a second process
  instead.
* `pipe_states`: three servers for a limit of 2 (one is refused until another
  closes) and for two servers in different states before the third; limit 0 still
  admits one. One waiter is enough, because waiters do not interact.
* `async_io`: two operations share a queue, where the second must be armed when
  the first ends, or have one queue each.
* `process_life`: a parent and a child, or a user and a system process; process
  and thread slots are used again. The delays of 1, 1, 2 and 2 ticks stand for 1,
  2, 3 and 10 seconds: some timeouts fall due together, and a timeout added while
  the timer thread goes to sleep is due before it wakes.
* `sent_messages`: with three sends two threads send to each other and one of them
  again from the procedure; two results are then alive, and the third send needs a
  result that was freed. All sends count, posts and hooks too. Every send may time
  out; the behaviours in which it does not are those of a send without a timeout.

### Fairness

* `WaitSync`: `WF(Step)`, because a request holds the processor and `uk_lock`
  until it ends; `SF(Timers)` and `SF(TimerCallback)`, because the timer thread
  queues on the same fair semaphore as requests and cannot be overtaken for ever;
  `WF(Expire)`, because time passes; `SF(SignalHandler)`, because Linux delivers a
  pending signal on the return to user mode. `TimedWaitEnds` assumes in addition
  that the thread is not suspended for ever.
* `WakeChannel`: the client's own steps, those of a wake-up in progress and the
  end by SIGQUIT are weakly fair; the handler is strongly fair for the same reason
  as above. Other threads' requests are not fair: nobody has to resume, signal or
  kill.
* `NamedPipe`: only the timer callback `CheckFlushed` is fair. Nobody has to read,
  connect, or close.
* `AsyncIo`: a context goes on with the calls it has begun (weak). A thread with a
  system APC is signalled in whatever it does, calls select, executes the APC and
  returns the result (strong, because requests of others come in between). Input
  need not arrive and time need not pass.
* `ProcessLife`: the timer thread is scheduled when it can run, and the clock
  advances. No process has to do anything.
* `SentMessages`: clients run and the procedures they call return. Timeouts, kills
  and the closing of a dead process's handles are not fair.

## Proofs

`tlapm M.tla` in this directory. Every theorem holds for all values of the
constants that satisfy the named assumptions.

| Theorem | States | From |
|---|---|---|
| `SpinlockExclusion`, `SpinlockNesting` | `MutualExclusion`; `NoSelfDeadlock` and `WaitOnAssertion` | `DistinctPids`, any number of contexts, any nesting |
| `MutexesConsistent` | `TypeOK` and `MutexConsistent` of `WaitSync` | any threads, objects, selects, limits, with kills, suspension, timeouts and late requests |
| `TimerApcsOwned` | `TimerApcOwned` of `WaitSync` | the same |
| `AbandonedMutexReported` | the action property `AbandonedReported` of `WaitSync` | the same |
| `SemaphoresInBounds` | `SemaphoreInBounds` of `WaitSync` | the same, and `SelectsOnce`: no select names a semaphore twice |
| `SuspendedThreadsIdle` | the action property `SuspendedAcquiresNothing` of `WaitSync` | as for `MutexesConsistent` |
| `QueuesConsistent` | `QueueConsistent` of `WaitSync` | the same |
| `DeadThreadsGone` | `DeadThreadGone` of `WaitSync` | the same, on one processor (`Smp = FALSE`) |
| `ChannelImplementsPipe` | `WakeChannel` implements the safety part of `WakePipe` | any number of stray replies; suspension, timeouts and kills at any time |
| `KillIsAnnounced` | `KillAnnounced` of `WakeChannel`: SIGQUIT or a reply that will be read | the same |
| `RepliesAreOwn` | the action property `ReturnsOwnStatus` of `WakeChannel` | the same |
| `RepliesConserved` | no more replies than calls whose wait has ended, without stray ones | the same |
| `TablesConsistent` | `TypeOK` and `TableConsistent` of `HandleTable` | any processes, objects, names and table sizes |
| `RefcountsExact`, `NamesAreUnique` | `RefcountExact`, `NamesUnique` of `HandleTable` | the same |
| `HandlesStable` | the action property `HandleStable` of `HandleTable` | the same |
| `PipeStates`, `PipeInstances`, `PipeWaiters` | `StatesMatch`, `InstancesCounted`, `NoMissedListen` of `NamedPipe` | any servers, clients, waiters, limits and sharing modes |
| `PipeOutcomes` | the action property `OutcomesHonest` of `NamedPipe` | the same |
| `OperationsOwned`, `OperationsLive` | `OneOwner`, `NoStaleAsync` of `AsyncIo` | any threads and operations, with and without timeouts, where callbacks do not overlap requests (`Smp = FALSE`) |
| `CompletionOnce`, `InputNotMissed` | `PacketOnce`, `NoMissedInput` of `AsyncIo` | the same |
| `AsyncAsserts` | the assertions of `async_terminate`, `async_set_result` and `release_object`: `ApcAllocated`, `ResultAwaited`, `RefsLeft` | the same |

The arguments:

* **Spin lock.** The owner is read outside the lock, so exclusion is not
  inductive. `IInv` adds what the words mean: `spin` is set exactly while somebody
  holds, `pid` is the holder's while it is between `SetPid` and `ClearPid` and -1
  otherwise, and `count` is the holder's depth. A context that reads its own pid
  must then be the holder, which is where `DistinctPids` is needed.
* **Mutexes and timers.** `IInv` is `TypeOK`, `ContOK` (the request in progress
  names a thread or a timer), `DeadNoApc` (no APC is left with a thread that
  `kill_thread` is done with, which a timer relies on when it forgets a dead
  thread), `MutexConsistent` and `TimerApcOwned`. The work is in `Satisfied`: a
  WAIT_ALL may take several mutexes, and one several times, in one step
  (`TakenSignaled`: whatever a wait takes was free, or the thread's own).
  `SatisfiedMutex` and `DropMutexInv` carry it, `DeliverInv` and `SelectOnInv`
  lift it to the places that end a wait, and there is one lemma for each group of
  requests.
* **Grants.** The second part of `WaitSync_proofs` looks at what one step gives away.
  `NextGrants`: a step either grants one wait of one thread, or releases a
  semaphore, or leaves all counts and all abandoned marks. An abandoned mark
  therefore disappears only in a grant, and `Satisfied` answers "abandoned" then.
  For semaphores, `GrantBounds` needs that the wait granted names the semaphore
  once; the waits on the stacks come from selects (`WaitsFrom`), so `SelectsOnce`
  is enough, and without it the count can wrap. `NextIdles` looks at one suspended
  thread in the same way: `check_wait` grants it nothing but a system APC.
* **Dead threads.** `kill_thread` empties the waits, the mutexes and the APCs of a
  thread one after the other, so `DeadInv` says how far it has come by the
  position `cont` of the request in progress, and that no late request is under
  way. That last part is what `Smp = FALSE` gives: on several processors it is
  false, and so is `DeadThreadGone`.
* **Wait queues.** An entry names a thread and the level of a wait counted from
  the bottom of its stack, because a wait keeps that number while others come and
  go above it. `QueuesFit` states `QueueConsistent` in these terms, and is
  inductive together with `IInv`. Three things happen to it: entries leave
  (`KeepFits`), a new wait adds one entry for each object it names (`PushFits`),
  and a wait is replaced by one on the same objects (`ReplaceFits`). The first
  rests on `KeepCount`: the entries kept occur in the new list as often as they did
  in the old one.
* **Wake-up channel.** There are two invariants, one for each half of
  `ReturnsOwnStatus`. `ChannelInv` holds until replies cross and says where a reply
  can be: the waits of the server are the calls of the client, one for one
  (`NoReply`; a stray wake-up may be on its way), or the call on top has no wait any
  more and its reply is in the slot or in its frame (`TopReply`), or the reply of
  `kill_thread` is there, perhaps behind others (`KillReply`). For the refinement,
  `CallsIn` is the state of the pipe as a function of the stacks of frames and
  waits; each step changes one call in it, or all at once when the thread ends.
  `OwnInv` holds whatever crosses, while there are no stray replies. `Conserved`
  counts: the replies announced, those the calls hold and the pending waits are
  together at most the calls. A call of the program that returns leaves no call,
  hence no reply, behind, so that its next one cannot meet an old reply, although
  the cookie is the same. This fails for the handler, below whose calls there is
  one of the program.
* **Handle tables.** `TableConsistent` does not hold in the middle of a
  destruction, and says nothing of tables that are closed. `IInv` therefore splits
  it: every table is sound (nothing uninitialised up to `last`), open ones are
  also tight, and `ContOK` ties the table being destroyed to the request in
  progress. Each table operation has a lemma of its own (`FilledGood`,
  `ShrunkGood`, `ClearedMid`, `CopiedMid`, `FlaggedGood`); the requests only cite
  them.
* **References and names.** `RefcountExact` adds up handles over all tables, waits,
  directory entries and pending releases. `RefInv` splits the first into the
  entries of each table (`Used`), each table operation has a lemma on what it
  does to them (`UsedFilled`, `UsedShrunk`, `UsedEmptied`, `UsedFlagged`), and
  `HandlesGain` and `HandlesLose` carry a change of one table to the sum.
  `HandlesCopy` counts the handles that a child inherits. It also has to be known
  that a name goes with its object, that only a named object is in a directory,
  and that a closed table has no entries unless it is being destroyed.
  `HandleStable` follows from the same lemmas (`UsedStable`).
* **Named pipes.** `StatesMatch` is inductive once the types are added, if it is
  stated from both ends: a server's state against its client and a client's
  against its server, since closing one end changes the other. `PipeInv` adds
  `ListInv` (the list of servers has no duplicates and as many entries as are
  counted) and `WaitInv`. That a waiter is never passed over rests on
  `FirstExists`: when some server listens, there is a first one in the list, by
  well-foundedness of the naturals.
* **Asynchronous operations.** The calls that wait in the two contexts are taken as
  one list `Todo`; with `Smp = FALSE` one context is idle, so a step replaces the
  head of that list by the calls it makes (`Replaced`). `Core` accounts for the
  references of an operation: as many as `Todo` has releases of it, and one more
  while it is held, by its queue (`Pends`), by its APC in the queue of the thread
  (`Posted`) or by the thread that executes it (`Runs`), never by two of them. To
  be inductive it also needs the shape of `Todo`: a call on an operation comes
  before a release of it (`Covered`), a result or an APC being queued is only ever
  at the head (`Shaped`), an operation listed to be ended is not freed by the calls
  before it (`TermAt`). Between two requests `Todo` is empty, and what is left of
  `Core` is `OneOwner`. `AsyncIo_refs_proofs` has one lemma for each action
  (`CoreQueueApc`, `CoreFree`, ...), and `CoreNext` for the step; what they use of
  counting the elements of a list is their assumption `ListFacts`, which
  `AsyncIo_proofs` discharges (`ListsHold`) from the library of finite sets.
  In `AsyncIo_polls_proofs`, `Ports` and `Packs` follow the port from the descriptor
  to the queue when it is closed, and the result to the packet.
  `Polls` says what excuses a poll entry that does not match what is pending: a
  call still to come that looks at the file again (`Full`), one that arms the entry
  (`Rearms`), or one that wakes the queue in question (`Wakes`). No such call is
  left between two requests, which is `NoMissedInput`.
  All parts were checked with TLC on instances of two threads and two operations,
  and three reads, before they were proved. That is how the exception in `NoStaleAsync` was found:
  after a hang-up a thread registers two operations and dies, and another thread of
  the process cancels all. Ending the first frees it at once, since a dead thread
  takes no APC; `async_destroy` polls the file, which is ready, and wakes and frees
  the second; `async_wake_up_by` goes on to it with the pointer it had kept. The
  theorem shows that this is the only such call.

Only model-checked:

* all liveness (`RequestsEnd`, `TimedWaitEnds`, `KilledThreadEnds`, `FlushEnds`,
  `EndedIsFreed`, `DeadIsReaped`, `SystemTold`, `SendReturns`) and the fairness
  half of the refinement `ImplementsPipe`, which are beyond the proof system;
* `CountsExact`, `ShutdownArmed` and `RefcountExact` of `ProcessLife`, whose
  release of an object is recursive, and the safety properties of `SentMessages`, whose
  operators fold over sequences: both need induction over data;
* `NoLostWakeup`, which is about what remains of a scan that restarts from the
  head of a queue.

## Not modelled

* Requests that change one structure under `uk_lock` and leave nothing in between:
  windows and classes, hooks, window stations and desktops, the clipboard, atoms,
  USER handles, file locks and sharing modes, directories and symbolic links, the
  registry, tokens, console buffers, snapshots. What they share with the rest
  (references, waiting, timeouts) is in the modules.
* Regions, a sequential algorithm with no state between requests.
  (`mirror_region`, `region.c:737`, exchanges two rectangles by copying the second
  over the first.)
* What is a call of the Linux kernel: files and mappings, sockets, inotify, serial
  lines, ptrace. Their asynchronous operations are those of `AsyncIo`.
* Debug events, mailslots, devices: users of the modelled parts.
* The cache `last_thread`, which `get_current_thread` reads and writes without a
  lock (`thread.c:198`), and the end of a Linux task that tells the server
  nothing.
* Inodes, mount points and descriptors that are mapped rather than polled; the
  queue of a completion port.
* Memory exhaustion, except a handle table that cannot grow.
* `main`, the master socket and the poll loop of wineserver, which the kernel
  build does not run; the code for other systems; tracing.

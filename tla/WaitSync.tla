------------------------------ MODULE WaitSync ------------------------------
(***************************************************************************)
(* The dispatcher of the kernel module: threads that wait on events,       *)
(* semaphores, mutexes, timers, keyed events and other threads (thread.c,  *)
(* event.c, semaphore.c, mutex.c, timer.c).                                *)
(*                                                                         *)
(* Requests run under uk_lock, one at a time.  A request that wakes        *)
(* threads is modelled by several steps: the action named after the        *)
(* request does what comes before uk_wake_up, "scan" is the uk_wake_up or  *)
(* wake_thread in progress, one step per thread looked at, and "cont" is   *)
(* what the request does afterwards.  No other request starts in between;  *)
(* the clock, which the code reads afresh every time, may advance.         *)
(***************************************************************************)
EXTENDS Integers, Sequences, FiniteSets, Lists

CONSTANTS Thread, Event, Semaphore, Mutex, Timer, KeyedEvent,
          ManualReset,   \* the events and timers that are manual reset
          SemMax,        \* the limit of each semaphore
          Selects,       \* the select requests the threads make
          Counts,        \* the counts passed to release_semaphore
          TimerSets,     \* the set_timer requests the threads make
          Key,           \* the keys of keyed waits
          WrapAt,        \* number of values of an unsigned int (2^32 in C)
          MaxSuspend,    \* MAXIMUM_SUSPEND_COUNT
          MaxRecursion,  \* bound on the recursion count of a mutex
          MaxApc,        \* bound on the length of an APC queue
          Smp,           \* uk_lock is a semaphore, not a no-op
          None

Object == Thread \cup Event \cup Semaphore \cup Mutex \cup Timer \cup KeyedEvent

\* A select request: op is "any" (SELECT_WAIT and SIGNAL_AND_WAIT), "all", or
\* one of the two sides of a keyed event, signal the object to signal first,
\* timeout an absolute time compared with the clock.  (A sleep, a select on
\* nothing, is here a wait for an object that nobody signals.)
Keyed == {"keyed_wait", "keyed_release"}
SelectType == [op : {"any", "all"} \cup Keyed, key : Key \cup {None}, objs : Seq(Object),
               signal : Object \cup {None}, alertable : BOOLEAN, interruptible : BOOLEAN,
               timeout : {"infinite", "future", "past"}]

ASSUME WaitSyncAssumption ==
  /\ None \notin Object
  /\ Thread \cap Event = {} /\ Thread \cap Semaphore = {} /\ Thread \cap Mutex = {}
  /\ Event \cap Semaphore = {} /\ Event \cap Mutex = {} /\ Semaphore \cap Mutex = {}
  /\ (Timer \cup KeyedEvent) \cap (Thread \cup Event \cup Semaphore \cup Mutex) = {}
  /\ Timer \cap KeyedEvent = {}
  /\ ManualReset \subseteq Event \cup Timer
  /\ WrapAt \in Nat \ {0}
  /\ SemMax \in [Semaphore -> 1 .. WrapAt - 1]
  /\ Selects \subseteq SelectType
  /\ \A sel \in Selects :
       /\ sel.objs # <<>>
       /\ sel.op \in Keyed => Len(sel.objs) = 1 /\ sel.objs[1] \in KeyedEvent /\ sel.signal = None
  /\ TimerSets \subseteq [period : BOOLEAN, callback : BOOLEAN]
  /\ Counts \subseteq 1 .. WrapAt - 1
  /\ MaxSuspend \in Nat /\ MaxRecursion \in Nat /\ MaxApc \in Nat
  /\ Smp \in BOOLEAN

VARIABLES
  state,       \* thread->state
  suspend,     \* thread->suspend (process->suspend is 0)
  waits,       \* thread->wait: the stack of thread_wait structures, top first
  sysApc,      \* length of thread->system_apc
  userApc,     \* the owners of the APCs in thread->user_apc: None or a timer
  sigusr1,     \* SIGUSR1 sent to the thread and not yet handled
  late,        \* the thread was inside the ioctl, before uk_lock, when killed
  reply,       \* last status a select gave the thread, at once or by wake-up
  queue,       \* obj->wait_queue: <<thread, level of the wait in its stack>>
  signaled,    \* event->signaled, timer->signaled
  timer,       \* the other fields of a timer
  semCount,    \* sem->count
  owner, count, abandoned,   \* the fields of a mutex
  mutexList,   \* thread->mutex_list, as a set
  scan,        \* the uk_wake_up or wake_thread in progress
  cont         \* the rest of the request in progress

threadVars == <<state, suspend, sysApc, userApc, sigusr1, late>>
waitVars   == <<waits, queue>>
objVars    == <<signaled, semCount>>
mutexVars  == <<owner, count, abandoned, mutexList>>
jobVars    == <<scan, cont>>
vars == <<threadVars, waitVars, reply, objVars, timer, mutexVars, jobVars>>

WaitType == [op : {"any", "all"} \cup Keyed, key : Key \cup {None}, objs : Seq(Object),
             alertable : BOOLEAN, interruptible : BOOLEAN,
             timeout : {"infinite", "future", "past"}, armed : BOOLEAN]

Status == {"none", "object", "abandoned", "system_apc", "user_apc", "timeout", "killed"}

NoScan == [obj |-> None, max |-> 0, pos |-> 1, cur |-> None]
NoCont == [op |-> "none", arg |-> None]

Idle == scan = NoScan /\ cont = NoCont

TypeOK ==
  /\ state \in [Thread -> {"RUNNING", "TERMINATED"}]
  /\ suspend \in [Thread -> 0 .. MaxSuspend]
  /\ waits \in [Thread -> Seq(WaitType)]
  /\ sysApc \in [Thread -> 0 .. MaxApc]
  /\ userApc \in [Thread -> Seq(Timer \cup {None})]
  /\ sigusr1 \in [Thread -> BOOLEAN]
  /\ late \in [Thread -> BOOLEAN]
  /\ reply \in [Thread -> Status]
  /\ DOMAIN queue = Object
  /\ signaled \in [Event \cup Timer -> BOOLEAN]
  /\ timer \in [Timer -> [armed : BOOLEAN, period : BOOLEAN, thread : Thread \cup {None}]]
  /\ semCount \in [Semaphore -> 0 .. WrapAt - 1]
  /\ owner \in [Mutex -> Thread \cup {None}]
  /\ count \in [Mutex -> Nat]
  /\ abandoned \in [Mutex -> BOOLEAN]
  /\ mutexList \in [Thread -> SUBSET Mutex]
  /\ scan \in [obj : Object \cup {None}, max : Nat, pos : Nat \ {0},
               cur : Thread \cup {None}]
  /\ cont \in [op : {"none", "pulse", "kill", "exit", "select", "timer"},
               arg : Object \cup {None}]

Init ==
  /\ state = [t \in Thread |-> "RUNNING"]
  /\ suspend = [t \in Thread |-> 0]
  /\ waits = [t \in Thread |-> <<>>]
  /\ sysApc = [t \in Thread |-> 0]
  /\ userApc = [t \in Thread |-> <<>>]
  /\ sigusr1 = [t \in Thread |-> FALSE]
  /\ late = [t \in Thread |-> FALSE]
  /\ reply = [t \in Thread |-> "none"]
  /\ queue = [o \in Object |-> <<>>]
  /\ signaled = [e \in Event \cup Timer |-> FALSE]
  /\ timer = [x \in Timer |-> [armed |-> FALSE, period |-> FALSE, thread |-> None]]
  /\ semCount = [s \in Semaphore |-> 0]
  /\ owner = [m \in Mutex |-> None]
  /\ count = [m \in Mutex |-> 0]
  /\ abandoned = [m \in Mutex |-> FALSE]
  /\ mutexList = [t \in Thread |-> {}]
  /\ scan = NoScan
  /\ cont = NoCont

-----------------------------------------------------------------------------
(* What a wait needs and what it takes.                                     *)

\* keyed_event_signaled and wake_thread_queue_entry: the entries of the queue
\* whose wait is the other side of w, is the top wait of its thread, and may
\* be satisfied now.
Partners(w, t) ==
  LET q == queue[w.objs[1]] IN
  {k \in DOMAIN q :
     LET u == q[k][1] IN
     /\ u # t /\ suspend[u] = 0 /\ waits[u] # <<>> /\ q[k][2] = Len(waits[u])
     /\ {w.op, Head(waits[u]).op} = Keyed /\ Head(waits[u]).key = w.key}

\* obj->ops->signaled: event_signaled, timer_signaled, semaphore_signaled,
\* mutex_signaled, thread_signaled and keyed_event_signaled.
Signaled(o, w, t) ==
  \/ o \in Event \cup Timer /\ signaled[o]
  \/ o \in Semaphore /\ semCount[o] > 0
  \/ o \in Mutex /\ (count[o] = 0 \/ owner[o] = t)
  \/ o \in Thread /\ state[o] = "TERMINATED"
  \/ o \in KeyedEvent /\ (w.op \in Keyed => Partners(w, t) # {})

SignaledIn(w, t) == {i \in DOMAIN w.objs : Signaled(w.objs[i], w, t)}

\* A version that lets a suspended thread acquire objects.
CheckWaitSuspended(w, t) ==
  IF w.interruptible /\ sysApc[t] > 0 THEN "system_apc"
  ELSE IF \/ w.op = "all" /\ SignaledIn(w, t) = DOMAIN w.objs
          \/ w.op # "all" /\ SignaledIn(w, t) # {} THEN "object"
  ELSE IF w.alertable /\ userApc[t] # <<>> THEN "user_apc"
  ELSE IF w.timeout = "past" THEN "timeout"
  ELSE "none"

\* check_wait: "none" stands for -1 and "object" for STATUS_WAIT_0 + i.
CheckWait(w, t) ==
  IF w.interruptible /\ sysApc[t] > 0 THEN "system_apc"
  ELSE IF suspend[t] > 0 THEN "none"
  ELSE IF \/ w.op = "all" /\ SignaledIn(w, t) = DOMAIN w.objs
          \/ w.op # "all" /\ SignaledIn(w, t) # {} THEN "object"
  ELSE IF w.alertable /\ userApc[t] # <<>> THEN "user_apc"
  ELSE IF w.timeout = "past" THEN "timeout"
  ELSE "none"

\* The entries of the wait whose object is told that the wait is satisfied.
Taken(w, t, status) ==
  IF status # "object" THEN {}
  ELSE IF w.op = "all" THEN DOMAIN w.objs
  ELSE {i \in SignaledIn(w, t) : \A j \in SignaledIn(w, t) : i <= j}

\* How often an object is told.
Times(w, t, status, o) == Cardinality({i \in Taken(w, t, status) : w.objs[i] = o})

\* A version that never looks at the mark of an abandoned mutex.
ResultPlain(w, t, status) == status

\* make_wait_abandoned: one of the mutexes taken had been abandoned.
Result(w, t, status) ==
  IF \E i \in Taken(w, t, status) :
        w.objs[i] \in Mutex /\ abandoned[w.objs[i]]
    THEN "abandoned" ELSE status

\* A mutex that forgets to record its owner in the thread's list.
SatisfiedNoList(w, t, status) ==
  LET taken == {w.objs[i] : i \in Taken(w, t, status)} IN
  /\ signaled' = [e \in Event \cup Timer |-> signaled[e] /\ ~(e \in taken \ ManualReset)]
  /\ semCount' = [s \in Semaphore |-> (semCount[s] - Times(w, t, status, s)) % WrapAt]
  /\ owner' = [m \in Mutex |-> IF m \in taken THEN t ELSE owner[m]]
  /\ count' = [m \in Mutex |-> count[m] + Times(w, t, status, m)]
  /\ abandoned' = [m \in Mutex |-> abandoned[m] /\ m \notin taken]
  /\ UNCHANGED mutexList

\* obj->ops->satisfied on every entry taken: event_satisfied, timer_satisfied,
\* semaphore_satisfied, mutex_satisfied with do_grab.
Satisfied(w, t, status) ==
  LET taken == {w.objs[i] : i \in Taken(w, t, status)} IN
  /\ signaled' = [e \in Event \cup Timer |-> signaled[e] /\ ~(e \in taken \ ManualReset)]
  /\ semCount' = [s \in Semaphore |-> (semCount[s] - Times(w, t, status, s)) % WrapAt]
  /\ owner' = [m \in Mutex |-> IF m \in taken THEN t ELSE owner[m]]
  /\ count' = [m \in Mutex |-> count[m] + Times(w, t, status, m)]
  /\ abandoned' = [m \in Mutex |-> abandoned[m] /\ m \notin taken]
  /\ mutexList' = [mutexList EXCEPT ![t] = @ \cup (taken \cap Mutex)]

\* The thread whose keyed wait ends with this one: the first in the queue.
Partner(w, t, status) ==
  IF status = "object" /\ w.op \in Keyed
  THEN {queue[w.objs[1]][k][1] :
          k \in {i \in Partners(w, t) : \A j \in Partners(w, t) : i <= j}}
  ELSE {}

\* A version of end_wait that leaves the threads in the wait queues.
EndWaitNoDequeue(T) ==
  /\ waits' = [t \in Thread |-> IF t \in T THEN Tail(waits[t]) ELSE waits[t]]
  /\ UNCHANGED queue

\* end_wait: pop the top wait, leave every wait queue, forget the timeout.
EndWait(T) ==
  LET stays(e) == e[1] \in T => e[2] # Len(waits[e[1]]) IN
  /\ waits' = [t \in Thread |-> IF t \in T THEN Tail(waits[t]) ELSE waits[t]]
  /\ queue' = [o \in Object |-> Keep(queue[o], {k \in DOMAIN queue[o] : stays(queue[o][k])})]

\* The statuses of a wait that has ended, and of its partner's.
Answer(w, t, status) ==
  reply' = [u \in Thread |-> IF u = t THEN Result(w, t, status)
                              ELSE IF u \in Partner(w, t, status) THEN "object" ELSE reply[u]]

\* wait_on: push a wait and join the queue of each of its objects.
Occurrences(w, o) == {i \in DOMAIN w.objs : w.objs[i] = o}

WaitOn(t, w) ==
  LET entry == <<t, Len(waits[t]) + 1>> IN
  /\ waits' = [waits EXCEPT ![t] = <<w>> \o @]
  /\ queue' = [o \in Object |->
                 queue[o] \o [i \in 1 .. Cardinality(Occurrences(w, o)) |-> entry]]

-----------------------------------------------------------------------------
(* uk_wake_up and wake_thread.                                              *)

\* A uk_wake_up( obj, max ) about to look at the head of the queue.
WakeUp(o, max) == [obj |-> o, max |-> max, pos |-> 1, cur |-> None]

\* A wake_thread( thread ) on its own.
WakeThread(t) == [obj |-> None, max |-> 0, pos |-> 1, cur |-> t]

Wakeable(t) == waits[t] # <<>> /\ CheckWait(Head(waits[t]), t) # "none"

\* One turn of the loop of wake_thread: end the top wait and send the wakeup.
\* (The partner's keyed wait is the only one on its stack, so the wake_thread
\* on the partner has nothing left to check.)
Deliver(t) ==
  LET w == Head(waits[t])  status == CheckWait(w, t) IN
  /\ Satisfied(w, t, status)
  /\ EndWait({t} \cup Partner(w, t, status))
  /\ Answer(w, t, status)

\* uk_wake_up looks at the next entry: its thread can be woken.
ScanWake ==
  /\ scan.obj # None /\ scan.cur = None
  /\ scan.pos <= Len(queue[scan.obj])
  /\ \E t \in Thread :
       /\ queue[scan.obj][scan.pos][1] = t
       /\ Wakeable(t)
       /\ Deliver(t)
       /\ scan' = [scan EXCEPT !.cur = t]
  /\ UNCHANGED <<threadVars, cont, timer>>

\* A version that restarts at the head of the list after every entry.
ScanSkipRestart ==
  /\ scan.obj # None /\ scan.cur = None
  /\ scan.pos <= Len(queue[scan.obj])
  /\ ~Wakeable(queue[scan.obj][scan.pos][1])
  /\ scan' = [scan EXCEPT !.pos = 1]
  /\ UNCHANGED <<threadVars, waitVars, reply, objVars, mutexVars, cont, timer>>

\* uk_wake_up looks at the next entry: its thread cannot be woken.
ScanSkip ==
  /\ scan.obj # None /\ scan.cur = None
  /\ scan.pos <= Len(queue[scan.obj])
  /\ ~Wakeable(queue[scan.obj][scan.pos][1])
  /\ scan' = [scan EXCEPT !.pos = @ + 1]
  /\ UNCHANGED <<threadVars, waitVars, reply, objVars, mutexVars, cont, timer>>

\* wake_thread goes on with the waits below the one it has just ended.
ScanAgain ==
  /\ scan.cur # None
  /\ Wakeable(scan.cur)
  /\ Deliver(scan.cur)
  /\ UNCHANGED <<threadVars, scan, cont, timer>>

\* wake_thread returns > 0 to uk_wake_up: count it and restart at the head.
ScanNext ==
  /\ scan.cur # None
  /\ ~Wakeable(scan.cur)
  /\ scan' = IF scan.obj = None \/ scan.max = 1 THEN NoScan
             ELSE [scan EXCEPT !.cur = None, !.pos = 1,
                               !.max = IF @ = 0 THEN 0 ELSE @ - 1]
  /\ UNCHANGED <<threadVars, waitVars, reply, objVars, mutexVars, cont, timer>>

\* uk_wake_up has reached the end of the queue.
ScanEnd ==
  /\ scan.obj # None /\ scan.cur = None
  /\ scan.pos > Len(queue[scan.obj])
  /\ scan' = NoScan
  /\ UNCHANGED <<threadVars, waitVars, reply, objVars, mutexVars, cont, timer>>

-----------------------------------------------------------------------------
(* The requests.  A thread makes one when it is not blocked in the read of   *)
(* its wake-up.  kill_thread does not stop a thread that is already inside   *)
(* the ioctl: its request still runs, once.                                  *)

Request(t) ==
  /\ Idle
  /\ waits[t] = <<>>
  /\ state[t] = "RUNNING" \/ late[t]

NoThreadChange(t) ==
  /\ late' = [late EXCEPT ![t] = FALSE]
  /\ UNCHANGED <<state, suspend, sysApc, userApc, sigusr1>>

\* set_event
SetEvent(t, e) ==
  /\ Request(t)
  /\ signaled' = [signaled EXCEPT ![e] = TRUE]
  /\ scan' = WakeUp(e, IF e \in ManualReset THEN 0 ELSE 1)
  /\ NoThreadChange(t)
  /\ UNCHANGED <<waitVars, reply, semCount, mutexVars, cont, timer>>

\* pulse_event, up to the end of uk_wake_up
PulseEvent(t, e) ==
  /\ Request(t)
  /\ signaled' = [signaled EXCEPT ![e] = TRUE]
  /\ scan' = WakeUp(e, IF e \in ManualReset THEN 0 ELSE 1)
  /\ cont' = [op |-> "pulse", arg |-> e]
  /\ NoThreadChange(t)
  /\ UNCHANGED <<waitVars, reply, semCount, mutexVars, timer>>

\* pulse_event after uk_wake_up
PulseEnd ==
  /\ scan = NoScan /\ cont.op = "pulse"
  /\ signaled' = [signaled EXCEPT ![cont.arg] = FALSE]
  /\ cont' = NoCont
  /\ UNCHANGED <<threadVars, waitVars, reply, semCount, mutexVars, scan, timer>>

\* reset_event
ResetEvent(t, e) ==
  /\ Request(t)
  /\ signaled' = [signaled EXCEPT ![e] = FALSE]
  /\ NoThreadChange(t)
  /\ UNCHANGED <<waitVars, reply, semCount, mutexVars, jobVars, timer>>

\* release_semaphore of a version without the limit
ReleaseCountNoLimit(s, n) ==
  /\ semCount' = [semCount EXCEPT ![s] = (@ + n) % WrapAt]
  /\ scan' = IF semCount[s] # 0 THEN NoScan ELSE WakeUp(s, n)

\* release_semaphore of a version that wakes one thread for any count.
ReleaseCountOne(s, n) ==
  LET sum == (semCount[s] + n) % WrapAt IN
  /\ sum >= semCount[s] /\ sum <= SemMax[s]
  /\ semCount' = [semCount EXCEPT ![s] = sum]
  /\ scan' = IF semCount[s] # 0 THEN NoScan ELSE WakeUp(s, 1)

\* release_semaphore when the limit is not exceeded: no scan when the count
\* was not 0.
ReleaseCount(s, n) ==
  LET sum == (semCount[s] + n) % WrapAt IN
  /\ sum >= semCount[s] /\ sum <= SemMax[s]
  /\ semCount' = [semCount EXCEPT ![s] = sum]
  /\ scan' = IF semCount[s] # 0 THEN NoScan ELSE WakeUp(s, n)

\* the release_semaphore request (without effect beyond the limit)
ReleaseSemaphore(t, s, n) ==
  /\ Request(t)
  /\ ReleaseCount(s, n)
  /\ NoThreadChange(t)
  /\ UNCHANGED <<waitVars, reply, signaled, mutexVars, cont, timer>>

\* --mutex->count, then do_release when it reaches 0
DropMutex(t, m) ==
  /\ owner[m] = t /\ count[m] > 0
  /\ count' = [count EXCEPT ![m] = @ - 1]
  /\ IF count[m] = 1
       THEN /\ owner' = [owner EXCEPT ![m] = None]
            /\ mutexList' = [mutexList EXCEPT ![t] = @ \ {m}]
            /\ scan' = WakeUp(m, 0)
       ELSE /\ scan' = NoScan
            /\ UNCHANGED <<owner, mutexList>>
  /\ UNCHANGED abandoned

\* the release_mutex request (without effect unless the thread is the owner)
ReleaseMutex(t, m) ==
  /\ Request(t)
  /\ DropMutex(t, m)
  /\ NoThreadChange(t)
  /\ UNCHANGED <<waitVars, reply, objVars, cont, timer>>

\* thread_dequeue_apc in the select handler: system APCs first, user APCs only
\* for an alertable select.
DequeueApc(t, alertable, status) ==
  IF status \notin {"system_apc", "user_apc"} THEN UNCHANGED <<sysApc, userApc>>
  ELSE IF sysApc[t] > 0 THEN
    /\ sysApc' = [sysApc EXCEPT ![t] = @ - 1]
    /\ UNCHANGED userApc
  ELSE
    /\ userApc' = [userApc EXCEPT ![t] = IF alertable THEN Tail(@) ELSE @]
    /\ UNCHANGED sysApc

WaitOf(sel) ==
  [op |-> sel.op, key |-> sel.key, objs |-> sel.objs, alertable |-> sel.alertable,
   interruptible |-> sel.interruptible, timeout |-> sel.timeout, armed |-> FALSE]

\* A version that forgets to set the timeout.
ArmedNot(w) == w

\* add_timeout_user, unless the wait is for ever
Armed(w) == [w EXCEPT !.armed = (w.timeout # "infinite")]

\* the bound MaxRecursion
MayRecurse(w) == \A i \in DOMAIN w.objs :
                    w.objs[i] \in Mutex => count[w.objs[i]] < MaxRecursion

\* select_on without an object to signal: satisfied at once, or pending.
SelectOn(t, w) ==
  LET status == CheckWait(w, t) IN
  /\ DequeueApc(t, w.alertable, status)
  /\ IF status # "none"
       THEN /\ Satisfied(w, t, status)
            /\ EndWait(Partner(w, t, status))
            /\ Answer(w, t, status)
       ELSE /\ WaitOn(t, Armed(w))
            /\ UNCHANGED <<reply, objVars, mutexVars>>

\* the select request with SELECT_NONE, SELECT_WAIT or SELECT_WAIT_ALL
Select(t, sel) ==
  /\ Request(t)
  /\ sel.signal = None
  /\ MayRecurse(WaitOf(sel))
  /\ SelectOn(t, WaitOf(sel))
  /\ late' = [late EXCEPT ![t] = FALSE]
  /\ UNCHANGED <<state, suspend, sigusr1, jobVars, timer>>

\* the signal operations: event_signal, semaphore_signal, mutex_signal
SignalObject(t, o) ==
  \/ /\ o \in Event
     /\ signaled' = [signaled EXCEPT ![o] = TRUE]
     /\ scan' = WakeUp(o, IF o \in ManualReset THEN 0 ELSE 1)
     /\ UNCHANGED <<semCount, mutexVars>>
  \/ /\ o \in Semaphore
     /\ ReleaseCount(o, 1)
     /\ UNCHANGED <<signaled, mutexVars>>
  \/ /\ o \in Mutex
     /\ DropMutex(t, o)
     /\ UNCHANGED objVars

\* SELECT_SIGNAL_AND_WAIT up to signal_object: the wait is in the queues
\* before the object is signaled.  (A signal that fails undoes the wait.)
SignalAndWait(t, sel) ==
  /\ Request(t)
  /\ sel.signal # None
  /\ MayRecurse(WaitOf(sel))
  /\ WaitOn(t, WaitOf(sel))
  /\ SignalObject(t, sel.signal)
  /\ cont' = [op |-> "select", arg |-> t]
  /\ NoThreadChange(t)
  /\ UNCHANGED <<reply, timer>>

\* SELECT_SIGNAL_AND_WAIT after signal_object
SelectRest ==
  LET t == cont.arg  w == Head(waits[t])  status == CheckWait(w, t) IN
  /\ scan = NoScan /\ cont.op = "select"
  /\ cont' = NoCont
  /\ \/ /\ waits[t] = <<>>                     \* we woke ourselves up
        /\ UNCHANGED <<sysApc, userApc, waitVars, reply, objVars, mutexVars>>
     \/ /\ waits[t] # <<>> /\ status # "none"  \* already satisfied
        /\ Deliver(t)
        /\ DequeueApc(t, w.alertable, status)
     \/ /\ waits[t] # <<>> /\ status = "none"  \* now we need to wait
        /\ waits' = [waits EXCEPT ![t] = <<Armed(w)>> \o Tail(@)]
        /\ UNCHANGED <<sysApc, userApc, queue, reply, objVars, mutexVars>>
  /\ UNCHANGED <<state, suspend, sigusr1, late, scan, timer>>

-----------------------------------------------------------------------------
(* Suspension, APCs, timeouts and termination.                              *)

\* wait_suspend in the handler of SIGUSR1: a select on nothing with a timeout
\* of 0, on top of the wait the signal interrupted.
HandlerWait ==
  [op |-> "any", key |-> None, objs |-> <<>>, alertable |-> FALSE, interruptible |-> TRUE,
   timeout |-> "past", armed |-> FALSE]

SignalHandler(t) ==
  /\ Idle
  /\ state[t] = "RUNNING"
  /\ sigusr1[t] \/ sysApc[t] > 0
  /\ Len(waits[t]) < 2
  /\ waits[t] # <<>> => Head(waits[t]).objs # <<>>  \* SIGUSR1 is not nested
  /\ SelectOn(t, HandlerWait)
  /\ sigusr1' = [sigusr1 EXCEPT ![t] = FALSE]
  /\ UNCHANGED <<state, suspend, late, jobVars, timer>>

\* suspend_thread
SuspendThread(t, u) ==
  /\ Request(t)
  /\ state[u] = "RUNNING"
  /\ suspend[u] < MaxSuspend
  /\ suspend' = [suspend EXCEPT ![u] = @ + 1]
  /\ sigusr1' = [sigusr1 EXCEPT ![u] = @ \/ suspend[u] = 0]
  /\ late' = [late EXCEPT ![t] = FALSE]
  /\ UNCHANGED <<state, sysApc, userApc, waitVars, reply, objVars, mutexVars, jobVars, timer>>

\* resume_thread that does not look whether the thread can go on.
ResumeNoWake(t, u) ==
  /\ Request(t)
  /\ suspend[u] > 0
  /\ suspend' = [suspend EXCEPT ![u] = @ - 1]
  /\ late' = [late EXCEPT ![t] = FALSE]
  /\ UNCHANGED <<state, sysApc, userApc, sigusr1, waitVars, reply, objVars, mutexVars, jobVars, timer>>

\* resume_thread
ResumeThread(t, u) ==
  /\ Request(t)
  /\ suspend[u] > 0
  /\ suspend' = [suspend EXCEPT ![u] = @ - 1]
  /\ scan' = IF suspend[u] = 1 THEN WakeThread(u) ELSE NoScan
  /\ late' = [late EXCEPT ![t] = FALSE]
  /\ UNCHANGED <<state, sysApc, userApc, sigusr1, waitVars, reply, objVars, mutexVars, cont, timer>>

\* queue_apc with APC_USER
QueueUserApc(t, u) ==
  /\ Request(t)
  /\ state[u] = "RUNNING"
  /\ Len(userApc[u]) < MaxApc
  /\ userApc' = [userApc EXCEPT ![u] = Append(@, None)]
  /\ scan' = IF userApc[u] = <<>> THEN WakeThread(u) ELSE NoScan
  /\ late' = [late EXCEPT ![t] = FALSE]
  /\ UNCHANGED <<state, suspend, sysApc, sigusr1, waitVars, reply, objVars, mutexVars, cont, timer>>

\* is_in_apc_wait
InApcWait(u) ==
  suspend[u] > 0 \/ (waits[u] # <<>> /\ Head(waits[u]).interruptible)

\* queue_apc with a system APC: a thread that does not wait for it gets SIGUSR1
QueueSystemApc(t, u) ==
  /\ Request(t)
  /\ state[u] = "RUNNING"
  /\ sysApc[u] < MaxApc
  /\ sysApc' = [sysApc EXCEPT ![u] = @ + 1]
  /\ sigusr1' = [sigusr1 EXCEPT ![u] = @ \/ (sysApc[u] = 0 /\ ~InApcWait(u))]
  /\ scan' = IF sysApc[u] = 0 THEN WakeThread(u) ELSE NoScan
  /\ late' = [late EXCEPT ![t] = FALSE]
  /\ UNCHANGED <<state, suspend, userApc, waitVars, reply, objVars, mutexVars, cont, timer>>

\* the clock passes the timeout of a wait
Expire(t, i) ==
  /\ i \in DOMAIN waits[t]
  /\ waits[t][i].timeout = "future"
  /\ waits' = [waits EXCEPT ![t][i].timeout = "past"]
  /\ UNCHANGED <<threadVars, queue, reply, objVars, mutexVars, jobVars, timer>>

\* thread_timeout, called by the timer thread under uk_lock
ThreadTimeout(t, i) ==
  /\ Idle
  /\ i \in DOMAIN waits[t]
  /\ waits[t][i].armed /\ waits[t][i].timeout = "past"
  /\ IF i = 1 /\ suspend[t] = 0
       THEN /\ EndWait({t})
            /\ reply' = [reply EXCEPT ![t] = "timeout"]
            /\ scan' = WakeThread(t)
       ELSE /\ waits' = [waits EXCEPT ![t][i].armed = FALSE]
            /\ UNCHANGED <<queue, reply, scan>>
  /\ UNCHANGED <<threadVars, objVars, mutexVars, cont, timer>>

\* kill_thread up to abandon_mutexes: the thread leaves every wait.  Inside is
\* whether it was in the ioctl, before uk_lock, at that moment.
Kill(t, inside) ==
  LET stays(e) == e[1] # t IN
  /\ state[t] = "RUNNING"
  /\ inside => waits[t] = <<>>
  /\ state' = [state EXCEPT ![t] = "TERMINATED"]
  /\ waits' = [waits EXCEPT ![t] = <<>>]
  /\ queue' = [o \in Object |-> Keep(queue[o], {k \in DOMAIN queue[o] : stays(queue[o][k])})]
  /\ reply' = [reply EXCEPT ![t] = IF waits[t] # <<>> THEN "killed" ELSE @]
  /\ cont' = [op |-> "kill", arg |-> t]

\* terminate_thread
TerminateThread(t, u, inside) ==
  /\ t # u
  /\ Request(t)
  /\ Kill(u, inside)
  /\ late' = [late EXCEPT ![t] = FALSE, ![u] = inside]
  /\ UNCHANGED <<suspend, sysApc, userApc, sigusr1, objVars, mutexVars, scan, timer>>

\* NtKillThread: the task of the thread exits
ExitThread(t) ==
  /\ Idle
  /\ waits[t] = <<>>
  /\ Kill(t, FALSE)
  /\ UNCHANGED <<suspend, sysApc, userApc, sigusr1, late, objVars, mutexVars, scan, timer>>

\* one turn of the loop of abandon_mutexes, with do_release
KillAbandon(m) ==
  /\ scan = NoScan /\ cont.op = "kill"
  /\ m \in mutexList[cont.arg]
  /\ count' = [count EXCEPT ![m] = 0]
  /\ abandoned' = [abandoned EXCEPT ![m] = TRUE]
  /\ owner' = [owner EXCEPT ![m] = None]
  /\ mutexList' = [mutexList EXCEPT ![cont.arg] = @ \ {m}]
  /\ scan' = WakeUp(m, 0)
  /\ UNCHANGED <<threadVars, waitVars, reply, objVars, cont, timer>>

\* A version that does not abandon the mutexes.
KillSignalEarly ==
  /\ scan = NoScan /\ cont.op = "kill"
  /\ scan' = WakeUp(cont.arg, 0)
  /\ cont' = [cont EXCEPT !.op = "exit"]
  /\ UNCHANGED <<threadVars, waitVars, reply, objVars, mutexVars, timer>>

\* uk_wake_up( &thread->obj, 0 ) in kill_thread
KillSignal ==
  /\ scan = NoScan /\ cont.op = "kill"
  /\ mutexList[cont.arg] = {}
  /\ scan' = WakeUp(cont.arg, 0)
  /\ cont' = [cont EXCEPT !.op = "exit"]
  /\ UNCHANGED <<threadVars, waitVars, reply, objVars, mutexVars, timer>>

\* cleanup_thread: clear_apc_queue on both queues
KillCleanup ==
  /\ scan = NoScan /\ cont.op = "exit"
  /\ sysApc' = [sysApc EXCEPT ![cont.arg] = 0]
  /\ userApc' = [userApc EXCEPT ![cont.arg] = <<>>]
  /\ cont' = NoCont
  /\ UNCHANGED <<state, suspend, sigusr1, late, waitVars, reply, objVars, mutexVars, scan, timer>>

-----------------------------------------------------------------------------
(* Waitable timers.                                                         *)

\* thread_cancel_apc: the first APC that the timer owns leaves the queue.
CancelApc(q, x) ==
  LET k == CHOOSE i \in DOMAIN q : q[i] = x /\ \A j \in DOMAIN q : q[j] = x => i <= j IN
  IF \A i \in DOMAIN q : q[i] # x THEN q
  ELSE [i \in 1 .. Len(q) - 1 |-> q[IF i < k THEN i ELSE i + 1]]

\* A version of cancel_timer that leaves the APC in the queue.
CancelledNot(x) == userApc

\* cancel_timer takes its APC away from the thread that set the timer.
Cancelled(x) ==
  IF timer[x].thread = None THEN userApc
  ELSE [userApc EXCEPT ![timer[x].thread] = CancelApc(@, x)]

\* set_timer
SetTimer(t, x, set) ==
  /\ Request(t)
  /\ userApc' = Cancelled(x)
  /\ signaled' = [signaled EXCEPT ![x] = @ /\ x \notin ManualReset]
  /\ timer' = [timer EXCEPT ![x] =
                 [armed |-> TRUE, period |-> set.period /\ x \notin ManualReset,
                  thread |-> IF set.callback THEN t ELSE None]]
  /\ late' = [late EXCEPT ![t] = FALSE]
  /\ UNCHANGED <<state, suspend, sysApc, sigusr1, waitVars, reply, semCount, mutexVars, jobVars>>

\* cancel_timer
CancelTimer(t, x) ==
  /\ Request(t)
  /\ userApc' = Cancelled(x)
  /\ timer' = [timer EXCEPT ![x].armed = FALSE, ![x].thread = None]
  /\ late' = [late EXCEPT ![t] = FALSE]
  /\ UNCHANGED <<state, suspend, sysApc, sigusr1, waitVars, reply, objVars, mutexVars, jobVars>>

\* timer_callback, called by the timer thread under uk_lock, up to the end of
\* thread_queue_apc: the APC replaces one that is still queued; a thread that
\* has ended is forgotten.
TimerCallback(x) ==
  LET t == timer[x].thread IN
  /\ Idle
  /\ timer[x].armed
  /\ IF t # None /\ state[t] = "RUNNING"
       THEN /\ userApc' = [userApc EXCEPT ![t] = Append(CancelApc(@, x), x)]
            /\ scan' = IF CancelApc(userApc[t], x) = <<>> THEN WakeThread(t) ELSE NoScan
            /\ UNCHANGED timer
       ELSE /\ timer' = [timer EXCEPT ![x].thread = None]
            /\ UNCHANGED <<userApc, scan>>
  /\ cont' = [op |-> "timer", arg |-> x]
  /\ UNCHANGED <<state, suspend, sysApc, sigusr1, late, waitVars, reply, objVars, mutexVars>>

\* timer_callback after it has queued the APC: schedule the next expiration
\* and wake up the waiters.
TimerSignal ==
  LET x == cont.arg IN
  /\ scan = NoScan /\ cont.op = "timer"
  /\ timer' = [timer EXCEPT ![x].armed = timer[x].period]
  /\ signaled' = [signaled EXCEPT ![x] = TRUE]
  /\ scan' = WakeUp(x, 0)
  /\ cont' = NoCont
  /\ UNCHANGED <<threadVars, waitVars, reply, semCount, mutexVars>>

-----------------------------------------------------------------------------
\* The steps of the request in progress.
Step ==
  \/ ScanWake \/ ScanSkip \/ ScanAgain \/ ScanNext \/ ScanEnd
  \/ PulseEnd \/ SelectRest \/ TimerSignal
  \/ \E m \in Mutex : KillAbandon(m)
  \/ KillSignal \/ KillCleanup

\* A new request of thread t.
NewRequest(t) ==
  \/ \E e \in Event : SetEvent(t, e) \/ PulseEvent(t, e) \/ ResetEvent(t, e)
  \/ \E s \in Semaphore, n \in Counts : ReleaseSemaphore(t, s, n)
  \/ \E m \in Mutex : ReleaseMutex(t, m)
  \/ \E x \in Timer : CancelTimer(t, x) \/ \E set \in TimerSets : SetTimer(t, x, set)
  \/ \E sel \in Selects : Select(t, sel) \/ SignalAndWait(t, sel)
  \/ \E u \in Thread : \/ SuspendThread(t, u) \/ ResumeThread(t, u)
                       \/ QueueUserApc(t, u) \/ QueueSystemApc(t, u)
                       \/ \E inside \in {FALSE, Smp} : TerminateThread(t, u, inside)
  \/ ExitThread(t)

\* What the kernel does to a thread: its signal handler runs, time passes.
Timers(t) == \E i \in 1 .. 2 : ThreadTimeout(t, i)

Next ==
  \/ Step
  \/ \E t \in Thread : \/ NewRequest(t) \/ SignalHandler(t) \/ Timers(t)
                       \/ \E i \in 1 .. 2 : Expire(t, i)
  \/ \E x \in Timer : TimerCallback(x)

Spec == Init /\ [][Next]_vars

\* A request runs to its end; the timer thread gets to run between requests
\* (it queues on uk_sem with the requests) and the clock advances; a pending
\* signal is handled.
FairSpec ==
  /\ Spec
  /\ WF_vars(Step)
  /\ \A t \in Thread : SF_vars(Timers(t)) /\ WF_vars(\E i \in 1 .. 2 : Expire(t, i))
                       /\ SF_vars(SignalHandler(t))
  /\ \A x \in Timer : SF_vars(TimerCallback(x))

-----------------------------------------------------------------------------
(* Properties.                                                              *)

\* Between requests nobody is left waiting for something it can have: no
\* thread sleeps on a top wait that check_wait would end for an object or an
\* APC (the wake-ups of uk_wake_up, resume_thread and queue_apc suffice).  It
\* needs that no SELECT_WAIT_ALL on a semaphore or an auto-reset event has a
\* timeout: uk_wake_up counts one that it finds timed out, and not satisfied,
\* among those it may wake, and what it was called for stays, with another thread
\* behind it in the queue.
NoLostWakeup ==
  Idle => \A t \in Thread : waits[t] # <<>> =>
            CheckWait(Head(waits[t]), t) \in {"none", "timeout"}

\* The fields of a mutex and the lists of the threads agree: do_grab,
\* do_release and abandon_mutexes keep count, owner and mutex_list in step,
\* and an abandoned mutex is free.
MutexConsistent ==
  \A m \in Mutex :
    /\ count[m] > 0 <=> owner[m] # None
    /\ \A t \in Thread : m \in mutexList[t] <=> owner[m] = t
    /\ abandoned[m] => count[m] = 0

\* The entries of obj->wait_queue are exactly the entries of the pending waits
\* on the object, so remove_queue in end_wait always finds its entry and
\* uk_wake_up never follows an entry of a freed wait.
QueueConsistent ==
  \A o \in Object :
    /\ queue[o] \in Seq(Thread \X Nat)
    /\ \A k \in DOMAIN queue[o] :
         LET t == queue[o][k][1]  l == queue[o][k][2] IN
         /\ l \in 1 .. Len(waits[t])
         /\ Occurrences(waits[t][Len(waits[t]) + 1 - l], o) # {}
    /\ \A t \in Thread : \A l \in DOMAIN waits[t] :
         Cardinality(Occurrences(waits[t][l], o)) =
         Cardinality({k \in DOMAIN queue[o] : queue[o][k] = <<t, Len(waits[t]) + 1 - l>>})

\* An abandoned mutex is reported: the mark is only taken off by a wait that
\* gives the mutex to a thread and tells that thread STATUS_ABANDONED.
AbandonedReported ==
  [][\A m \in Mutex : abandoned[m] /\ ~abandoned'[m] =>
       \E t \in Thread : owner'[m] = t /\ reply'[t] = "abandoned"]_vars

\* The APC of a timer is in the queue of the thread that set the timer last,
\* and once at most, so cancel_timer and the next expiration find it: a timer
\* that was cancelled, or that another thread has set, calls nobody back.
TimerApcOwned ==
  \A t \in Thread : \A i, j \in DOMAIN userApc[t] :
    userApc[t][i] # None =>
      /\ timer[userApc[t][i]].thread = t
      /\ userApc[t][i] = userApc[t][j] => i = j

\* A thread that is suspended acquires nothing (the comment in check_wait).
SuspendedAcquiresNothing ==
  [][\A t \in Thread : suspend[t] > 0 /\ suspend'[t] > 0 =>
       /\ mutexList'[t] \subseteq mutexList[t]
       /\ Len(waits'[t]) < Len(waits[t]) => reply'[t] \in {"system_apc", "killed"}]_vars

\* thread.c, kill_thread: "kill a thread on the spot".  Once kill_thread is
\* done the thread is in no wait, owns no mutex and has no APC to run.
DeadThreadGone ==
  \A t \in Thread : state[t] = "TERMINATED" /\ cont.arg # t =>
     waits[t] = <<>> /\ mutexList[t] = {} /\ sysApc[t] = 0 /\ userApc[t] = <<>>

\* Every request ends: uk_wake_up, which restarts at the head of the queue
\* after each wake-up, cannot run for ever.
RequestsEnd == ~Idle ~> Idle

\* A wait with a timeout ends, unless the thread stays suspended: thread_timeout
\* forgets the timeout of a suspended thread or of a wait below the top one,
\* and it is resume_thread or the end of the upper wait that makes up for it.
TimedWaitEnds ==
  \A t \in Thread :
    []<>(suspend[t] = 0) =>
      ((waits[t] # <<>> /\ waits[t][Len(waits[t])].timeout # "infinite")
         ~> waits[t] = <<>>)

\* The count of a semaphore stays within its limit: release_semaphore refuses
\* to exceed it, and assert( sem->count ) in semaphore_satisfied holds for
\* every entry of a wait (the count, unsigned, never wraps below 0).
SemaphoreInBounds == \A s \in Semaphore : semCount[s] <= SemMax[s]

=============================================================================

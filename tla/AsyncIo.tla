------------------------------- MODULE AsyncIo ------------------------------
(***************************************************************************)
(* Asynchronous reads and writes of one file descriptor: the struct async   *)
(* of each operation, the system APCs that carry it to its thread and back, *)
(* the poll entry that wakes it, its timeout, its cancellation, the close   *)
(* of the descriptor, and the completion packet it ends with.               *)
(*                                                                         *)
(* async_terminate, default_poll_event, set_fd_events and async_destroy     *)
(* call each other recursively.  A context keeps the calls it still has to  *)
(* make in a list: a step takes the first one and puts the calls that one   *)
(* makes in its place.  The contexts are "req", a request or a timer        *)
(* callback under uk_lock, and "cb", uk_pollwake called from the wait queue *)
(* of the file, which takes no lock.                                        *)
(***************************************************************************)
EXTENDS Integers, Sequences, Lists

CONSTANTS Thread,
          MaxAsync,   \* asyncs are numbered in the order they are created
          None,
          Timed,      \* whether an operation may have a timeout, may have none
          Smp         \* FALSE: a context runs to its end before another starts

Async == 1 .. MaxAsync
Queue == {"read", "write"}     \* fd->read_q, fd->write_q, and POLLIN, POLLOUT
Ctx == {"req", "cb"}
Event == Queue \cup {"hup"}
Ended == {"cancelled", "timeout", "closed"}
Status == Ended \cup {"alerted", "success"}          \* other than STATUS_PENDING
RunningApc == [a : Async, s : Status, result : Status \cup {"pending", None}]

ASSUME AsyncIoAssumption ==
  /\ MaxAsync \in Nat /\ Timed \subseteq BOOLEAN /\ Smp \in BOOLEAN
  /\ Thread \cap Async = {}
  /\ None \notin Thread /\ None \notin Async /\ None \notin Status /\ None \notin RunningApc

VARIABLES
  asy,       \* the struct async of each operation
  queue,     \* queue->queue
  qfd,       \* queue->fd # NULL
  qport,     \* queue->completion # NULL
  fd,        \* the struct uk_fd, with its poll entry
  ready,     \* what the poll operation of the file reports
  hup,       \* the other end is gone
  sysApc,    \* thread->system_apc: the APCs of asyncs
  running,   \* the APC a thread executes in user mode
  dead,      \* terminated threads
  packets,   \* completion packets posted for each async
  work       \* the calls each context has left to make

apcVars == <<sysApc, running>>
qVars == <<queue, qfd, qport>>
fileVars == <<ready, hup>>
vars == <<asy, qVars, fd, fileVars, apcVars, dead, packets, work>>

NoAsync == [life |-> "unused", type |-> "read", thread |-> None, status |-> "pending",
            apc |-> FALSE, timeout |-> FALSE, ref |-> 0, owed |-> FALSE, result |-> None]

Init ==
  /\ asy = [a \in Async |-> NoAsync]
  /\ queue = [q \in Queue |-> <<>>]
  /\ qfd = [q \in Queue |-> TRUE]
  /\ qport = [q \in Queue |-> FALSE]
  /\ fd = [open |-> TRUE, state |-> "uninit", events |-> {}, key |-> {},
           pending |-> {}, port |-> FALSE]
  /\ ready = {} /\ hup = FALSE
  /\ sysApc = [t \in Thread |-> <<>>]
  /\ running = [t \in Thread |-> None]
  /\ dead = {}
  /\ packets = [a \in Async |-> <<>>]
  /\ work = [c \in Ctx |-> <<>>]

-----------------------------------------------------------------------------
(* Calls.                                                                  *)

Call(op, a, s) == [op |-> op, a |-> a, s |-> s, q |-> "read", ev |-> {}]
QueueCall(op, q, s) == [op |-> op, a |-> None, s |-> s, q |-> q, ev |-> {}]
FdCall(op, ev) == [op |-> op, a |-> None, s |-> "pending", q |-> "read", ev |-> ev]

Idle == \A c \in Ctx : work[c] = <<>>

\* A context that has nothing to do may start on a new request or callback.
Starts(c, calls) ==
  /\ work[c] = <<>>
  /\ Smp \/ Idle
  /\ work' = [work EXCEPT ![c] = calls]

Now(c, op) == work[c] # <<>> /\ Head(work[c]).op = op
Arg(c) == Head(work[c])
Then(c, calls) == work' = [work EXCEPT ![c] = calls \o Tail(@)]

Each(seq, op, s) == [i \in DOMAIN seq |-> Call(op, seq[i], s)]

-----------------------------------------------------------------------------
(* The poll entry of the descriptor.                                       *)

\* default_fd_get_poll_events: async_waiting looks at the head of each queue.
PollEvents ==
  {q \in Queue : queue[q] # <<>> /\ asy[Head(queue[q])].status = "pending"}

\* The mask the poll operation of the file returns.
FilePoll == ready \cup (IF hup THEN {"hup"} ELSE {})

\* Mutant: arms the entry without polling the file.
SetFdEventsBlind(c) ==
  /\ Now(c, "set_fd_events")
  /\ LET ev == Arg(c).ev
         arms == fd.state # "removed" /\ (fd.state = "uninit" \/ fd.events # ev)
     IN  fd' = IF ev = {"hup"}
               THEN [fd EXCEPT !.state = "removed", !.events = {"err"}, !.key = {}]
               ELSE IF arms
               THEN [fd EXCEPT !.state = "added", !.events = ev, !.key = ev \cup {"hup"}]
               ELSE fd
  /\ Then(c, <<>>)
  /\ UNCHANGED <<asy, qVars, fileVars, apcVars, dead, packets>>

\* set_fd_events; "hup" alone stands for the argument -1.  uk_add_fd_events
\* and uk_modify_fd_events arm the entry and poll the file once.
SetFdEvents(c) ==
  /\ Now(c, "set_fd_events")
  /\ LET ev == Arg(c).ev
         mask == FilePoll \cap (ev \cup {"hup"})
         arms == fd.state # "removed" /\ (fd.state = "uninit" \/ fd.events # ev)
     IN  IF ev = {"hup"}
         THEN /\ fd' = [fd EXCEPT !.state = "removed", !.events = {"err"}, !.key = {}]
              /\ Then(c, <<>>)
         ELSE /\ fd' = IF arms
                       THEN [fd EXCEPT !.state = "added", !.events = ev,
                                       !.key = ev \cup {"hup"}]
                       ELSE fd
              /\ Then(c, IF arms /\ mask \cap ev # {}
                         THEN <<FdCall("fd_poll_event", mask)>> ELSE <<>>)
  /\ UNCHANGED <<asy, qVars, fileVars, apcVars, dead, packets>>

\* uk_pollwake: poll the file for what the entry is armed with.
PollWake(c) ==
  /\ Now(c, "pollwake")
  /\ LET mask == FilePoll \cap Arg(c).ev IN
     Then(c, IF mask # {} THEN <<FdCall("fd_poll_event", mask)>> ELSE <<>>)
  /\ UNCHANGED <<asy, qVars, fd, fileVars, apcVars, dead, packets>>

\* fd_poll_event: a hang-up that is being handled is not handled again.
FdPollEvent(c) ==
  /\ Now(c, "fd_poll_event")
  /\ LET ev == Arg(c).ev IN
     IF fd.pending = ev /\ "hup" \in ev
     THEN Then(c, <<>>) /\ UNCHANGED fd
     ELSE /\ fd' = [fd EXCEPT !.pending = ev]
          /\ Then(c, <<FdCall("poll_event", ev), FdCall("polled", {})>>)
  /\ UNCHANGED <<asy, qVars, fileVars, apcVars, dead, packets>>

FdPollEventEnd(c) ==
  /\ Now(c, "polled")
  /\ fd' = [fd EXCEPT !.pending = {}]
  /\ Then(c, <<>>)
  /\ UNCHANGED <<asy, qVars, fileVars, apcVars, dead, packets>>

\* default_poll_event
PollEvent(c) ==
  /\ Now(c, "poll_event")
  /\ LET ev == Arg(c).ev
         wake(q) == IF ev \cap {q, "hup"} # {}
                    THEN <<QueueCall("async_wake_up", q, "alerted")>> ELSE <<>>
     IN  Then(c, wake("read") \o wake("write") \o
                 IF "hup" \in ev THEN <<FdCall("set_fd_events", {"hup"})>>
                                 ELSE <<FdCall("rearm", {})>>)
  /\ UNCHANGED <<asy, qVars, fd, fileVars, apcVars, dead, packets>>

\* set_fd_events( fd, fd->fd_ops->get_poll_events( fd ) ): the events are
\* computed first.
Rearm(c) ==
  /\ Now(c, "rearm")
  /\ Then(c, <<FdCall("set_fd_events", PollEvents)>>)
  /\ UNCHANGED <<asy, qVars, fd, fileVars, apcVars, dead, packets>>

\* async_reselect and default_fd_reselect_async: poll the file before arming.
Reselect(c) ==
  /\ Now(c, "async_reselect")
  /\ LET ev == FilePoll \cap PollEvents IN
     Then(c, IF ~qfd[asy[Arg(c).a].type] THEN <<>>
             ELSE IF ev # {} THEN <<FdCall("poll_event", ev)>>
             ELSE <<FdCall("set_fd_events", PollEvents)>>)
  /\ UNCHANGED <<asy, qVars, fd, fileVars, apcVars, dead, packets>>

-----------------------------------------------------------------------------
(* struct async.                                                           *)

\* Mutant: lets the operation go before it selects again.
TerminateReleasesFirst(c) ==
  /\ Now(c, "async_terminate")
  /\ LET a == Arg(c).a IN
     /\ asy' = [asy EXCEPT ![a].status = Arg(c).s]
     /\ Then(c, IF asy[a].status # "pending" THEN <<>>
                ELSE <<Call("async_queue_apc", a, Arg(c).s), Call("clear_apc", a, "pending"),
                       Call("release", a, "pending"), Call("async_reselect", a, "pending")>>)
  /\ UNCHANGED <<qVars, fd, fileVars, apcVars, dead, packets>>

\* async_terminate: an operation that is already being ended only changes
\* its status.
Terminate(c) ==
  /\ Now(c, "async_terminate")
  /\ LET a == Arg(c).a IN
     /\ asy' = [asy EXCEPT ![a].status = Arg(c).s]
     /\ Then(c, IF asy[a].status # "pending" THEN <<>>
                ELSE <<Call("async_queue_apc", a, Arg(c).s), Call("clear_apc", a, "pending"),
                       Call("async_reselect", a, "pending"), Call("release", a, "pending")>>)
  /\ UNCHANGED <<qVars, fd, fileVars, apcVars, dead, packets>>

\* async_queue_apc and queue_apc: the APC takes a reference on its owner and
\* replaces an APC of the same owner; a terminated thread gets none, and an
\* async without an APC queues nothing.
QueueApc(c) ==
  /\ Now(c, "async_queue_apc")
  /\ LET a == Arg(c).a
         t == asy[a].thread
         others == Keep(sysApc[t], {i \in DOMAIN sysApc[t] : sysApc[t][i].a # a})
     IN  IF asy[a].apc /\ t \notin dead
         THEN /\ sysApc' = [sysApc EXCEPT ![t] = Append(others, [a |-> a, s |-> Arg(c).s])]
              /\ asy' = [asy EXCEPT ![a].ref = @ + 1 - (Len(sysApc[t]) - Len(others))]
         ELSE UNCHANGED <<sysApc, asy>>
  /\ Then(c, <<>>)
  /\ UNCHANGED <<qVars, fd, fileVars, running, dead, packets>>

\* async->apc = NULL at the end of async_terminate.
ClearApc(c) ==
  /\ Now(c, "clear_apc")
  /\ asy' = [asy EXCEPT ![Arg(c).a].apc = FALSE]
  /\ Then(c, <<>>)
  /\ UNCHANGED <<qVars, fd, fileVars, apcVars, dead, packets>>

\* release_object; the last reference runs async_destroy, which leaves the
\* queue first and lets its timeout go last.
Release(c) ==
  /\ Now(c, "release")
  /\ LET a == Arg(c).a
         last == asy[a].ref = 1
         others(q) == Keep(queue[q], {i \in DOMAIN queue[q] : queue[q][i] # a})
     IN  /\ asy' = [asy EXCEPT ![a].ref = @ - 1]
         /\ queue' = IF last THEN [q \in Queue |-> others(q)] ELSE queue
         /\ Then(c, IF last THEN <<Call("async_reselect", a, "pending"),
                                   Call("free", a, "pending")>>
                            ELSE <<>>)
  /\ UNCHANGED <<qfd, qport, fd, fileVars, apcVars, dead, packets>>

Free(c) ==
  /\ Now(c, "free")
  /\ asy' = [asy EXCEPT ![Arg(c).a].life = "freed", ![Arg(c).a].timeout = FALSE]
  /\ Then(c, <<>>)
  /\ UNCHANGED <<qVars, fd, fileVars, apcVars, dead, packets>>

\* async_wake_up: STATUS_ALERTED wakes the first operation, any other status
\* ends them all.
WakeUp(c) ==
  /\ Now(c, "async_wake_up")
  /\ LET all == queue[Arg(c).q]
         woken == IF Arg(c).s = "alerted" /\ all # <<>> THEN <<Head(all)>> ELSE all
     IN  Then(c, Each(woken, "async_terminate", Arg(c).s))
  /\ UNCHANGED <<asy, qVars, fd, fileVars, apcVars, dead, packets>>

\* async_wake_up_by: the operations of one thread, one operation (by the
\* address of its status block), or all those of the process.
WakeUpBy(c) ==
  /\ Now(c, "async_wake_up_by")
  /\ LET all == queue[Arg(c).q]
         mine == Keep(all, {i \in DOMAIN all : Arg(c).a \in {None, all[i], asy[all[i]].thread}})
     IN  Then(c, Each(mine, "async_terminate", "cancelled"))
  /\ UNCHANGED <<asy, qVars, fd, fileVars, apcVars, dead, packets>>

\* free_async_queue: the queue keeps the port for what is still to complete.
FreeQueue(c) ==
  /\ Now(c, "free_async_queue")
  /\ LET q == Arg(c).q IN
     /\ qport' = [qport EXCEPT ![q] = fd.port]
     /\ qfd' = [qfd EXCEPT ![q] = FALSE]
     /\ Then(c, <<QueueCall("async_wake_up", q, "closed")>>)
  /\ UNCHANGED <<asy, queue, fd, fileVars, apcVars, dead, packets>>

\* The end of fd_destroy: the completion port and the poll entry go.
FdDestroyEnd(c) ==
  /\ Now(c, "fd_destroyed")
  /\ fd' = [fd EXCEPT !.port = FALSE, !.key = {}]
  /\ Then(c, <<>>)
  /\ UNCHANGED <<asy, qVars, fileVars, apcVars, dead, packets>>

\* Mutant: only knows the port of the descriptor.
SetResultFdPort(c) ==
  /\ Now(c, "async_set_result")
  /\ LET a == Arg(c).a IN
     IF Arg(c).s = "pending"
     THEN /\ asy' = [asy EXCEPT ![a].status = "pending"]
          /\ Then(c, <<Call("restart", a, asy[a].status)>>)
          /\ UNCHANGED packets
     ELSE /\ asy' = [asy EXCEPT ![a].status = Arg(c).s, ![a].timeout = FALSE,
                                ![a].result = Arg(c).s]
          /\ packets' = IF fd.port THEN [packets EXCEPT ![a] = Append(@, Arg(c).s)]
                                   ELSE packets
          /\ Then(c, <<>>)
  /\ UNCHANGED <<qVars, fd, fileVars, apcVars, dead>>

\* async_set_result.  STATUS_PENDING restarts the operation: the status is
\* reset, a reference and an APC are taken, and what happened meanwhile
\* (a status other than STATUS_ALERTED) ends it at once.  Any other result
\* is final: the packet goes to the port of the descriptor, or to the one
\* the queue kept when the descriptor was closed.
SetResult(c) ==
  /\ Now(c, "async_set_result")
  /\ LET a == Arg(c).a
         old == asy[a].status
         port == IF qfd[asy[a].type] THEN fd.port ELSE qport[asy[a].type]
     IN  IF Arg(c).s = "pending"
         THEN /\ asy' = [asy EXCEPT ![a].status = "pending"]
              /\ Then(c, <<Call("restart", a, old)>>)
              /\ UNCHANGED packets
         ELSE /\ asy' = [asy EXCEPT ![a].status = Arg(c).s, ![a].timeout = FALSE,
                                    ![a].result = Arg(c).s]
              /\ packets' = IF port THEN [packets EXCEPT ![a] = Append(@, Arg(c).s)]
                                    ELSE packets
              /\ Then(c, <<>>)
  /\ UNCHANGED <<qVars, fd, fileVars, apcVars, dead>>

\* Mutants: allocates no APC; forgets what happened meanwhile.
RestartNoApc(c) ==
  /\ Now(c, "restart")
  /\ LET a == Arg(c).a IN
     /\ asy' = [asy EXCEPT ![a].ref = @ + 1]
     /\ Then(c, IF Arg(c).s # "alerted" THEN <<Call("async_terminate", a, Arg(c).s)>>
                ELSE <<Call("async_reselect", a, "pending")>>)
  /\ UNCHANGED <<qVars, fd, fileVars, apcVars, dead, packets>>

RestartForgets(c) ==
  /\ Now(c, "restart")
  /\ LET a == Arg(c).a IN
     /\ asy' = [asy EXCEPT ![a].ref = @ + 1, ![a].apc = TRUE]
     /\ Then(c, <<Call("async_reselect", a, "pending")>>)
  /\ UNCHANGED <<qVars, fd, fileVars, apcVars, dead, packets>>

Restart(c) ==
  /\ Now(c, "restart")
  /\ LET a == Arg(c).a IN
     /\ asy' = [asy EXCEPT ![a].ref = @ + 1, ![a].apc = TRUE]
     /\ Then(c, IF Arg(c).s # "alerted" THEN <<Call("async_terminate", a, Arg(c).s)>>
                ELSE <<Call("async_reselect", a, "pending")>>)
  /\ UNCHANGED <<qVars, fd, fileVars, apcVars, dead, packets>>

\* thread_dequeue_apc at the end of the select handler.
DequeueApc(c) ==
  /\ Now(c, "dequeue_apc")
  /\ LET t == Arg(c).a IN
     IF sysApc[t] = <<>>
     THEN running' = [running EXCEPT ![t] = None] /\ UNCHANGED sysApc
     ELSE /\ running' = [running EXCEPT ![t] = [a |-> Head(sysApc[t]).a,
                                               s |-> Head(sysApc[t]).s, result |-> None]]
          /\ sysApc' = [sysApc EXCEPT ![t] = Tail(@)]
  /\ Then(c, <<>>)
  /\ UNCHANGED <<asy, qVars, fd, fileVars, dead, packets>>

-----------------------------------------------------------------------------
(* Requests and the timer callback, under uk_lock.                         *)

\* register_async: create_async gives one reference to its caller and one to
\* the queue, fd_queue_async rearms the poll entry.
RegisterAsync(t, a, q, timed) ==
  /\ t \notin dead /\ running[t] = None /\ fd.open
  /\ asy[a].life = "unused" /\ \A b \in 1 .. a - 1 : asy[b].life # "unused"
  /\ asy' = [asy EXCEPT ![a] = [life |-> "live", type |-> q, thread |-> t,
               status |-> "pending", apc |-> TRUE, timeout |-> FALSE, ref |-> 2,
               owed |-> fd.port, result |-> None]]
  /\ queue' = [queue EXCEPT ![q] = Append(@, a)]
  /\ Starts("req", <<FdCall("rearm", {})>> \o
                   (IF timed THEN <<Call("set_timeout", a, "pending")>> ELSE <<>>) \o
                   <<Call("release", a, "pending")>>)
  /\ UNCHANGED <<qfd, qport, fd, fileVars, apcVars, dead, packets>>

\* async_set_timeout, called after fd_queue_async.
SetTimeout(c) ==
  /\ Now(c, "set_timeout")
  /\ asy' = [asy EXCEPT ![Arg(c).a].timeout = TRUE]
  /\ Then(c, <<>>)
  /\ UNCHANGED <<qVars, fd, fileVars, apcVars, dead, packets>>

\* cancel_async and default_fd_cancel_async; which is the operation or the
\* thread to cancel, None for the whole process.
CancelAsync(t, which) ==
  /\ t \notin dead /\ running[t] = None /\ fd.open
  /\ Starts("req", <<[QueueCall("async_wake_up_by", "read", "cancelled") EXCEPT !.a = which],
                     [QueueCall("async_wake_up_by", "write", "cancelled") EXCEPT !.a = which]>>)
  /\ UNCHANGED <<asy, qVars, fd, fileVars, apcVars, dead, packets>>

\* async_timeout
AsyncTimeout(a) ==
  /\ asy[a].timeout
  /\ asy' = [asy EXCEPT ![a].timeout = FALSE]
  /\ Starts("req", <<Call("async_terminate", a, "timeout")>>)
  /\ UNCHANGED <<qVars, fd, fileVars, apcVars, dead, packets>>

CloseCalls == <<QueueCall("free_async_queue", "read", "closed"),
                QueueCall("free_async_queue", "write", "closed"),
                FdCall("fd_destroyed", {})>>

\* The last handle is closed: fd_destroy.
CloseFd(t) ==
  /\ t \notin dead /\ fd.open
  /\ fd' = [fd EXCEPT !.open = FALSE]
  /\ Starts("req", CloseCalls)
  /\ UNCHANGED <<asy, qVars, fileVars, apcVars, dead, packets>>

\* set_completion_info
SetCompletionInfo(t) ==
  /\ t \notin dead /\ fd.open /\ ~fd.port
  /\ fd' = [fd EXCEPT !.port = TRUE]
  /\ Starts("req", <<>>)
  /\ UNCHANGED <<asy, qVars, fileVars, apcVars, dead, packets>>

\* The select request of a thread whose wait was ended by an APC.
Select(t) ==
  /\ t \notin dead /\ running[t] = None /\ sysApc[t] # <<>>
  /\ Starts("req", <<Call("dequeue_apc", t, "pending")>>)
  /\ UNCHANGED <<asy, qVars, fd, fileVars, apcVars, dead, packets>>

\* The select request that carries the result of an APC: it sets the result,
\* frees the APC, which releases its owner, and takes the next one.
SelectResult(t) ==
  /\ t \notin dead /\ running[t] # None /\ running[t].result # None
  /\ Starts("req", <<Call("async_set_result", running[t].a, running[t].result),
                     Call("release", running[t].a, "pending"),
                     Call("dequeue_apc", t, "pending")>>)
  /\ UNCHANGED <<asy, qVars, fd, fileVars, apcVars, dead, packets>>

\* kill_thread: cleanup_thread empties the APC queue.  The APC the thread was
\* executing stays in the handle table of the process.
KillThread(t) ==
  /\ t \notin dead
  /\ dead' = dead \cup {t}
  /\ sysApc' = [sysApc EXCEPT ![t] = <<>>]
  /\ Starts("req", [i \in DOMAIN sysApc[t] |-> Call("release", sysApc[t][i].a, "pending")])
  /\ UNCHANGED <<asy, qVars, fd, fileVars, running, packets>>

\* The handle table of the process goes with its last thread: the APCs its
\* threads were executing, before or after the descriptor.
ProcessExit(first) ==
  /\ dead = Thread
  /\ fd.open \/ \E t \in Thread : running[t] # None
  /\ fd' = [fd EXCEPT !.open = FALSE]
  /\ running' = [t \in Thread |-> None]
  /\ LET held == {running[t].a : t \in {u \in Thread : running[u] # None}}
         orphans == Keep([a \in Async |-> a], held)
         close == IF fd.open THEN CloseCalls ELSE <<>>
     IN  Starts("req", IF first THEN Each(orphans, "release", "pending") \o close
                                ELSE close \o Each(orphans, "release", "pending"))
  /\ UNCHANGED <<asy, qVars, fileVars, sysApc, dead, packets>>

-----------------------------------------------------------------------------
(* The file, and the client's side of an APC.                              *)

\* The file becomes ready, or its other end goes: the wake-up calls
\* uk_pollwake when the entry is armed for it.
FileEvent(ev) ==
  /\ Starts("cb", IF ev \cap fd.key # {} THEN <<FdCall("pollwake", fd.key)>> ELSE <<>>)
  /\ UNCHANGED <<asy, qVars, fd, apcVars, dead, packets>>

Arrive(q) == q \notin ready /\ ready' = ready \cup {q} /\ UNCHANGED hup /\ FileEvent({q})
HangUp == ~hup /\ hup' = TRUE /\ ready' = Queue /\ FileEvent(Event)

\* invoke_apc, APC_ASYNC_IO: the callback tries the operation again when it
\* was alerted: it finishes, or has to go on (nothing there, or not all of
\* it); any other status is its result.
ClientIo(t) ==
  /\ t \notin dead /\ running[t] # None /\ running[t].result = None
  /\ Smp \/ Idle
  /\ LET q == asy[running[t].a].type
         end(r) == running' = [running EXCEPT ![t].result = r]
     IN  \/ running[t].s # "alerted" /\ end(running[t].s) /\ UNCHANGED ready
         \/ /\ running[t].s = "alerted" /\ q \in ready
            /\ end("success")
            /\ ready' \in {ready, IF hup THEN ready ELSE ready \ {q}}
         \/ /\ running[t].s = "alerted" /\ ~hup
            /\ end("pending")
            /\ ready' = ready \ {q}
  /\ UNCHANGED <<asy, qVars, fd, hup, sysApc, dead, packets, work>>

-----------------------------------------------------------------------------
FdStep(c) ==
  \/ SetFdEvents(c) \/ PollWake(c) \/ FdPollEvent(c) \/ FdPollEventEnd(c) \/ PollEvent(c)
  \/ Rearm(c) \/ Reselect(c) \/ FreeQueue(c) \/ FdDestroyEnd(c)

AsyncStep(c) ==
  \/ Terminate(c) \/ QueueApc(c) \/ ClearApc(c) \/ Release(c) \/ Free(c) \/ WakeUp(c)
  \/ WakeUpBy(c) \/ SetResult(c) \/ Restart(c) \/ DequeueApc(c) \/ SetTimeout(c)

Step(c) == FdStep(c) \/ AsyncStep(c)

ThreadRequest(t) ==
  \/ \E a \in Async, q \in Queue, timed \in Timed : RegisterAsync(t, a, q, timed)
  \/ \E which \in {None, t} \cup Async : CancelAsync(t, which)
  \/ CloseFd(t) \/ SetCompletionInfo(t) \/ KillThread(t)

Apc(t) == Select(t) \/ SelectResult(t) \/ ClientIo(t)

Next ==
  \/ \E c \in Ctx : Step(c)
  \/ \E t \in Thread : ThreadRequest(t) \/ Apc(t)
  \/ \E a \in Async : AsyncTimeout(a)
  \/ \E first \in BOOLEAN : ProcessExit(first)
  \/ \E q \in Queue : Arrive(q)
  \/ HangUp

Spec == Init /\ [][Next]_vars

\* The kernel goes on with what it has begun; a thread with a system APC is
\* signalled in whatever it does, calls select, executes the APC and returns
\* its result (at most one of the three can happen at a time), while others
\* may start requests again and again.
FairSpec == Spec /\ WF_vars(\E c \in Ctx : Step(c)) /\ \A t \in Thread : SF_vars(Apc(t))

-----------------------------------------------------------------------------
(* Properties.                                                             *)

\* The APCs that refer to an operation: queued, or handed to a thread.
Outstanding(a) ==
  {<<t, 0>> : t \in {u \in Thread : running[u] # None /\ running[u].a = a}}
    \cup UNION {{<<t, i>> : i \in {j \in DOMAIN sysApc[t] : sysApc[t][j].a = a}} : t \in Thread}

\* Between two requests an operation has exactly one owner.  While it is
\* pending that is its queue (the reference async_terminate drops), and the
\* APC it needs to end is allocated; otherwise it is one APC, on its way to
\* the thread or back, never two.  The assertion that the status is not
\* STATUS_PENDING when a result arrives (async_set_result) follows.
OneOwner ==
  Idle => \A a \in Async : asy[a].life = "live" =>
            /\ asy[a].ref = 1
            /\ IF asy[a].status = "pending" THEN asy[a].apc /\ Outstanding(a) = {}
                                            ELSE \E x \in Outstanding(a) : Outstanding(a) = {x}

\* No call on an operation comes after async_destroy has freed it: the
\* cancellation, the timeout, the close and the death of the thread may all
\* drop references while others still use the structure.  One call may: the
\* list async_wake_up_by walks for a cancellation can lose its next element
\* when that belongs to a dead thread, for ending one operation of such a
\* thread frees it, polls the file again and may end and free the other.
NoStaleAsync ==
  \A c \in Ctx :
    work[c] # <<>> /\ Arg(c).op # "async_wake_up_by" /\ Arg(c).a \in Async
      => \/ asy[Arg(c).a].life = "live"
         \/ /\ Arg(c).op = "async_terminate" /\ Arg(c).s = "cancelled"
            /\ asy[Arg(c).a].thread \in dead

\* While a descriptor is polled, the first pending operation of a queue is
\* armed and nothing it waits for is there: default_fd_reselect_async and
\* uk_add_fd_events look at the file before they sleep on it.
NoMissedInput ==
  Idle /\ fd.open /\ fd.state = "added" => PollEvents \subseteq fd.key \ ready

\* An operation that was registered on a descriptor with a completion port
\* and has its result posts one packet with that result, also when the
\* descriptor was closed before the result came; no operation posts two.
PacketOnce ==
  \A a \in Async :
    /\ Len(packets[a]) <= 1
    /\ asy[a].owed /\ asy[a].result # None => packets[a] = <<asy[a].result>>

\* async_terminate: assert( async->apc ).  The APC that carries the end of an
\* operation to its thread was allocated with it, or when it was restarted.
\* It does not hold with Smp: a callback may clear the APC of a restarted
\* operation.
ApcAllocated == \A c \in Ctx : Now(c, "async_queue_apc") => asy[Arg(c).a].apc

\* An operation that was cancelled, timed out or whose descriptor was closed
\* comes to an end, unless its thread died.
EndedIsFreed ==
  \A a \in Async : asy[a].status \in Ended ~> (asy[a].life = "freed" \/ asy[a].thread \in dead)
=============================================================================

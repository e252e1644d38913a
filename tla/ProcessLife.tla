----------------------------- MODULE ProcessLife ----------------------------
(***************************************************************************)
(* The life of processes and threads: how they are created, registered by   *)
(* their Linux task, killed and destroyed; who holds references on them;    *)
(* the counters of running and of user processes; the timeouts these drive, *)
(* SIGKILL for a process that was told to end and the shutdown of the       *)
(* system processes; and the timer thread that runs the timeouts.           *)
(*                                                                         *)
(* Requests run under uk_lock, and so does the timer thread while it calls  *)
(* the callbacks of expired timeouts.  srv is the state the lock protects,  *)
(* and each function of the server is an operator from srv to srv.  Times   *)
(* are what is left until they are due.                                    *)
(***************************************************************************)
EXTENDS Integers, Sequences, FiniteSets, FiniteSetsExt

CONSTANTS MaxProcess, MaxThread,  \* bounds on the objects that live at a time
          None,
          SigkillDelay, MasterTimeout, ShutdownDelay,  \* 1, 3 and 2 seconds
          IdleSleep       \* the sleep without timeouts, 10 seconds

ASSUME ProcessLifeAssumption ==
  /\ {SigkillDelay, MasterTimeout, ShutdownDelay, IdleSleep} \subseteq Nat \ {0}
  /\ MaxProcess \in Nat /\ MaxThread \in Nat

Process == 1 .. MaxProcess
Thread == 1 .. MaxThread

\* What a handle can be on.
Object == ({"process", "info"} \X Process) \cup ({"thread"} \X Thread)

VARIABLES
  srv,        \* what uk_lock protects
  pc,         \* the timer thread
  alarm       \* what is left of its sleep

vars == <<srv, pc, alarm>>

\* table: process->handles is not NULL; pid: unix_pid is known; info: there is
\* a startup_info that waits for the process.
NoProcess == [live |-> FALSE, threads |-> {}, table |-> FALSE, pid |-> FALSE, system |-> FALSE,
              terminating |-> FALSE, parent |-> None, info |-> FALSE, ref |-> 0]
\* task: the Linux task, which the first process has from the start, others
\* once it registers, and which is "gone" when it makes no more requests;
\* early: NtEarlyInit holds a reference.
NoThread == [live |-> FALSE, process |-> None, killed |-> FALSE, task |-> "none",
             early |-> FALSE, ref |-> 0]

Init ==
  /\ srv = [proc |-> [p \in Process |-> NoProcess],
            thr |-> [t \in Thread |-> NoThread],
            info |-> [p \in Process |-> 0],      \* references on the startup_info
            handles |-> [p \in Process |-> {}],  \* on processes, threads, startup_infos
            running |-> 0, user |-> 0,           \* running_processes, user_processes
            shutdown |-> FALSE,                  \* shutdown_timeout # NULL
            event |-> {},   \* the system processes that hold the current shutdown_event
            timeouts |-> <<>>, expired |-> <<>>,
            wake |-> FALSE]  \* the holder of uk_lock has called wake_up_process
  /\ pc = "loop" /\ alarm = 0

-----------------------------------------------------------------------------
(* Timeouts.  An entry is owned when its process, or shutdown_timeout, has   *)
(* the pointer to it.                                                      *)

\* add_timeout_user: before the first entry that is not due earlier, and a
\* wake-up for the timer thread.
AddTimeout(s, f, p, due) ==
  LET earlier == SelectSeq(s.timeouts, LAMBDA x : x.due < due)
      later == SelectSeq(s.timeouts, LAMBDA x : x.due >= due)
      e == [f |-> f, p |-> p, due |-> due, owned |-> TRUE]
  IN  [s EXCEPT !.timeouts = earlier \o <<e>> \o later, !.wake = TRUE]

\* remove_timeout_user takes the entry off whichever list it is on.
RemoveTimeout(s, f, p) ==
  LET other(x) == ~(x.f = f /\ x.p = p /\ x.owned)
  IN  [s EXCEPT !.timeouts = SelectSeq(@, other), !.expired = SelectSeq(@, other)]

\* The pointer of process p to its timeout is overwritten.
Disown(list, p) ==
  [i \in DOMAIN list |-> [list[i] EXCEPT !.owned = @ /\ list[i].p # p]]
ForgetTimeout(s, p) ==
  [s EXCEPT !.timeouts = Disown(@, p), !.expired = Disown(@, p)]

Owns(s, p) ==
  \E list \in {s.timeouts, s.expired} : \E i \in DOMAIN list : list[i].p = p /\ list[i].owned

-----------------------------------------------------------------------------
(* Reference counts.                                                       *)

GrabProcess(s, p) == [s EXCEPT !.proc[p].ref = @ + 1]

RECURSIVE Release(_, _)

\* close_process_handles
CloseProcessHandles(s, p) ==
  FoldSet(LAMBDA h, r : Release(r, h),
          [s EXCEPT !.handles[p] = {}, !.proc[p].table = FALSE], s.handles[p])

\* set_process_startup_state: whoever waits for the start-up is woken.
SetStartupState(s, p) ==
  IF s.proc[p].info THEN Release([s EXCEPT !.proc[p].info = FALSE], <<"info", p>>) ELSE s

\* Mutant: the parent is not released.
ProcessDestroyKeepsParent(s, p) ==
  [SetStartupState(CloseProcessHandles(s, p), p) EXCEPT !.proc[p] = NoProcess]

ProcessDestroy(s, p) ==
  LET closed == SetStartupState(CloseProcessHandles(s, p), p)
      gone == [closed EXCEPT !.proc[p] = NoProcess]
  IN  IF s.proc[p].parent = None THEN gone ELSE Release(gone, <<"process", s.proc[p].parent>>)

DestroyThread(s, t) ==
  Release([s EXCEPT !.thr[t] = NoThread], <<"process", s.thr[t].process>>)

StartupInfoDestroy(s, p) == Release([s EXCEPT !.info[p] = 0], <<"process", p>>)

\* release_object
Release(s, o) ==
  LET x == o[2] IN
  CASE o[1] = "process" -> IF s.proc[x].ref = 1 THEN ProcessDestroy(s, x)
                           ELSE [s EXCEPT !.proc[x].ref = @ - 1]
    [] o[1] = "thread"  -> IF s.thr[x].ref = 1 THEN DestroyThread(s, x)
                           ELSE [s EXCEPT !.thr[x].ref = @ - 1]
    [] o[1] = "info"    -> IF s.info[x] = 1 THEN StartupInfoDestroy(s, x)
                           ELSE [s EXCEPT !.info[x] = @ - 1]

-----------------------------------------------------------------------------
(* The end of threads and processes.                                       *)

\* One user process less: the last one starts the shutdown timer.
UserGone(s) ==
  LET r == [s EXCEPT !.user = @ - 1] IN
  IF r.user = 0
  THEN AddTimeout([r EXCEPT !.shutdown = TRUE], "server_shutdown_timeout", None, MasterTimeout)
  ELSE r

ProcessDied(s, p) ==
  LET r == IF s.proc[p].system THEN s ELSE UserGone(s)
  IN  [Release(r, <<"process", p>>) EXCEPT !.running = @ - 1]

StartSigkillTimer(s, p) ==
  LET r == GrabProcess(s, p) IN
  IF s.proc[p].pid THEN AddTimeout(ForgetTimeout(r, p), "process_sigkill", p, SigkillDelay)
                   ELSE ProcessDied(r, p)

\* process_killed: the handles are closed, the one on the shutdown event with
\* them, and a start-up that is still in progress is aborted.
ProcessKilled(s, p) ==
  StartSigkillTimer(SetStartupState([CloseProcessHandles(s, p) EXCEPT !.event = @ \ {p}], p), p)

RemoveProcessThread(s, t) ==
  LET p == s.thr[t].process
      r == [s EXCEPT !.proc[p].threads = @ \ {t}]
  IN  Release(IF r.proc[p].threads = {} THEN ProcessKilled(r, p) ELSE r, <<"thread", t>>)

\* kill_thread: what it ends in other components is in their modules.
KillThread(s, t) ==
  IF s.thr[t].killed THEN s
  ELSE Release(RemoveProcessThread([s EXCEPT !.thr[t].killed = TRUE], t), <<"thread", t>>)

\* terminate_process and the loop of kill_process.
KillThreads(s, p, skip) ==
  Release(FoldSet(LAMBDA t, r : KillThread(r, t), GrabProcess(s, p), s.proc[p].threads \ {skip}),
          <<"process", p>>)

Terminate(s, p, skip) == KillThreads([s EXCEPT !.proc[p].terminating = TRUE], p, skip)

\* Mutant: the timeout stays in the list.
KillProcessKeepsTimer(s, p) ==
  IF Owns(s, p) THEN ProcessDied(s, p) ELSE KillThreads(s, p, None)

\* kill_process without violence, as NtKillProcess calls it: a process that
\* waits for its SIGKILL is dead, otherwise its threads are killed.
KillProcess(s, p) ==
  IF Owns(s, p) THEN ProcessDied(RemoveTimeout(s, "process_sigkill", p), p)
                ELSE KillThreads(s, p, None)

-----------------------------------------------------------------------------
(* Their beginning.                                                        *)

\* Memory for a new object; which does not matter.
FreeProcess(p) == ~srv.proc[p].live /\ \A q \in 1 .. p - 1 : srv.proc[q].live
FreeThread(t) == ~srv.thr[t].live /\ \A u \in 1 .. t - 1 : srv.thr[u].live

\* Mutant: the shutdown timer is not removed.
CountProcessKeepsTimer(s, p) ==
  [s EXCEPT !.running = @ + 1, !.user = @ + IF s.proc[p].system THEN 0 ELSE 1]

\* add_process_thread of the first thread of a process.
CountProcess(s, p) ==
  LET r == [s EXCEPT !.running = @ + 1, !.user = @ + IF s.proc[p].system THEN 0 ELSE 1] IN
  IF ~s.proc[p].system /\ s.user = 0 /\ s.shutdown
  THEN RemoveTimeout([r EXCEPT !.shutdown = FALSE], "server_shutdown_timeout", None)
  ELSE r

\* create_thread with add_process_thread: the thread is referenced by its
\* creation and by the list of its process, the process by the thread.
CreateThread(s, p, t, task) ==
  LET r == IF s.proc[p].threads = {} THEN CountProcess(s, p) ELSE s IN
  [GrabProcess(r, p) EXCEPT
     !.thr[t] = [NoThread EXCEPT !.live = TRUE, !.process = p, !.task = task, !.ref = 2],
     !.proc[p].threads = @ \cup {t}]

\* create_process
CreateProcess(s, p, t, parent, task) ==
  LET new == [NoProcess EXCEPT !.live = TRUE, !.table = TRUE, !.parent = parent]
      r == CreateThread([s EXCEPT !.proc[p] = new], p, t, task)
  IN  IF parent = None THEN r ELSE GrabProcess(r, parent)

\* alloc_handle, which fails when the process has closed its table.
AllocHandles(s, p, S) ==
  LET on(kind) == {h[2] : h \in {g \in S \ s.handles[p] : g[1] = kind}} IN
  IF ~s.proc[p].table THEN s
  ELSE [s EXCEPT !.handles[p] = @ \cup S,
                 !.proc = [q \in Process |-> IF q \in on("process") THEN [@[q] EXCEPT !.ref = @ + 1] ELSE @[q]],
                 !.thr = [u \in Thread |-> IF u \in on("thread") THEN [@[u] EXCEPT !.ref = @ + 1] ELSE @[u]],
                 !.info = [q \in Process |-> @[q] + IF q \in on("info") THEN 1 ELSE 0]]

-----------------------------------------------------------------------------
(* Requests.                                                               *)

\* A request of a task runs to its end under uk_lock.  A task whose thread was
\* killed while it waited for the lock makes this one request and is gone.
Request(c, s) ==
  /\ pc # "locked"
  /\ srv' = [s EXCEPT !.wake = FALSE,
                      !.thr[c].task = IF s.thr[c].live /\ s.thr[c].killed THEN "gone" ELSE @]
  /\ pc' = IF pc = "sleep" /\ s.wake THEN "loop" ELSE pc
  /\ UNCHANGED alarm

Own(c) == srv.thr[c].process

\* The task of thread c has been registered and its process initialized.
InTask(c) == srv.thr[c].live /\ srv.thr[c].task = "in"
Calls(c) == InTask(c) /\ srv.proc[Own(c)].pid

\* The task of a thread that a killed caller creates is never started.
StartsTask(c) == IF srv.thr[c].killed THEN "gone" ELSE "none"

\* NtEarlyInit, FIRST_PROCESS: a process that no other has started.
FirstProcess(p, t) ==
  /\ FreeProcess(p) /\ FreeThread(t)
  /\ Request(t, CreateProcess(srv, p, t, None, "in"))

\* NtEarlyInit, NEW_PROCESS and NEW_THREAD: get_thread_from_id takes a
\* reference, add_thread_by_pid enters the thread under its Linux pid.
EarlyInit(t) ==
  /\ srv.thr[t].live /\ srv.thr[t].task = "none"
  /\ pc # "locked"
  /\ srv' = [srv EXCEPT !.thr[t].task = "in", !.thr[t].early = TRUE, !.thr[t].ref = @ + 1]
  /\ UNCHANGED <<pc, alarm>>

\* init_thread of the first thread makes the Linux pid of the process known.
InitThread(c) ==
  /\ InTask(c) /\ ~Calls(c)
  /\ Request(c, [srv EXCEPT !.proc[Own(c)].pid = TRUE])

\* init_process_done
InitProcessDone(c) ==
  /\ Calls(c) /\ srv.proc[Own(c)].info
  /\ Request(c, SetStartupState(srv, Own(c)))

\* new_process: the startup_info refers to the process, and the creator gets
\* handles on the startup_info, the process and the thread.
NewProcess(c, p, t) ==
  /\ Calls(c) /\ FreeProcess(p) /\ FreeThread(t)
  /\ LET r == GrabProcess(CreateProcess(srv, p, t, Own(c), StartsTask(c)), p)
     IN  Request(c, AllocHandles([r EXCEPT !.info[p] = 1, !.proc[p].info = TRUE], Own(c),
                                 {<<"info", p>>, <<"process", p>>, <<"thread", t>>}))

\* new_thread: without a handle the new thread is killed at once.
NewThread(c, t) ==
  /\ Calls(c) /\ FreeThread(t) /\ ~srv.proc[Own(c)].terminating
  /\ LET r == CreateThread(srv, Own(c), t, StartsTask(c))
     IN  Request(c, IF srv.proc[Own(c)].table THEN AllocHandles(r, Own(c), {<<"thread", t>>})
                    ELSE KillThread(r, t))

\* make_process_system, which needs a handle on the shutdown event.
MakeProcessSystem(c) ==
  LET p == Own(c)
      s == [srv EXCEPT !.event = @ \cup {p}, !.proc[p].system = TRUE]
  IN  /\ Calls(c) /\ srv.proc[p].table
      /\ Request(c, IF srv.proc[p].system THEN s ELSE UserGone(s))

\* close_handle
CloseHandle(c, h) ==
  /\ Calls(c) /\ h \in srv.handles[Own(c)]
  /\ Request(c, Release([srv EXCEPT !.handles[Own(c)] = @ \ {h}], h))

\* terminate_thread on another thread.
TerminateThread(c, t) ==
  /\ Calls(c) /\ c # t /\ <<"thread", t>> \in srv.handles[Own(c)]
  /\ Request(c, KillThread(srv, t))

\* terminate_process, on a process there is a handle on or on one's own, which
\* spares the caller.
TerminateProcess(c, p) ==
  /\ Calls(c) /\ (Own(c) = p \/ <<"process", p>> \in srv.handles[Own(c)])
  /\ Request(c, Terminate(srv, p, c))

\* NtKillThread and NtKillProcess
ExitThread(c) == Calls(c) /\ Request(c, KillThread(srv, c))
ExitProcess(c) == Calls(c) /\ Request(c, KillProcess(KillThread(srv, c), Own(c)))

-----------------------------------------------------------------------------
(* The timer thread.                                                       *)

\* One second passes.
Tick ==
  /\ srv.timeouts # <<>> \/ (pc = "sleep" /\ alarm > 0)
  /\ srv' = [srv EXCEPT !.timeouts =
               [i \in DOMAIN @ |-> [@[i] EXCEPT !.due = IF @ = 0 THEN 0 ELSE @ - 1]]]
  /\ alarm' = IF alarm = 0 THEN 0 ELSE alarm - 1
  /\ UNCHANGED pc

\* schedule_timeout returns.
TimerWakes == pc = "sleep" /\ alarm = 0 /\ pc' = "loop" /\ UNCHANGED <<srv, alarm>>

\* get_next_timeout: what is due moves to the expired list.
GetNextTimeout ==
  /\ pc = "loop" /\ pc' = "locked"
  /\ srv' = [srv EXCEPT !.expired = SelectSeq(srv.timeouts, LAMBDA x : x.due = 0),
                        !.timeouts = SelectSeq(srv.timeouts, LAMBDA x : x.due > 0)]
  /\ UNCHANGED alarm

Callback(f) == pc = "locked" /\ srv.expired # <<>> /\ Head(srv.expired).f = f
Expired == [srv EXCEPT !.expired = Tail(@)]

\* What a callback does; the timer thread that it might wake is running.
InTimer(s) == srv' = [s EXCEPT !.wake = FALSE] /\ UNCHANGED <<pc, alarm>>

\* Mutant: the process is only declared dead once its task has ended.
ProcessSigkillRetries ==
  /\ Callback("process_sigkill")
  /\ LET p == Head(srv.expired).p
     IN  InTimer(AddTimeout(ForgetTimeout(Expired, p), "process_sigkill", p, SigkillDelay))

\* process_sigkill
ProcessSigkill ==
  /\ Callback("process_sigkill")
  /\ LET p == Head(srv.expired).p IN InTimer(ProcessDied(ForgetTimeout(Expired, p), p))

\* Mutant: the event is only forgotten when no process runs.
ServerShutdownTimeoutKeeps ==
  /\ Callback("server_shutdown_timeout")
  /\ LET s == [Expired EXCEPT !.event = IF srv.running = 0 THEN {} ELSE @,
                               !.shutdown = (srv.running # 0)]
     IN  InTimer(IF srv.running = 0 THEN s
                 ELSE AddTimeout(s, "server_shutdown_timeout", None, ShutdownDelay))

\* server_shutdown_timeout: while processes run it sets the event they were
\* given, forgets it, and comes again.
ServerShutdownTimeout ==
  /\ Callback("server_shutdown_timeout")
  /\ LET s == [Expired EXCEPT !.event = {}, !.shutdown = (srv.running # 0)]
     IN  InTimer(IF srv.running = 0 THEN s
                 ELSE AddTimeout(s, "server_shutdown_timeout", None, ShutdownDelay))

\* timer_loop has computed its sleep and unlocked; what wakes it before it has
\* set its state to sleeping is lost.
TimerUnlocks ==
  /\ pc = "locked" /\ srv.expired = <<>>
  /\ alarm' = IF srv.timeouts = <<>> THEN IdleSleep ELSE srv.timeouts[1].due
  /\ pc' = "unlocked"
  /\ UNCHANGED srv

TimerSleeps == pc = "unlocked" /\ pc' = "sleep" /\ UNCHANGED <<srv, alarm>>

-----------------------------------------------------------------------------
TimerThread ==
  \/ TimerWakes \/ GetNextTimeout \/ ProcessSigkill \/ ServerShutdownTimeout
  \/ TimerUnlocks \/ TimerSleeps

TaskCalls(c) ==
  \/ InitThread(c) \/ InitProcessDone(c) \/ MakeProcessSystem(c) \/ ExitThread(c) \/ ExitProcess(c)
  \/ \E p \in Process, t \in Thread : NewProcess(c, p, t)
  \/ \E t \in Thread : NewThread(c, t) \/ TerminateThread(c, t)
  \/ \E p \in Process : TerminateProcess(c, p)
  \/ \E h \in Object : CloseHandle(c, h)

Next ==
  \/ TimerThread \/ Tick
  \/ \E p \in Process, t \in Thread : FirstProcess(p, t)
  \/ \E t \in Thread : EarlyInit(t)
  \/ \E c \in Thread : TaskCalls(c)

Spec == Init /\ [][Next]_vars

\* The timer thread is scheduled when it can run, and time passes.
FairSpec == Spec /\ WF_vars(TimerThread) /\ WF_vars(Tick)

-----------------------------------------------------------------------------
(* Properties.                                                             *)

Pending(f, p) ==
  LET n(list) == Len(SelectSeq(list, LAMBDA x : x.f = f /\ x.p = p))
  IN  n(srv.timeouts) + n(srv.expired)
Sigkills(p) == Pending("process_sigkill", p)
B(b) == IF b THEN 1 ELSE 0
Lives(p) == B(srv.proc[p].threads # {}) + Sigkills(p)

\* A process counts from its first thread until process_died, however it
\* ends: by itself, killed by others, with its SIGKILL sent or called off, or
\* when a killed thread's last request gives it a thread once more.
CountsExact ==
  /\ srv.running = MapThenSumSet(Lives, Process)
  /\ srv.user = MapThenSumSet(Lives, {p \in Process : ~srv.proc[p].system})

\* The shutdown timer is on one list once if shutdown_timeout is set, which it
\* never is while there are user processes, and always while there are only
\* system processes: UserGone adds it without looking, the first new process
\* removes it.
ShutdownArmed ==
  /\ Pending("server_shutdown_timeout", None) = B(srv.shutdown)
  /\ srv.shutdown => srv.user = 0
  /\ srv.user = 0 /\ (\E p \in Process : srv.proc[p].threads # {}) => srv.shutdown

\* The reference count of a process is the number of its threads, of its
\* children, of handles on it and of its SIGKILL timeouts, plus one for its
\* startup_info (so "timeout should hold a reference to the process", as
\* process_destroy asserts); a thread has two while it runs, one for each handle, and the
\* one NtEarlyInit took; a startup_info has its handles and its process.
On(o) == Cardinality({q \in Process : o \in srv.handles[q]})
RefcountExact ==
  /\ \A p \in Process : srv.proc[p].ref =
       Cardinality({t \in Thread : srv.thr[t].live /\ srv.thr[t].process = p}) +
       Cardinality({q \in Process : srv.proc[q].parent = p}) +
       On(<<"process", p>>) + Sigkills(p) + B(srv.info[p] > 0)
  /\ \A t \in Thread : srv.thr[t].ref =
       2 * B(srv.thr[t].live /\ ~srv.thr[t].killed) + B(srv.thr[t].early) + On(<<"thread", t>>)
  /\ \A p \in Process : srv.info[p] = B(srv.proc[p].info) + On(<<"info", p>>)

\* A process whose threads are gone is reaped, although the timer thread may
\* miss the wake-up of add_timeout_user.
DeadIsReaped == \A p \in Process : Sigkills(p) > 0 ~> Sigkills(p) = 0

\* Once the last user process is gone, every process that holds the shutdown
\* event is told to end, also if it asked for it after the event was last set.
SystemTold ==
  \A p \in Process : (srv.user = 0 /\ p \in srv.event) ~> (srv.user > 0 \/ p \notin srv.event)
=============================================================================

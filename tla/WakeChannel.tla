----------------------------- MODULE WakeChannel ----------------------------
(***************************************************************************)
(* How a wake-up reaches a thread.  Wine's server writes every reply into a *)
(* pipe.  The kernel module replaces the pipe by one structure per thread,  *)
(* thread->wake_info, and a completion: send_thread_wakeup fills the one    *)
(* and counts up the other, read() on the device waits for the completion   *)
(* and copies the structure, write() stores into the structure.  The client *)
(* is ntdll's wait_select_reply, unchanged but for the file it opens.       *)
(*                                                                         *)
(* One thread is modelled, with the server requests of others that concern  *)
(* it.  Cookie 1 is the select of the program, on an auto-reset event,      *)
(* cookie 2 the one wait_suspend makes in the handler of SIGUSR1 on top of  *)
(* it; a cookie is the address of a variable of server_select, so the same  *)
(* depth has the same cookie every time.                                    *)
(***************************************************************************)
EXTENDS Naturals, Sequences

CONSTANTS SelfWakes,   \* the program signals an object and waits on it at once
          Kills,       \* the thread may be killed
          MaxDone      \* bound on thread->completion.done when it does

ASSUME WakeChannelAssumption ==
  /\ {SelfWakes, Kills} \subseteq BOOLEAN
  /\ MaxDone \in Nat

Cookie == {1, 2}
Killed == 0          \* the cookie of kill_thread
Junk == 3            \* the cookie of a wait that select_on has not set yet

VARIABLES
  waits,       \* the cookies of the stack thread->wait, top first
  ready,       \* event->signaled
  suspended,   \* thread->suspend > 0
  killed,      \* thread->state = TERMINATED
  busy,        \* a wake_thread( thread ) is in progress, under uk_lock
  slot,        \* thread->wake_info
  done,        \* thread->completion.done
  frames,      \* the client's calls of wait_select_reply, top first
  sigusr1, sigquit,   \* signals sent to the thread
  alive,       \* the client thread has not exited
  ended,       \* with what status the last wait of each cookie ended
  stray,       \* a reply with the cookie Junk has been sent
  crossed      \* another reply than that of kill_thread was sent or put back, or a
               \* handler began to wait, while a reply was on its way

serverVars == <<waits, ready, suspended, killed, busy>>
clientVars == <<frames, sigusr1, sigquit, alive>>
history == <<ended, stray, crossed>>   \* what happened: no step depends on it
vars == <<serverVars, slot, done, clientVars, history>>

Init ==
  /\ waits = <<>> /\ frames = <<>>
  /\ ready = FALSE /\ suspended = FALSE /\ killed = FALSE /\ busy = FALSE
  /\ slot = [cookie |-> Killed, signaled |-> "object"] /\ done = 0
  /\ ended = [c \in Cookie |-> "object"]
  /\ sigusr1 = FALSE /\ sigquit = FALSE /\ alive = TRUE
  /\ stray = FALSE /\ crossed = FALSE

\* No reply is on its way: none waits to be read, and the client is not
\* between reading one and having looked at it.
Quiet == done = 0 /\ (frames # <<>> => Head(frames).pc = "read")

\* A version of send_thread_wakeup that forgets complete().
SendSilent(c, status) ==
  /\ slot' = [cookie |-> c, signaled |-> status]
  /\ UNCHANGED done

\* A version of send_thread_wakeup that leaves the old status.
SendNoStatus(c, status) ==
  /\ slot' = [slot EXCEPT !.cookie = c]
  /\ done' = done + 1

\* send_thread_wakeup
Send(c, status) ==
  /\ slot' = [cookie |-> c, signaled |-> status]
  /\ done' = done + 1

\* what the history keeps of a reply that is sent, or a wait that begins, now
Cross == crossed' = (crossed \/ ~Quiet)

-----------------------------------------------------------------------------
(* The server, under uk_lock.                                               *)

\* check_wait of the wait on top: cookie 1 waits for the event, cookie 2 for
\* the end of the suspension.
Satisfied == waits # <<>> /\ ~suspended /\ (Head(waits) = 2 \/ ready)

\* one turn of the loop of wake_thread
WakeThread ==
  /\ busy /\ Satisfied
  /\ LET status == IF Head(waits) = 1 THEN "object" ELSE "timeout" IN
       /\ Send(Head(waits), status) /\ Cross
       /\ ended' = [ended EXCEPT ![Head(waits)] = status]
  /\ waits' = Tail(waits)
  /\ ready' = (ready /\ Head(waits) # 1)
  /\ UNCHANGED <<suspended, killed, busy, clientVars, stray>>

WakeThreadEnd ==
  /\ busy /\ ~Satisfied
  /\ busy' = FALSE
  /\ UNCHANGED <<waits, ready, suspended, killed, slot, done, clientVars, history>>

\* thread_timeout of the program's wait, up to its wake_thread
Timeout ==
  /\ ~busy /\ ~suspended
  /\ waits # <<>> /\ Head(waits) = 1
  /\ Send(1, "timeout") /\ Cross
  /\ waits' = Tail(waits) /\ busy' = TRUE
  /\ ended' = [ended EXCEPT ![1] = "timeout"]
  /\ UNCHANGED <<ready, suspended, killed, clientVars, stray>>

\* set_event by another thread
SetEvent ==
  /\ ~busy /\ ~ready
  /\ ready' = TRUE /\ busy' = TRUE
  /\ UNCHANGED <<waits, suspended, killed, slot, done, clientVars, history>>

\* suspend_thread and resume_thread by another thread
Suspend ==
  /\ ~busy /\ ~suspended /\ ~killed
  /\ suspended' = TRUE /\ sigusr1' = TRUE
  /\ UNCHANGED <<waits, ready, killed, busy, slot, done, frames, sigquit, alive, history>>

Resume ==
  /\ ~busy /\ suspended
  /\ suspended' = FALSE /\ busy' = TRUE
  /\ UNCHANGED <<waits, ready, killed, slot, done, clientVars, history>>

\* A version of kill_thread that never sends SIGQUIT.
KillNoQuit ==
  /\ Kills /\ ~busy /\ ~killed
  /\ killed' = TRUE
  /\ waits' = <<>>
  /\ IF waits # <<>> THEN Send(Killed, "killed") ELSE UNCHANGED <<slot, done>>
  /\ UNCHANGED <<ready, suspended, busy, clientVars, history>>

\* kill_thread by another thread: SIGQUIT only if no wake-up can be sent
Kill ==
  /\ Kills /\ ~busy /\ ~killed
  /\ killed' = TRUE
  /\ waits' = <<>>
  /\ IF waits # <<>> THEN Send(Killed, "killed") /\ UNCHANGED sigquit
                     ELSE sigquit' = TRUE /\ UNCHANGED <<slot, done>>
  /\ UNCHANGED <<ready, suspended, busy, frames, sigusr1, alive, history>>

-----------------------------------------------------------------------------
(* The client.                                                              *)

NewFrame(c) == [cookie |-> c, pc |-> "read", got |-> slot, stolen |-> <<>>]

\* server_select: the request is answered at once or STATUS_PENDING
Select ==
  /\ alive /\ ~busy /\ frames = <<>>
  /\ IF ready /\ ~suspended
       THEN ready' = FALSE /\ UNCHANGED <<waits, frames>>
       ELSE waits' = <<1>> \o waits /\ frames' = <<NewFrame(1)>> /\ UNCHANGED ready
  /\ UNCHANGED <<suspended, killed, busy, slot, done, sigusr1, sigquit, alive, history>>

\* server_select with SELECT_SIGNAL_AND_WAIT, on the event it signals: the
\* wake-up is sent before the cookie is set, and the request returns success
SignalAndWait ==
  /\ SelfWakes /\ done < MaxDone
  /\ alive /\ ~busy /\ frames = <<>> /\ waits = <<>> /\ ~suspended
  /\ Send(Junk, "object") /\ Cross
  /\ ready' = FALSE /\ stray' = TRUE
  /\ UNCHANGED <<waits, suspended, killed, busy, clientVars, ended>>

\* the handler of SIGUSR1 (which blocks SIGUSR1): wait_suspend
Handler ==
  /\ alive /\ ~busy /\ sigusr1
  /\ frames # <<>> => Head(frames).cookie = 1 /\ Head(frames).pc # "copy"
  /\ sigusr1' = FALSE
  /\ IF suspended
       THEN /\ waits' = <<2>> \o waits /\ frames' = <<NewFrame(2)>> \o frames
            /\ Cross
       ELSE UNCHANGED <<waits, frames, crossed>>
  /\ UNCHANGED <<ready, suspended, killed, busy, slot, done, sigquit, alive, ended, stray>>

\* the handler of SIGQUIT: the thread exits
Quit ==
  /\ sigquit /\ alive
  /\ alive' = FALSE /\ frames' = <<>>
  /\ UNCHANGED <<serverVars, slot, done, sigusr1, sigquit, history>>

At(pc) == frames # <<>> /\ Head(frames).pc = pc

SetTop(f) == frames' = <<f>> \o Tail(frames)

\* read(): wait_for_completion_interruptible in uk_thread_wait ...
Read ==
  /\ At("read") /\ done > 0
  /\ done' = done - 1
  /\ SetTop([Head(frames) EXCEPT !.pc = "copy"])
  /\ UNCHANGED <<serverVars, slot, sigusr1, sigquit, alive, history>>

\* ... then copy_to_user of wake_info, under no lock
Copy ==
  /\ At("copy")
  /\ SetTop([Head(frames) EXCEPT !.pc = "check", !.got = slot])
  /\ UNCHANGED <<serverVars, slot, done, sigusr1, sigquit, alive, history>>

\* __wait_select_reply looks at the cookie: killed, the one it waits for, or
\* another one, which it keeps while it waits for the real one
Check ==
  LET f == Head(frames) IN
  /\ At("check")
  /\ \/ /\ f.got.cookie = Killed
        /\ alive' = FALSE /\ frames' = <<>>
     \/ /\ f.got.cookie = f.cookie
        /\ IF f.stolen = <<>> THEN frames' = Tail(frames)
                              ELSE SetTop([f EXCEPT !.pc = "back"])
        /\ UNCHANGED alive
     \/ /\ f.got.cookie \notin {Killed, f.cookie}
        /\ SetTop([f EXCEPT !.pc = "read", !.stolen = <<f.got>> \o @])
        /\ UNCHANGED alive
  /\ UNCHANGED <<serverVars, slot, done, sigusr1, sigquit, history>>

\* write(): the kept reply goes back into wake_info, without complete()
PutBack ==
  LET f == Head(frames) IN
  /\ At("back")
  /\ slot' = Head(f.stolen)
  /\ crossed' = (crossed \/ done > 0)
  /\ IF Tail(f.stolen) = <<>> THEN frames' = Tail(frames)
                              ELSE SetTop([f EXCEPT !.stolen = Tail(@)])
  /\ UNCHANGED <<serverVars, done, sigusr1, sigquit, alive, ended, stray>>

-----------------------------------------------------------------------------
Client == Read \/ Copy \/ Check \/ PutBack
Wake == WakeThread \/ WakeThreadEnd

Next == \/ Wake \/ Timeout \/ SetEvent \/ Suspend \/ Resume \/ Kill
        \/ Select \/ SignalAndWait \/ Handler \/ Quit \/ Client

Spec == Init /\ [][Next]_vars

\* A request under uk_lock ends, the client runs while it can, and signals are
\* delivered.
FairSpec == Spec /\ WF_vars(Wake) /\ WF_vars(Client) /\ SF_vars(Handler) /\ WF_vars(Quit)

-----------------------------------------------------------------------------
(* Properties.                                                              *)

Waiting(c) == \E i \in DOMAIN frames : frames[i].cookie = c
Pending(c) == \E i \in DOMAIN waits : waits[i] = c

\* server.c, __wait_select_reply: "we stole another reply, wait for the real
\* one", "and now put the wrong one back in the pipe".  When the server has
\* ended a wait, its select returns, unless the thread stays suspended.
RepliesArrive ==
  []<>~suspended => \A c \in Cookie : (Waiting(c) /\ ~Pending(c)) ~> ~Waiting(c)

\* A select returns when the server has ended its wait, and with the status of
\* that wait (wake_thread, thread_timeout).  This holds until replies cross; and
\* for a select of the program even when they do, as long as it leaves no stray
\* replies: it may never return then (RepliesArrive), but it does not return
\* early, or with the reply of an earlier wait of the same cookie.
ReturnsOwnStatus ==
  [][LET f == Head(frames) IN
     /\ Len(frames') < Len(frames) /\ alive'
     /\ ~crossed \/ (f.cookie = 1 /\ ~stray)
     => ~Pending(f.cookie) /\ f.got.signaled = ended[f.cookie]]_vars

\* thread.c, kill_thread: "if it is waiting on the socket, we don't need to
\* send a SIGQUIT".  A killed thread has been sent SIGQUIT, or is in a call that
\* has the reply of kill_thread before it or has just read it.  That reply may
\* be written over another one, or between the read of another one and its copy.
KillAnnounced ==
  killed /\ alive /\ ~crossed =>
    \/ sigquit
    \/ frames # <<>> /\ slot.cookie = Killed /\ (done > 0 \/ At("copy"))
    \/ At("check") /\ Head(frames).got.cookie = Killed

\* A killed thread ends, by the reply of kill_thread or by SIGQUIT, unless
\* replies cross: a reply that is put back, or the one that ends the wait of a
\* handler begun after the kill, may overwrite that of kill_thread.
KilledThreadEnds == killed ~> (~alive \/ crossed)

\* The channel does what the pipe does, as long as no replies cross.
Pipe == INSTANCE WakePipe WITH
  call <- [c \in Cookie |-> IF ~Waiting(c) THEN "idle"
                            ELSE IF Pending(c) THEN "waiting" ELSE "sent"],
  intact <- ~crossed

\* Until replies cross, the selects behave as over a pipe: each returns after
\* the server has ended its wait (send_thread_wakeup), so that the wait of a
\* suspended thread "will only return once the thread is no longer suspended"
\* (exception.c, wait_suspend), and then always returns.
ImplementsPipe == Pipe!FairSpec

=============================================================================

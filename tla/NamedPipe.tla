------------------------------ MODULE NamedPipe -----------------------------
(***************************************************************************)
(* One named pipe: its server instances and their state machine, the        *)
(* clients that open it, the asynchronous FSCTL_PIPE_LISTEN of a server and *)
(* FSCTL_PIPE_WAIT of a would-be client, and the flush of a server end that *)
(* a timer polls.  Every action is one request, or one timer callback, and  *)
(* runs under uk_lock.                                                      *)
(*                                                                         *)
(* A server or a client is destroyed when its last handle is closed; the    *)
(* pipe is referenced by its servers only, so it goes with the last one.    *)
(***************************************************************************)
EXTENDS Integers, Sequences

CONSTANTS Server, Client, Waiter,
          None,
          MaxInstances,   \* values of req->maxinstances
          Sharing,        \* values of req->sharing
          Access          \* values of req->access of open_file_object

ASSUME NamedPipeAssumption ==
  /\ None \notin Server \cup Client
  /\ MaxInstances \subseteq Nat

VARIABLES
  pipe,         \* the struct named_pipe; live says whether the name exists
  servers,      \* pipe->servers
  state,        \* server->state, "none" for a server that does not exist
  client,       \* server->client
  fd,           \* server->fd # NULL
  flushPoll,    \* server->flush_poll # NULL
  event,        \* server->event # NULL: somebody waits for a flush
  listen,       \* the last FSCTL_PIPE_LISTEN on the server's ioctl_fd
  unread,       \* the client has not read all that the server wrote
  open,         \* the client exists
  server,       \* client->server
  clientFd,     \* client->fd # NULL
  wait,         \* the FSCTL_PIPE_WAIT of each waiter
  armed         \* its async->timeout # NULL

flushVars == <<flushPoll, event, unread>>
clientVars == <<open, server, clientFd>>
waitVars == <<wait, armed>>
vars == <<pipe, servers, state, client, fd, flushVars, listen, clientVars, waitVars>>

ServerState == {"idle_server", "wait_open", "connected_server",
                "wait_disconnect", "disconnected_server", "wait_connect"}
Outcome == {"success", "timeout", "closed"}

\* The most instances the pipe can have: its first one is not checked.
Limit == IF pipe.maxinstances = 0 THEN 1 ELSE pipe.maxinstances

TypeOK ==
  /\ pipe \in [live : BOOLEAN, instances : Nat,
               maxinstances : MaxInstances \cup {0}, sharing : Sharing \cup {{}}]
  /\ pipe.instances \in 0 .. Limit
  /\ servers \in Seq(Server)
  /\ state \in [Server -> ServerState \cup {"none"}]
  /\ client \in [Server -> Client \cup {None}]
  /\ {fd, flushPoll, event, unread} \subseteq [Server -> BOOLEAN]
  /\ listen \in [Server -> {"none", "pending", "success", "closed"}]
  /\ {open, clientFd} \subseteq [Client -> BOOLEAN]
  /\ server \in [Client -> Server \cup {None}]
  /\ wait \in [Waiter -> {"none", "pending"} \cup Outcome]
  /\ armed \in [Waiter -> BOOLEAN]

NoPipe == [live |-> FALSE, instances |-> 0, maxinstances |-> 0, sharing |-> {}]

Init ==
  /\ pipe = NoPipe /\ servers = <<>>
  /\ state = [s \in Server |-> "none"]
  /\ client = [s \in Server |-> None]
  /\ fd = [s \in Server |-> FALSE]
  /\ flushPoll = [s \in Server |-> FALSE]
  /\ event = [s \in Server |-> FALSE]
  /\ unread = [s \in Server |-> FALSE]
  /\ listen = [s \in Server |-> "none"]
  /\ open = [c \in Client |-> FALSE]
  /\ server = [c \in Client |-> None]
  /\ clientFd = [c \in Client |-> FALSE]
  /\ wait = [w \in Waiter |-> "none"]
  /\ armed = [w \in Waiter |-> FALSE]

-----------------------------------------------------------------------------
(* The asynchronous operations.                                             *)

\* async_wake_up( pipe->waiters, status )
WakeWaiters(status) ==
  wait' = [w \in Waiter |-> IF wait[w] = "pending" THEN status ELSE wait[w]]

\* async_wake_up of the wait queue of server s's ioctl_fd
EndListen(s, status) ==
  listen' = [listen EXCEPT ![s] = IF @ = "pending" THEN status ELSE @]

-----------------------------------------------------------------------------
(* Creating server instances.                                               *)

\* the existing pipe takes one more instance
MayJoin(share) == pipe.instances < pipe.maxinstances /\ pipe.sharing = share

\* the pipe that create_named_pipe finds, or makes
Pipe(max, share) ==
  IF pipe.live THEN pipe
  ELSE [live |-> TRUE, instances |-> 0, maxinstances |-> max, sharing |-> share]

\* create_named_pipe and create_pipe_server
Create(s, max, share) ==
  LET p == Pipe(max, share) IN
  /\ state[s] = "none"
  /\ pipe.live => MayJoin(share)
  /\ pipe' = [p EXCEPT !.instances = @ + 1]
  /\ servers' = <<s>> \o servers
  /\ state' = [state EXCEPT ![s] = "idle_server"]
  /\ listen' = [listen EXCEPT ![s] = "none"]
  /\ UNCHANGED <<client, fd, flushVars, clientVars, waitVars>>

-----------------------------------------------------------------------------
(* The server end.                                                          *)

\* A version of FSCTL_PIPE_LISTEN that forgets the waiting clients.
ListenSilent(s) ==
  /\ state[s] \in {"idle_server", "wait_connect"}
  /\ state' = [state EXCEPT ![s] = "wait_open"]
  /\ listen' = [listen EXCEPT ![s] = "pending"]
  /\ UNCHANGED <<pipe, servers, client, fd, flushVars, clientVars, waitVars>>

\* FSCTL_PIPE_LISTEN
Listen(s) ==
  /\ state[s] \in {"idle_server", "wait_connect"}
  /\ state' = [state EXCEPT ![s] = "wait_open"]
  /\ listen' = [listen EXCEPT ![s] = "pending"]
  /\ WakeWaiters("success")
  /\ UNCHANGED <<pipe, servers, client, fd, flushVars, clientVars, armed>>

\* notify_empty: whoever waits for a flush gets the event
NotifyEmpty(s) ==
  /\ flushPoll' = [flushPoll EXCEPT ![s] = FALSE]
  /\ event' = [event EXCEPT ![s] = @ /\ ~flushPoll[s]]

\* do_disconnect: both ends lose their fd and the data on its way
DoDisconnect(s) ==
  /\ clientFd' = [c \in Client |-> clientFd[c] /\ client[s] # c]
  /\ fd' = [fd EXCEPT ![s] = FALSE]
  /\ unread' = [unread EXCEPT ![s] = FALSE]

\* FSCTL_PIPE_DISCONNECT
Disconnect(s) ==
  /\ \/ /\ state[s] = "connected_server"
        /\ NotifyEmpty(s)
        /\ state' = [state EXCEPT ![s] = "disconnected_server"]
     \/ /\ state[s] = "wait_disconnect"
        /\ state' = [state EXCEPT ![s] = "wait_connect"]
        /\ UNCHANGED <<flushPoll, event>>
  /\ DoDisconnect(s)
  /\ UNCHANGED <<pipe, servers, client, listen, open, server, waitVars>>

\* q without its i-th entry
RemoveEntry(q, i) == SubSeq(q, 1, i - 1) \o SubSeq(q, i + 1, Len(q))

\* list_remove( &server->entry )
Unlink(s) == RemoveEntry(servers, CHOOSE i \in DOMAIN servers : servers[i] = s)

\* A version of pipe_server_destroy that forgets to count down.
CloseServerUncounted(s) ==
  /\ state[s] # "none"
  /\ IF fd[s] THEN NotifyEmpty(s) /\ DoDisconnect(s)
              ELSE UNCHANGED <<flushPoll, event, clientFd, fd, unread>>
  /\ server' = [c \in Client |-> IF client[s] = c THEN None ELSE server[c]]
  /\ client' = [client EXCEPT ![s] = None]
  /\ state' = [state EXCEPT ![s] = "none"]
  /\ servers' = Unlink(s)
  /\ EndListen(s, "closed")
  /\ IF servers' = <<>> THEN pipe' = NoPipe /\ WakeWaiters("closed")
                        ELSE UNCHANGED <<pipe, wait>>
  /\ UNCHANGED <<open, armed>>

\* pipe_server_destroy, and named_pipe_destroy after the last server
CloseServer(s) ==
  /\ state[s] # "none"
  /\ IF fd[s] THEN NotifyEmpty(s) /\ DoDisconnect(s)
              ELSE UNCHANGED <<flushPoll, event, clientFd, fd, unread>>
  /\ server' = [c \in Client |-> IF client[s] = c THEN None ELSE server[c]]
  /\ client' = [client EXCEPT ![s] = None]
  /\ state' = [state EXCEPT ![s] = "none"]
  /\ servers' = Unlink(s)
  /\ EndListen(s, "closed")
  /\ IF servers' = <<>>
       THEN pipe' = NoPipe /\ WakeWaiters("closed")
       ELSE /\ pipe' = [pipe EXCEPT !.instances = @ - 1]
            /\ UNCHANGED wait
  /\ UNCHANGED <<open, armed>>

-----------------------------------------------------------------------------
(* The client end.                                                          *)

\* s is the first server of the list in state st
IsFirst(s, st) ==
  \E i \in DOMAIN servers :
    /\ servers[i] = s /\ state[s] = st
    /\ \A j \in 1 .. i - 1 : state[servers[j]] # st

\* no server of the list is in state st
NoneIn(st) == \A i \in DOMAIN servers : state[servers[i]] # st

\* find_available_server: one that listens, or else an idle one
Available(s) ==
  \/ IsFirst(s, "wait_open")
  \/ NoneIn("wait_open") /\ IsFirst(s, "idle_server")

\* open_file on the pipe: named_pipe_open_file
Open(c, s, access) ==
  /\ ~open[c] /\ pipe.live
  /\ Available(s)
  /\ access \subseteq pipe.sharing
  /\ fd' = [fd EXCEPT ![s] = TRUE]
  /\ clientFd' = [clientFd EXCEPT ![c] = TRUE]
  /\ open' = [open EXCEPT ![c] = TRUE]
  /\ EndListen(s, "success")
  /\ state' = [state EXCEPT ![s] = "connected_server"]
  /\ client' = [client EXCEPT ![s] = c]
  /\ server' = [server EXCEPT ![c] = s]
  /\ UNCHANGED <<pipe, servers, flushVars, waitVars>>

\* A version of pipe_client_destroy that leaves the server alone.
CloseClientSilent(c) ==
  /\ open[c]
  /\ open' = [open EXCEPT ![c] = FALSE]
  /\ server' = [server EXCEPT ![c] = None]
  /\ clientFd' = [clientFd EXCEPT ![c] = FALSE]
  /\ UNCHANGED <<pipe, servers, state, client, fd, flushVars, listen, waitVars>>

\* pipe_client_destroy; the server keeps its fd until it disconnects
CloseClient(c) ==
  LET s == server[c] IN
  /\ open[c]
  /\ open' = [open EXCEPT ![c] = FALSE]
  /\ server' = [server EXCEPT ![c] = None]
  /\ clientFd' = [clientFd EXCEPT ![c] = FALSE]
  /\ IF s = None
       THEN UNCHANGED <<state, client, flushPoll, event>>
       ELSE /\ NotifyEmpty(s)
            /\ state' = [state EXCEPT ![s] =
                           IF @ = "connected_server" THEN "wait_disconnect"
                           ELSE IF @ = "disconnected_server" THEN "wait_connect" ELSE @]
            /\ client' = [client EXCEPT ![s] = None]
  /\ UNCHANGED <<pipe, servers, fd, unread, listen, waitVars>>

\* FSCTL_PIPE_WAIT on the device when no server is available
Wait(w, timed) ==
  /\ pipe.live /\ wait[w] = "none"
  /\ \A s \in Server : ~Available(s)
  /\ wait' = [wait EXCEPT ![w] = "pending"]
  /\ armed' = [armed EXCEPT ![w] = timed]
  /\ UNCHANGED <<pipe, servers, state, client, fd, flushVars, listen, clientVars>>

\* async_timeout: the status that has already gone to the client stays
WaitTimeout(w) ==
  /\ armed[w]
  /\ armed' = [armed EXCEPT ![w] = FALSE]
  /\ wait' = [wait EXCEPT ![w] = IF @ = "pending" THEN "timeout" ELSE @]
  /\ UNCHANGED <<pipe, servers, state, client, fd, flushVars, listen, clientVars>>

\* async_set_result: the client has seen the outcome
WaitDone(w) ==
  /\ wait[w] \in Outcome
  /\ wait' = [wait EXCEPT ![w] = "none"]
  /\ armed' = [armed EXCEPT ![w] = FALSE]
  /\ UNCHANGED <<pipe, servers, state, client, fd, flushVars, listen, clientVars>>

-----------------------------------------------------------------------------
(* Data and flushing.                                                       *)

\* the server's process writes to its end, without a request
Write(s) ==
  /\ state[s] = "connected_server" /\ fd[s]
  /\ unread' = [unread EXCEPT ![s] = TRUE]
  /\ UNCHANGED <<pipe, servers, state, client, fd, flushPoll, event, listen, clientVars, waitVars>>

\* the client's process reads all there is
Read(c) ==
  /\ open[c] /\ clientFd[c] /\ server[c] # None
  /\ unread' = [unread EXCEPT ![server[c]] = FALSE]
  /\ UNCHANGED <<pipe, servers, state, client, fd, flushPoll, event, listen, clientVars, waitVars>>

\* pipe_server_flush; a second flush while one is polled returns at once
Flush(s) ==
  /\ state[s] = "connected_server" /\ ~flushPoll[s] /\ unread[s]
  /\ flushPoll' = [flushPoll EXCEPT ![s] = TRUE]
  /\ event' = [event EXCEPT ![s] = TRUE]
  /\ UNCHANGED <<pipe, servers, state, client, fd, unread, listen, clientVars, waitVars>>

\* A version of check_flushed that gives up at once.
CheckFlushedEarly(s) ==
  /\ flushPoll[s]
  /\ flushPoll' = [flushPoll EXCEPT ![s] = FALSE]
  /\ event' = [event EXCEPT ![s] = FALSE]
  /\ UNCHANGED <<pipe, servers, state, client, fd, unread, listen, clientVars, waitVars>>

\* A version of check_flushed that drops the timer when there is data left.
CheckFlushedOnce(s) ==
  /\ flushPoll[s]
  /\ flushPoll' = [flushPoll EXCEPT ![s] = FALSE]
  /\ event' = [event EXCEPT ![s] = unread[s]]
  /\ UNCHANGED <<pipe, servers, state, client, fd, unread, listen, clientVars, waitVars>>

\* check_flushed, every tenth of a second
CheckFlushed(s) ==
  /\ flushPoll[s]
  /\ flushPoll' = [flushPoll EXCEPT ![s] = unread[s]]
  /\ event' = [event EXCEPT ![s] = unread[s]]
  /\ UNCHANGED <<pipe, servers, state, client, fd, unread, listen, clientVars, waitVars>>

-----------------------------------------------------------------------------
ServerNext(s) ==
  \/ \E max \in MaxInstances, share \in Sharing : Create(s, max, share)
  \/ Listen(s) \/ Disconnect(s) \/ CloseServer(s)
  \/ Write(s) \/ Flush(s) \/ CheckFlushed(s)

ClientNext(c) ==
  \/ \E s \in Server, access \in Access : Open(c, s, access)
  \/ CloseClient(c) \/ Read(c)

WaiterNext(w) ==
  \/ \E timed \in BOOLEAN : Wait(w, timed)
  \/ WaitTimeout(w) \/ WaitDone(w)

Next ==
  \/ \E s \in Server : ServerNext(s)
  \/ \E c \in Client : ClientNext(c)
  \/ \E w \in Waiter : WaiterNext(w)

Spec == Init /\ [][Next]_vars

\* The timer thread runs the callbacks whose time has come.
FairSpec == /\ Spec
            /\ \A s \in Server : WF_vars(CheckFlushed(s))

-----------------------------------------------------------------------------
(* Properties.                                                              *)

\* What the assertions of set_server_state, notify_empty, do_disconnect,
\* pipe_client_destroy and named_pipe_open_file rely on: a server has an fd
\* exactly while it is connected or its client has gone without a
\* disconnect, it has a client exactly while it is connected or has
\* disconnected one that is still open, the two point at each other, a
\* disconnected client has no fd, and a flush is polled only on a connection.
EndsMatch ==
  /\ \A s \in Server :
       /\ fd[s] <=> state[s] \in {"connected_server", "wait_disconnect"}
       /\ client[s] # None <=> state[s] \in {"connected_server", "disconnected_server"}
       /\ client[s] # None =>
            /\ open[client[s]] /\ server[client[s]] = s
            /\ clientFd[client[s]] <=> state[s] = "connected_server"
       /\ flushPoll[s] => state[s] = "connected_server"
  /\ \A c \in Client :
       /\ server[c] # None => open[c] /\ client[server[c]] = c
       /\ clientFd[c] => server[c] # None

\* A server is in ps_wait_open exactly while its FSCTL_PIPE_LISTEN is pending:
\* no listen is left behind when the state moves on, and no listening server
\* lacks the operation that will tell its process about the client.
ListenPending == \A s \in Server : state[s] = "wait_open" <=> listen[s] = "pending"

\* Clients and servers open, close, disconnect and listen in any order, and the
\* state of a pipe server always agrees with its fds, its client, its flush and
\* its pending listen: none of the assertions of named_pipe.c on them fails.
StatesMatch == EndsMatch /\ ListenPending

\* pipe_server_destroy and named_pipe_destroy assert their count: instances is
\* the number of servers of the pipe, never above the limit its first creator
\* set (a first instance is made even with a limit of 0), and the pipe is
\* there exactly while it has servers.
InstancesCounted ==
  /\ pipe.live <=> servers # <<>>
  /\ pipe.live => /\ pipe.instances = Len(servers)
                  /\ pipe.instances <= Limit

\* A client whose FSCTL_PIPE_WAIT is pending has not missed a listening
\* server, and waits only for a pipe that exists.
NoMissedListen ==
  \A w \in Waiter : wait[w] = "pending" =>
    pipe.live /\ \A s \in Server : state[s] # "wait_open"

\* pipe_server_flush and check_flushed: a flush ends when the client has read
\* everything, or with the connection.  The outcome of a wait is the one that
\* ended it: a timer that fires after the wake-up does not change what the
\* client has been told.
OutcomesHonest ==
  [][/\ \A s \in Server : event[s] /\ ~event'[s] =>
          ~unread[s] \/ state'[s] # "connected_server"
     /\ \A w \in Waiter : wait[w] \in Outcome => wait'[w] \in {wait[w], "none"}]_vars

\* A flush ends once the client has read everything, unless more is written.
FlushEnds == \A s \in Server : event[s] ~> (~event[s] \/ unread[s])

=============================================================================

-------------------------- MODULE NamedPipe_proofs --------------------------
(***************************************************************************)
(* For any servers, clients and waiters: the state of a server agrees with  *)
(* its fd, its client and its listen operation, so that the assertions of   *)
(* named_pipe.c hold; the instances are counted; no waiting client misses a *)
(* server; and what an operation reports is what happened to the pipe.  The *)
(* first is inductive once the types of the functions it speaks of are      *)
(* added; the counter needs that the list holds each server that exists     *)
(* once; the waiters need both.                                             *)
(***************************************************************************)
EXTENDS NamedPipe, SequenceTheorems, WellFoundedInduction, TLAPS

\* The types the argument needs; the pipe, its list and its waiters are free.
Types ==
  /\ state \in [Server -> ServerState \cup {"none"}]
  /\ client \in [Server -> Client \cup {None}]
  /\ fd \in [Server -> BOOLEAN]
  /\ flushPoll \in [Server -> BOOLEAN]
  /\ unread \in [Server -> BOOLEAN]
  /\ listen \in [Server -> {"none", "pending", "success", "closed"}]
  /\ open \in [Client -> BOOLEAN]
  /\ clientFd \in [Client -> BOOLEAN]
  /\ server \in [Client -> Server \cup {None}]

IInv == Types /\ EndsMatch /\ ListenPending

\* EndsMatch for one server and for one client.
ServerOK(s) ==
  /\ fd[s] <=> state[s] \in {"connected_server", "wait_disconnect"}
  /\ client[s] # None <=> state[s] \in {"connected_server", "disconnected_server"}
  /\ client[s] # None =>
       /\ open[client[s]] /\ server[client[s]] = s
       /\ clientFd[client[s]] <=> state[s] = "connected_server"
  /\ flushPoll[s] => state[s] = "connected_server"

ClientOK(c) ==
  /\ server[c] # None => open[c] /\ client[server[c]] = c
  /\ clientFd[c] => server[c] # None

LEMMA EndsMatchParts ==
  EndsMatch <=> (\A s \in Server : ServerOK(s)) /\ (\A c \in Client : ClientOK(c))
BY DEF EndsMatch, ServerOK, ClientOK

LEMMA InitIInv == Init => IInv
BY NamedPipeAssumption
DEF Init, IInv, Types, EndsMatch, ListenPending, ServerState

LEMMA CreateIInv ==
  ASSUME IInv, NEW s \in Server, NEW max, NEW share, Create(s, max, share)
  PROVE  IInv'
<1>1. Types'
  BY DEF IInv, Types, Create, ServerState, flushVars, clientVars
<1>2. ASSUME NEW x \in Server PROVE ServerOK(x)'
  BY EndsMatchParts DEF IInv, Types, Create, ServerState, ServerOK, flushVars, clientVars
<1>3. ASSUME NEW c \in Client PROVE ClientOK(c)'
  BY EndsMatchParts DEF IInv, Types, Create, ServerState, ClientOK, flushVars, clientVars
<1>4. ListenPending'
  BY DEF IInv, Types, Create, ServerState, ListenPending
<1> QED
  BY <1>1, <1>2, <1>3, <1>4, EndsMatchParts DEF IInv, EndsMatch, ServerOK, ClientOK

LEMMA ListenIInv ==
  ASSUME IInv, NEW s \in Server, Listen(s)
  PROVE  IInv'
<1>1. Types'
  BY DEF IInv, Types, Listen, ServerState, flushVars, clientVars
<1>2. ASSUME NEW x \in Server PROVE ServerOK(x)'
  BY EndsMatchParts DEF IInv, Types, Listen, ServerState, ServerOK, flushVars, clientVars
<1>3. ASSUME NEW c \in Client PROVE ClientOK(c)'
  BY EndsMatchParts DEF IInv, Types, Listen, ServerState, ClientOK, flushVars, clientVars
<1>4. ListenPending'
  BY DEF IInv, Types, Listen, ServerState, ListenPending
<1> QED
  BY <1>1, <1>2, <1>3, <1>4, EndsMatchParts DEF IInv, EndsMatch, ServerOK, ClientOK

LEMMA DisconnectIInv ==
  ASSUME IInv, NEW s \in Server, Disconnect(s)
  PROVE  IInv'
<1>1. Types'
  BY NamedPipeAssumption DEF IInv, Types, Disconnect, NotifyEmpty, DoDisconnect, ServerState
<1>2. ASSUME NEW x \in Server PROVE ServerOK(x)'
  <2>1. CASE x = s
    <3>1. ServerOK(s)
      BY EndsMatchParts DEF IInv
    <3>2. /\ ~fd'[s] /\ client' = client /\ open' = open /\ server' = server
          /\ client[s] # None => ~clientFd'[client[s]]
      BY DEF IInv, Types, Disconnect, DoDisconnect
    <3>3. CASE state[s] = "connected_server"
      <4>1. state'[s] = "disconnected_server" /\ ~flushPoll'[s]
        BY <3>3 DEF IInv, Types, Disconnect, NotifyEmpty
      <4> QED
        BY <2>1, <3>1, <3>2, <3>3, <4>1 DEF ServerOK
    <3>4. CASE state[s] = "wait_disconnect"
      <4>1. state'[s] = "wait_connect" /\ flushPoll' = flushPoll
        BY <3>4 DEF IInv, Types, Disconnect
      <4> QED
        BY <2>1, <3>1, <3>2, <3>4, <4>1 DEF ServerOK
    <3> QED
      BY <3>3, <3>4 DEF Disconnect
  <2>2. CASE x # s
    <3>1. ServerOK(x) /\ ServerOK(s)
      BY EndsMatchParts DEF IInv
    <3>2. fd'[x] = fd[x] /\ state'[x] = state[x] /\ client' = client /\ flushPoll'[x] = flushPoll[x]
      BY <2>2 DEF IInv, Types, Disconnect, NotifyEmpty, DoDisconnect
    <3>3. open' = open /\ server' = server
      BY DEF Disconnect
    <3>4. client[x] # None => client[x] # client[s]
      BY <2>2, <3>1 DEF ServerOK
    <3>5. client[x] # None => client[x] \in Client /\ clientFd'[client[x]] = clientFd[client[x]]
      BY <3>4 DEF IInv, Types, Disconnect, DoDisconnect
    <3> QED
      BY <3>1, <3>2, <3>3, <3>5 DEF ServerOK
  <2> QED
    BY <2>1, <2>2
<1>3. ASSUME NEW c0 \in Client PROVE ClientOK(c0)'
  BY EndsMatchParts, NamedPipeAssumption DEF IInv, Types, Disconnect, NotifyEmpty, DoDisconnect, ServerState, ServerOK, ClientOK
<1>4. ListenPending'
  BY DEF IInv, Types, Disconnect, NotifyEmpty, DoDisconnect, ServerState, ListenPending
<1> QED
  BY <1>1, <1>2, <1>3, <1>4, EndsMatchParts DEF IInv, EndsMatch, ServerOK, ClientOK

LEMMA CloseServerIInv ==
  ASSUME IInv, NEW s \in Server, CloseServer(s)
  PROVE  IInv'
<1>1. ServerOK(s) /\ (\A x \in Server : ServerOK(x)) /\ (\A c \in Client : ClientOK(c))
  BY EndsMatchParts DEF IInv
<1>2. /\ state' = [state EXCEPT ![s] = "none"]
      /\ client' = [client EXCEPT ![s] = None]
      /\ server' = [c \in Client |-> IF client[s] = c THEN None ELSE server[c]]
      /\ open' = open
  BY DEF CloseServer
<1>3. listen' = [listen EXCEPT ![s] = IF @ = "pending" THEN "closed" ELSE @]
  BY DEF CloseServer, EndListen
<1>4. /\ fd' = [fd EXCEPT ![s] = FALSE]
      /\ flushPoll' = [flushPoll EXCEPT ![s] = FALSE]
      /\ clientFd' = [c \in Client |-> clientFd[c] /\ client[s] # c]
      /\ unread' \in [Server -> BOOLEAN]
  <2>1. CASE fd[s]
    BY <2>1 DEF CloseServer, NotifyEmpty, DoDisconnect, IInv, Types
  <2>2. CASE ~fd[s]
    <3>1. fd' = fd /\ flushPoll' = flushPoll /\ clientFd' = clientFd /\ unread' = unread
      BY <2>2 DEF CloseServer
    <3>2. ~flushPoll[s]
      BY <1>1, <2>2 DEF ServerOK
    <3>3. \A c \in Client : client[s] = c => ~clientFd[c]
      BY <1>1, <2>2, NamedPipeAssumption DEF ServerOK
    <3> QED
      BY <2>2, <3>1, <3>2, <3>3 DEF IInv, Types
  <2> QED
    BY <2>1, <2>2
<1>5. Types'
  BY <1>2, <1>3, <1>4 DEF IInv, Types
<1>6. ASSUME NEW x \in Server PROVE ServerOK(x)'
  BY <1>1, <1>2, <1>4 DEF IInv, Types, ServerOK
<1>7. ASSUME NEW c \in Client PROVE ClientOK(c)'
  BY <1>1, <1>2, <1>4 DEF IInv, Types, ServerOK, ClientOK
<1>8. ListenPending'
  BY <1>2, <1>3 DEF IInv, Types, ListenPending
<1> QED
  BY <1>5, <1>6, <1>7, <1>8, EndsMatchParts DEF IInv, EndsMatch, ServerOK, ClientOK

LEMMA OpenIInv ==
  ASSUME IInv, NEW c \in Client, NEW s \in Server, NEW access, Open(c, s, access)
  PROVE  IInv'
<1>1. Types'
  BY NamedPipeAssumption DEF IInv, Types, Open, Available, IsFirst, EndListen, ServerState, flushVars
<1>2. ASSUME NEW x \in Server PROVE ServerOK(x)'
  BY EndsMatchParts, NamedPipeAssumption DEF IInv, Types, Open, Available, IsFirst, EndListen, ServerState, flushVars, ServerOK, ClientOK
<1>3. ASSUME NEW c0 \in Client PROVE ClientOK(c0)'
  BY EndsMatchParts, NamedPipeAssumption DEF IInv, Types, Open, Available, IsFirst, EndListen, ServerState, flushVars, ServerOK, ClientOK
<1>4. ListenPending'
  BY DEF IInv, Types, Open, Available, IsFirst, EndListen, ServerState, flushVars, ListenPending
<1> QED
  BY <1>1, <1>2, <1>3, <1>4, EndsMatchParts DEF IInv, EndsMatch, ServerOK, ClientOK

LEMMA CloseClientIInv ==
  ASSUME IInv, NEW c \in Client, CloseClient(c)
  PROVE  IInv'
<1>1. Types'
  <2>1. /\ open' \in [Client -> BOOLEAN] /\ clientFd' \in [Client -> BOOLEAN]
        /\ server' \in [Client -> Server \cup {None}]
        /\ UNCHANGED <<fd, unread, listen>>
    BY DEF IInv, Types, CloseClient
  <2>2. CASE server[c] = None
    <3>1. UNCHANGED <<state, client, flushPoll>>
      BY <2>2 DEF CloseClient
    <3> QED BY <2>1, <3>1 DEF IInv, Types
  <2>3. CASE server[c] # None
    <3>1. server[c] \in Server
      BY <2>3 DEF IInv, Types
    <3>2. flushPoll' \in [Server -> BOOLEAN] /\ client' \in [Server -> Client \cup {None}]
      BY <2>3, <3>1 DEF IInv, Types, CloseClient, NotifyEmpty
    <3>3. state' \in [Server -> ServerState \cup {"none"}]
      BY <2>3, <3>1 DEF IInv, Types, CloseClient, ServerState
    <3> QED BY <2>1, <3>2, <3>3 DEF IInv, Types
  <2> QED BY <2>2, <2>3
<1>2. ASSUME NEW x \in Server PROVE ServerOK(x)'
  BY EndsMatchParts, NamedPipeAssumption DEF IInv, Types, CloseClient, NotifyEmpty, ServerState, ServerOK, ClientOK
<1>3. ASSUME NEW c0 \in Client PROVE ClientOK(c0)'
  BY EndsMatchParts, NamedPipeAssumption DEF IInv, Types, CloseClient, NotifyEmpty, ServerState, ServerOK, ClientOK
<1>4. ListenPending'
  BY DEF IInv, Types, CloseClient, NotifyEmpty, ServerState, ListenPending
<1> QED
  BY <1>1, <1>2, <1>3, <1>4, EndsMatchParts DEF IInv, EndsMatch, ServerOK, ClientOK

LEMMA FlushIInv ==
  ASSUME IInv, NEW s \in Server, Flush(s) \/ CheckFlushed(s)
  PROVE  IInv'
<1>1. Types'
  BY NamedPipeAssumption DEF IInv, Types, Flush, CheckFlushed, ServerState, clientVars
<1>2. ASSUME NEW x \in Server PROVE ServerOK(x)'
  BY EndsMatchParts, NamedPipeAssumption DEF IInv, Types, Flush, CheckFlushed, ServerState, clientVars, ServerOK, ClientOK
<1>3. ASSUME NEW c0 \in Client PROVE ClientOK(c0)'
  BY EndsMatchParts, NamedPipeAssumption DEF IInv, Types, Flush, CheckFlushed, ServerState, clientVars, ServerOK, ClientOK
<1>4. ListenPending'
  BY DEF IInv, Types, Flush, CheckFlushed, ServerState, clientVars, ListenPending
<1> QED
  BY <1>1, <1>2, <1>3, <1>4, EndsMatchParts DEF IInv, EndsMatch, ServerOK, ClientOK

\* Data and waits leave what the invariant speaks of alone, but for unread.
LEMMA OtherIInv ==
  ASSUME IInv,
         UNCHANGED <<state, client, fd, flushPoll, listen, open, server, clientFd>>,
         unread' \in [Server -> BOOLEAN]
  PROVE  IInv'
BY DEF IInv, Types, EndsMatch, ListenPending

LEMMA NextIInv == IInv /\ [Next]_vars => IInv'
<1> SUFFICES ASSUME IInv, [Next]_vars PROVE IInv'
  OBVIOUS
<1>1. ASSUME NEW s \in Server, ServerNext(s) PROVE IInv'
  <2>1. CASE \E max \in MaxInstances, share \in Sharing : Create(s, max, share)
    BY <2>1, CreateIInv
  <2>2. CASE Listen(s)
    BY <2>2, ListenIInv
  <2>3. CASE Disconnect(s)
    BY <2>3, DisconnectIInv
  <2>4. CASE CloseServer(s)
    BY <2>4, CloseServerIInv
  <2>5. CASE Write(s)
    BY <2>5, OtherIInv DEF Write, clientVars, IInv, Types
  <2>6. CASE Flush(s) \/ CheckFlushed(s)
    BY <2>6, FlushIInv
  <2> QED
    BY <1>1, <2>1, <2>2, <2>3, <2>4, <2>5, <2>6 DEF ServerNext
<1>2. ASSUME NEW c \in Client, ClientNext(c) PROVE IInv'
  <2>1. CASE \E s \in Server, access \in Access : Open(c, s, access)
    BY <2>1, OpenIInv
  <2>2. CASE CloseClient(c)
    BY <2>2, CloseClientIInv
  <2>3. CASE Read(c)
    BY <2>3, OtherIInv DEF Read, clientVars, IInv, Types
  <2> QED
    BY <1>2, <2>1, <2>2, <2>3 DEF ClientNext
<1>3. ASSUME NEW w \in Waiter, WaiterNext(w) PROVE IInv'
  BY <1>3, OtherIInv
  DEF WaiterNext, Wait, WaitTimeout, WaitDone, flushVars, clientVars, IInv, Types
<1>4. CASE UNCHANGED vars
  BY <1>4, OtherIInv DEF vars, flushVars, clientVars, IInv, Types
<1> QED
  BY <1>1, <1>2, <1>3, <1>4 DEF Next

\* For any servers, clients, waiters, limits and sharing modes: the state of a
\* pipe server agrees with its fd, its client, its flush and its listen
\* operation, which is what the assertions of named_pipe.c say.
THEOREM PipeStates == Spec => []StatesMatch
<1>1. IInv => StatesMatch
  BY DEF IInv, StatesMatch
<1> QED
  BY InitIInv, NextIInv, <1>1, PTL DEF Spec

-----------------------------------------------------------------------------
(* The list of servers and the counter.                                     *)

\* What the counting rests on: the list holds each existing server once.
ListInv ==
  /\ pipe \in [live : BOOLEAN, instances : Nat,
               maxinstances : MaxInstances \cup {0}, sharing : Sharing \cup {{}}]
  /\ servers \in Seq(Server)
  /\ \A s \in Server : state[s] # "none" <=> \E i \in 1 .. Len(servers) : servers[i] = s
  /\ \A i, j \in 1 .. Len(servers) : servers[i] = servers[j] => i = j
  /\ InstancesCounted

\* Taking one entry out of a list.
LEMMA EntryRemoved ==
  ASSUME NEW S, NEW q \in Seq(S), NEW i \in 1 .. Len(q)
  PROVE  /\ RemoveEntry(q, i) \in Seq(S)
         /\ Len(RemoveEntry(q, i)) = Len(q) - 1
         /\ \A j \in 1 .. Len(q) - 1 :
              RemoveEntry(q, i)[j] = IF j < i THEN q[j] ELSE q[j + 1]
<1> DEFINE r == RemoveEntry(q, i)
           a == SubSeq(q, 1, i - 1)
           b == SubSeq(q, i + 1, Len(q))
<1>1. Len(q) \in Nat /\ i \in Int /\ \A j \in 1 .. Len(q) : q[j] \in S
  OBVIOUS
<1>2. /\ a \in Seq(S) /\ Len(a) = i - 1
      /\ \A j \in 1 .. i - 1 : a[j] = q[j]
  BY <1>1, SubSeqProperties
<1>3. /\ b \in Seq(S) /\ Len(b) = Len(q) - i
      /\ \A j \in 1 .. Len(q) - i : b[j] = q[i + j]
  BY <1>1, SubSeqProperties
<1>4. r = a \o b
  BY DEF RemoveEntry
<1> HIDE DEF r, a, b
<1>5. /\ a \o b \in Seq(S) /\ Len(a \o b) = Len(a) + Len(b)
      /\ \A j \in 1 .. Len(a) + Len(b) : (a \o b)[j] = IF j <= Len(a) THEN a[j] ELSE b[j - Len(a)]
  <2>1. a \in Seq(S) /\ b \in Seq(S)
    BY <1>2, <1>3
  <2> QED
    BY <2>1, ConcatProperties, Zenon
<1>6. r \in Seq(S) /\ Len(r) = Len(q) - 1
  BY <1>1, <1>2, <1>3, <1>4, <1>5
<1>7. ASSUME NEW j \in 1 .. Len(q) - 1 PROVE r[j] = IF j < i THEN q[j] ELSE q[j + 1]
  <2>1. j \in 1 .. Len(a) + Len(b)
    BY <1>1, <1>2, <1>3
  <2>2. r[j] = IF j <= Len(a) THEN a[j] ELSE b[j - Len(a)]
    BY <1>4, <1>5, <2>1
  <2>3. CASE j < i
    <3>1. j <= Len(a) /\ j \in 1 .. i - 1
      BY <1>1, <1>2, <2>3
    <3> QED
      BY <1>2, <2>2, <2>3, <3>1
  <2>4. CASE ~(j < i)
    <3>1. ~(j <= Len(a)) /\ j - (i - 1) \in 1 .. Len(q) - i /\ i + (j - (i - 1)) = j + 1
      BY <1>1, <1>2, <2>4
    <3>2. b[j - (i - 1)] = q[i + (j - (i - 1))]
      BY <1>3, <3>1
    <3> QED
      BY <1>2, <2>2, <2>4, <3>1, <3>2
  <2> QED
    BY <2>3, <2>4
<1> QED
  BY <1>6, <1>7 DEF r

LEMMA CreateList ==
  ASSUME IInv, ListInv, NEW s \in Server, NEW max \in MaxInstances, NEW share \in Sharing,
         Create(s, max, share)
  PROVE  ListInv'
<1> DEFINE p == Pipe(max, share)
<1>1. /\ servers' \in Seq(Server) /\ Len(servers) \in Nat /\ Len(servers') = Len(servers) + 1
      /\ \A i \in 1 .. Len(servers) + 1 : servers'[i] = IF i = 1 THEN s ELSE servers[i - 1]
  <2>1. servers' = <<s>> \o servers /\ <<s>> \in Seq(Server) /\ servers \in Seq(Server)
    BY DEF Create, ListInv
  <2> QED
    BY <2>1, ConcatProperties
<1>2. /\ p \in [live : BOOLEAN, instances : Nat,
                maxinstances : MaxInstances \cup {0}, sharing : Sharing \cup {{}}]
      /\ p.live /\ p.instances = Len(servers)
      /\ Len(servers) + 1 <= IF p.maxinstances = 0 THEN 1 ELSE p.maxinstances
  <2>1. CASE pipe.live
    BY <2>1, NamedPipeAssumption DEF ListInv, InstancesCounted, Create, MayJoin, Pipe
  <2>2. CASE ~pipe.live
    BY <2>2, NamedPipeAssumption DEF ListInv, InstancesCounted, Create, Pipe
  <2> QED
    BY <2>1, <2>2
<1>3. pipe' = [p EXCEPT !.instances = @ + 1] /\ state' = [state EXCEPT ![s] = "idle_server"] /\ state[s] = "none"
  BY DEF Create
<1> HIDE DEF p
<1>4. /\ pipe' \in [live : BOOLEAN, instances : Nat,
                    maxinstances : MaxInstances \cup {0}, sharing : Sharing \cup {{}}]
      /\ pipe'.live /\ pipe'.instances = Len(servers')
      /\ pipe'.instances <= IF pipe'.maxinstances = 0 THEN 1 ELSE pipe'.maxinstances
  BY <1>1, <1>2, <1>3
<1>5. ASSUME NEW x \in Server
      PROVE  state'[x] # "none" <=> \E i \in 1 .. Len(servers') : servers'[i] = x
  <2>1. ASSUME NEW i \in 1 .. Len(servers'), servers'[i] = x, x # s
        PROVE  \E k \in 1 .. Len(servers) : servers[k] = x
    <3>1. i # 1 /\ servers[i - 1] = x /\ i - 1 \in 1 .. Len(servers)
      BY <1>1, <2>1
    <3> QED BY <3>1
  <2>2. ASSUME NEW i \in 1 .. Len(servers), servers[i] = x
        PROVE  \E k \in 1 .. Len(servers') : servers'[k] = x
    <3>1. i + 1 \in 1 .. Len(servers') /\ i + 1 # 1 /\ (i + 1) - 1 = i
      BY <1>1
    <3>2. servers'[i + 1] = x
      BY <1>1, <2>2, <3>1
    <3> QED BY <3>1, <3>2
  <2>3. 1 \in 1 .. Len(servers') /\ servers'[1] = s
    BY <1>1
  <2>4. state'[x] # "none" <=> x = s \/ state[x] # "none"
    BY <1>3 DEF IInv, Types
  <2> QED
    BY <2>1, <2>2, <2>3, <2>4 DEF ListInv
<1>6. ASSUME NEW i \in 1 .. Len(servers'), NEW j \in 1 .. Len(servers'), servers'[i] = servers'[j]
      PROVE  i = j
  <2>1. \A k \in 1 .. Len(servers) : servers[k] # s
    BY <1>3 DEF ListInv
  <2>2. /\ servers'[i] = IF i = 1 THEN s ELSE servers[i - 1]
        /\ servers'[j] = IF j = 1 THEN s ELSE servers[j - 1]
        /\ i # 1 => i - 1 \in 1 .. Len(servers)
        /\ j # 1 => j - 1 \in 1 .. Len(servers)
    BY <1>1
  <2>3. i = 1 <=> j = 1
    BY <1>6, <2>1, <2>2
  <2>4. \A k, l \in 1 .. Len(servers) : servers[k] = servers[l] => k = l
    BY DEF ListInv
  <2>5. i # 1 => i - 1 = j - 1
    BY <1>6, <2>2, <2>3, <2>4
  <2> QED
    BY <2>3, <2>5
<1>7. servers' # <<>>
  BY <1>1 DEF ListInv
<1> QED
  BY <1>1, <1>4, <1>5, <1>6, <1>7 DEF ListInv, InstancesCounted, Limit

LEMMA CloseServerList ==
  ASSUME IInv, ListInv, NEW s \in Server, CloseServer(s)
  PROVE  ListInv'
<1> DEFINE n == Len(servers)
           i0 == CHOOSE i \in DOMAIN servers : servers[i] = s
<1>1. n \in Nat /\ DOMAIN servers = 1 .. n /\ servers \in Seq(Server)
  BY DEF ListInv
<1>2. i0 \in 1 .. n /\ servers[i0] = s
  BY <1>1 DEF CloseServer, ListInv
<1>3. servers' = RemoveEntry(servers, i0)
  BY DEF CloseServer, Unlink
<1> HIDE DEF i0
<1>4. /\ servers' \in Seq(Server) /\ Len(servers') = n - 1
      /\ \A j \in 1 .. n - 1 : servers'[j] = IF j < i0 THEN servers[j] ELSE servers[j + 1]
  BY <1>1, <1>2, <1>3, EntryRemoved
<1>5. \A k, l \in 1 .. n : servers[k] = servers[l] => k = l
  BY DEF ListInv
<1> HIDE DEF n
<1>6. ASSUME NEW x \in Server
      PROVE  state'[x] # "none" <=> \E i \in 1 .. Len(servers') : servers'[i] = x
  <2>1. ASSUME NEW i \in 1 .. Len(servers'), servers'[i] = x
        PROVE  x # s /\ \E k \in 1 .. n : servers[k] = x
    <3>1. i \in 1 .. n - 1 /\ i \in 1 .. n /\ i + 1 \in 1 .. n
      BY <1>1, <1>4
    <3>2. x = IF i < i0 THEN servers[i] ELSE servers[i + 1]
      BY <1>4, <2>1, <3>1
    <3>3. CASE i < i0
      BY <1>2, <1>5, <3>1, <3>2, <3>3
    <3>4. CASE ~(i < i0)
      <4>1. i + 1 # i0 /\ x = servers[i + 1]
        BY <1>2, <3>1, <3>2, <3>4
      <4> QED
        BY <1>2, <1>5, <3>1, <4>1
    <3> QED
      BY <3>3, <3>4
  <2>2. ASSUME NEW k \in 1 .. n, servers[k] = x, x # s
        PROVE  \E i \in 1 .. Len(servers') : servers'[i] = x
    <3>1. k # i0
      BY <1>2, <2>2
    <3>2. CASE k < i0
      <4>1. k \in 1 .. n - 1
        BY <1>1, <1>2, <3>2
      <4>2. servers'[k] = x
        BY <1>4, <2>2, <3>2, <4>1
      <4> QED
        BY <1>4, <4>1, <4>2
    <3>3. CASE ~(k < i0)
      <4>1. k - 1 \in 1 .. n - 1 /\ ~(k - 1 < i0) /\ (k - 1) + 1 = k
        BY <1>1, <1>2, <3>1, <3>3
      <4>2. servers'[k - 1] = x
        BY <1>4, <2>2, <4>1
      <4> QED
        BY <1>4, <4>1, <4>2
    <3> QED
      BY <3>2, <3>3
  <2>3. state'[x] # "none" <=> x # s /\ state[x] # "none"
    BY DEF CloseServer, IInv, Types
  <2>4. state[x] # "none" <=> \E k \in 1 .. n : servers[k] = x
    BY DEF ListInv, n
  <2> QED
    BY <2>1, <2>2, <2>3, <2>4
<1>7. ASSUME NEW i \in 1 .. Len(servers'), NEW j \in 1 .. Len(servers'), servers'[i] = servers'[j]
      PROVE  i = j
  <2> DEFINE o(k) == IF k < i0 THEN k ELSE k + 1
  <2>1. /\ i \in 1 .. n - 1 /\ j \in 1 .. n - 1
        /\ o(i) \in 1 .. n /\ o(j) \in 1 .. n
    BY <1>1, <1>2, <1>4
  <2>2. servers'[i] = servers[o(i)] /\ servers'[j] = servers[o(j)]
    BY <1>4, <2>1
  <2>3. o(i) = o(j)
    BY <1>5, <1>7, <2>1, <2>2
  <2> QED
    BY <1>2, <2>1, <2>3
<1>8. CASE servers' = <<>>
  <2>1. pipe' = NoPipe
    BY <1>8 DEF CloseServer
  <2> QED
    BY <1>4, <1>6, <1>7, <1>8, <2>1 DEF ListInv, InstancesCounted, NoPipe
<1>9. CASE servers' # <<>>
  <2>1. pipe' = [pipe EXCEPT !.instances = @ - 1]
    BY <1>9 DEF CloseServer
  <2>2. /\ pipe.live /\ pipe.instances = n /\ pipe.instances <= Limit
    <3>1. servers # <<>>
      BY <1>1, <1>2 DEF n
    <3> QED
      BY <3>1 DEF ListInv, InstancesCounted, n
  <2>3. n - 1 \in Nat
    BY <1>1, <1>2
  <2>4. /\ pipe' \in [live : BOOLEAN, instances : Nat,
                      maxinstances : MaxInstances \cup {0}, sharing : Sharing \cup {{}}]
        /\ pipe'.live /\ pipe'.instances = n - 1
        /\ pipe'.maxinstances = pipe.maxinstances /\ pipe.maxinstances \in Nat
    BY <2>1, <2>2, <2>3, NamedPipeAssumption DEF ListInv
  <2>5. pipe'.instances <= Limit'
    BY <1>1, <2>2, <2>4 DEF Limit
  <2> QED
    BY <1>4, <1>6, <1>7, <1>9, <2>4, <2>5 DEF ListInv, InstancesCounted
<1> QED
  BY <1>8, <1>9

\* Every other step leaves the pipe and its list alone, and creates and
\* destroys no server.
LEMMA OtherList ==
  ASSUME ListInv, UNCHANGED <<pipe, servers>>,
         \A s \in Server : state'[s] # "none" <=> state[s] # "none"
  PROVE  ListInv'
BY DEF ListInv, InstancesCounted, Limit

-----------------------------------------------------------------------------
(* The clients that wait for a server.                                      *)

WaitInv ==
  /\ wait \in [Waiter -> {"none", "pending"} \cup Outcome]
  /\ NoMissedListen

\* If a server is in state st, find_available_server meets a first one.
LEMMA FirstExists ==
  ASSUME ListInv, NEW s \in Server, NEW st, state[s] = st, st # "none"
  PROVE  \E x \in Server : IsFirst(x, st)
<1> DEFINE T == {i \in 1 .. Len(servers) : state[servers[i]] = st}
<1>1. Len(servers) \in Nat /\ DOMAIN servers = 1 .. Len(servers)
      /\ \A i \in 1 .. Len(servers) : servers[i] \in Server
  BY DEF ListInv
<1>2. T \subseteq Nat /\ T # {}
  BY <1>1 DEF ListInv
<1>3. PICK m \in T : \A k \in T : ~(<<k, m>> \in OpToRel(<, Nat))
  BY <1>2, WFMin, NatLessThanWellFounded
<1>4. \A k \in T : ~(k < m)
  BY <1>2, <1>3 DEF OpToRel
<1>5. \A j \in 1 .. m - 1 : state[servers[j]] # st
  BY <1>1, <1>4
<1>6. m \in DOMAIN servers /\ servers[m] \in Server /\ state[servers[m]] = st
  BY <1>1, <1>3
<1> QED
  BY <1>5, <1>6 DEF IsFirst

LEMMA WaitStep ==
  ASSUME IInv, ListInv, WaitInv, NEW w \in Waiter, NEW timed \in BOOLEAN, Wait(w, timed)
  PROVE  WaitInv'
<1>1. \A s \in Server : state[s] # "wait_open"
  BY FirstExists DEF Wait, Available
<1> QED
  BY <1>1 DEF Wait, WaitInv, NoMissedListen, Outcome

\* No step but Listen makes a server listen; whoever waits stays behind only
\* while the pipe exists.
LEMMA WaitKept ==
  ASSUME WaitInv, wait' \in [Waiter -> {"none", "pending"} \cup Outcome],
         \A w \in Waiter : wait'[w] = "pending" => wait[w] = "pending",
         (\E w \in Waiter : wait'[w] = "pending") /\ pipe.live => pipe'.live,
         \A s \in Server : state'[s] = "wait_open" => state[s] = "wait_open"
  PROVE  WaitInv'
BY DEF WaitInv, NoMissedListen

PipeInv == IInv /\ ListInv /\ WaitInv

LEMMA InitPipeInv == Init => PipeInv
<1> SUFFICES ASSUME Init PROVE PipeInv
  OBVIOUS
<1>1. ListInv
  BY DEF Init, ListInv, InstancesCounted, NoPipe
<1>2. WaitInv
  BY DEF Init, WaitInv, NoMissedListen
<1> QED
  BY InitIInv, <1>1, <1>2 DEF PipeInv

LEMMA NextPipeInv == PipeInv /\ [Next]_vars => PipeInv'
<1> SUFFICES ASSUME PipeInv, [Next]_vars PROVE ListInv' /\ WaitInv'
  BY NextIInv DEF PipeInv
<1> USE DEF PipeInv
<1> DEFINE Same == UNCHANGED <<pipe, servers, state, wait>>
<1>s. ASSUME Same PROVE ListInv' /\ WaitInv'
  BY <1>s, OtherList, WaitKept DEF WaitInv
<1>1. ASSUME NEW s \in Server, ServerNext(s) PROVE ListInv' /\ WaitInv'
  <2>1. ASSUME NEW max \in MaxInstances, NEW share \in Sharing, Create(s, max, share)
        PROVE  ListInv' /\ WaitInv'
    <3>1. pipe'.live
      BY <2>1 DEF Create, Pipe, ListInv
    <3>2. wait' = wait /\ \A x \in Server : state'[x] = "wait_open" => state[x] = "wait_open"
      BY <2>1 DEF Create, waitVars, IInv, Types
    <3>3. WaitInv'
      BY <3>1, <3>2, WaitKept DEF WaitInv
    <3> QED
      BY <2>1, <3>3, CreateList
  <2>2. CASE Listen(s)
    <3>1. ListInv'
      BY <2>2, OtherList DEF Listen, IInv, Types
    <3>2. /\ wait' \in [Waiter -> {"none", "pending"} \cup Outcome]
          /\ \A w \in Waiter : wait'[w] # "pending"
      BY <2>2 DEF Listen, WakeWaiters, WaitInv, Outcome
    <3> QED
      BY <3>1, <3>2 DEF WaitInv, NoMissedListen
  <2>3. CASE Disconnect(s)
    <3>1. UNCHANGED <<pipe, servers, wait>>
      BY <2>3 DEF Disconnect, waitVars
    <3>2. \A x \in Server : /\ state'[x] # "none" <=> state[x] # "none"
                            /\ state'[x] = "wait_open" => state[x] = "wait_open"
      BY <2>3 DEF Disconnect, IInv, Types
    <3> QED
      BY <3>1, <3>2, OtherList, WaitKept DEF WaitInv
  <2>4. CASE CloseServer(s)
    <3>1. ListInv'
      BY <2>4, CloseServerList
    <3>2. \A x \in Server : state'[x] = "wait_open" => state[x] = "wait_open"
      BY <2>4 DEF CloseServer, IInv, Types
    <3>3. CASE servers' = <<>>
      <4>1. /\ wait' \in [Waiter -> {"none", "pending"} \cup Outcome]
            /\ \A w \in Waiter : wait'[w] # "pending"
        BY <2>4, <3>3 DEF CloseServer, WakeWaiters, WaitInv, Outcome
      <4> QED
        BY <3>1, <4>1 DEF WaitInv, NoMissedListen
    <3>4. CASE servers' # <<>>
      <4>1. wait' = wait
        BY <2>4, <3>4 DEF CloseServer
      <4>2. pipe'.live
        BY <3>1, <3>4 DEF ListInv, InstancesCounted
      <4> QED
        BY <3>1, <3>2, <4>1, <4>2, WaitKept DEF WaitInv
    <3> QED
      BY <3>3, <3>4
  <2>5. CASE Write(s) \/ Flush(s) \/ CheckFlushed(s)
    BY <1>s, <2>5 DEF Write, Flush, CheckFlushed, waitVars
  <2> QED
    BY <1>1, <2>1, <2>2, <2>3, <2>4, <2>5 DEF ServerNext
<1>2. ASSUME NEW c \in Client, ClientNext(c) PROVE ListInv' /\ WaitInv'
  <2>1. ASSUME NEW s \in Server, NEW access \in Access, Open(c, s, access)
        PROVE  ListInv' /\ WaitInv'
    <3>1. UNCHANGED <<pipe, servers, wait>>
      BY <2>1 DEF Open, waitVars
    <3>2. state[s] # "none" /\ state' = [state EXCEPT ![s] = "connected_server"]
      BY <2>1 DEF Open, Available, IsFirst
    <3>3. \A x \in Server : /\ state'[x] # "none" <=> state[x] # "none"
                            /\ state'[x] = "wait_open" => state[x] = "wait_open"
      BY <3>2 DEF IInv, Types
    <3> QED
      BY <3>1, <3>3, OtherList, WaitKept DEF WaitInv
  <2>2. CASE CloseClient(c)
    <3>1. UNCHANGED <<pipe, servers, wait>>
      BY <2>2 DEF CloseClient, waitVars
    <3>2. \A x \in Server : /\ state'[x] # "none" <=> state[x] # "none"
                            /\ state'[x] = "wait_open" => state[x] = "wait_open"
      BY <2>2 DEF CloseClient, IInv, Types
    <3> QED
      BY <3>1, <3>2, OtherList, WaitKept DEF WaitInv
  <2>3. CASE Read(c)
    BY <1>s, <2>3 DEF Read, waitVars
  <2> QED
    BY <1>2, <2>1, <2>2, <2>3 DEF ClientNext
<1>3. ASSUME NEW w \in Waiter, WaiterNext(w) PROVE ListInv' /\ WaitInv'
  <2>1. UNCHANGED <<pipe, servers, state>>
    BY <1>3 DEF WaiterNext, Wait, WaitTimeout, WaitDone
  <2>2. ListInv'
    BY <2>1, OtherList
  <2>3. CASE \E timed \in BOOLEAN : Wait(w, timed)
    BY <2>2, <2>3, WaitStep
  <2>4. CASE WaitTimeout(w) \/ WaitDone(w)
    <3>1. /\ wait' \in [Waiter -> {"none", "pending"} \cup Outcome]
          /\ \A x \in Waiter : wait'[x] = "pending" => wait[x] = "pending"
      BY <2>4 DEF WaitTimeout, WaitDone, WaitInv, Outcome
    <3> QED
      BY <2>1, <2>2, <3>1, WaitKept
  <2> QED
    BY <1>3, <2>3, <2>4 DEF WaiterNext
<1>4. CASE UNCHANGED vars
  BY <1>s, <1>4 DEF vars, waitVars
<1> QED
  BY <1>1, <1>2, <1>3, <1>4 DEF Next

\* For any servers and limits: the instance counter that pipe_server_destroy
\* and named_pipe_destroy assert on is the length of the list of servers, stays
\* within the limit, and the pipe exists exactly while the list is not empty.
THEOREM PipeInstances == Spec => []InstancesCounted
<1>1. PipeInv => InstancesCounted
  BY DEF PipeInv, ListInv
<1> QED
  BY InitPipeInv, NextPipeInv, <1>1, PTL DEF Spec

\* For any servers, clients and waiters: no FSCTL_PIPE_WAIT stays pending while
\* a server listens, or after the pipe has gone.
THEOREM PipeWaiters == Spec => []NoMissedListen
<1>1. PipeInv => NoMissedListen
  BY DEF PipeInv, WaitInv
<1> QED
  BY InitPipeInv, NextPipeInv, <1>1, PTL DEF Spec

-----------------------------------------------------------------------------
(* Flushes and the outcomes of waits.                                       *)

EventType == event \in [Server -> BOOLEAN]

\* What one step may do to the event of a flush and to the outcome of a wait.
FlushHonest(s) == event[s] /\ ~event'[s] => ~unread[s] \/ state'[s] # "connected_server"

WaitHonest(w) == wait[w] \in Outcome => wait'[w] \in {wait[w], "none"}

LEMMA NextFlush ==
  ASSUME IInv, EventType, [Next]_vars
  PROVE  EventType' /\ \A s \in Server : FlushHonest(s)
<1>q. ASSUME event' = event PROVE EventType' /\ \A s \in Server : FlushHonest(s)
  BY <1>q DEF EventType, FlushHonest
<1>n. ASSUME NEW s \in Server, NotifyEmpty(s), flushPoll[s] => state'[s] # "connected_server"
      PROVE  EventType' /\ \A x \in Server : FlushHonest(x)
  BY <1>n DEF NotifyEmpty, IInv, Types, EventType, FlushHonest
<1>1. ASSUME NEW s \in Server, ServerNext(s)
      PROVE  EventType' /\ \A x \in Server : FlushHonest(x)
  <2>1. CASE \/ \E max \in MaxInstances, share \in Sharing : Create(s, max, share)
             \/ Listen(s) \/ Write(s)
    BY <1>q, <2>1 DEF Create, Listen, Write, flushVars
  <2>2. CASE Disconnect(s)
    <3>1. CASE NotifyEmpty(s) /\ state' = [state EXCEPT ![s] = "disconnected_server"]
      BY <1>n, <3>1 DEF IInv, Types
    <3> QED
      BY <1>q, <2>2, <3>1 DEF Disconnect
  <2>3. CASE CloseServer(s)
    <3>1. state'[s] = "none"
      BY <2>3 DEF CloseServer, IInv, Types
    <3> QED
      BY <1>n, <1>q, <2>3, <3>1 DEF CloseServer
  <2>4. CASE Flush(s)
    BY <2>4 DEF Flush, EventType, FlushHonest
  <2>5. CASE CheckFlushed(s)
    BY <2>5 DEF CheckFlushed, EventType, FlushHonest, IInv, Types
  <2> QED
    BY <1>1, <2>1, <2>2, <2>3, <2>4, <2>5 DEF ServerNext
<1>2. ASSUME NEW c \in Client, ClientNext(c)
      PROVE  EventType' /\ \A x \in Server : FlushHonest(x)
  <2>1. CASE (\E s \in Server, access \in Access : Open(c, s, access)) \/ Read(c)
    BY <1>q, <2>1 DEF Open, Read, flushVars
  <2>2. CASE CloseClient(c)
    <3> DEFINE s == server[c]
    <3>1. CASE s = None
      BY <1>q, <2>2, <3>1 DEF CloseClient
    <3>2. CASE s # None
      <4>1. s \in Server /\ NotifyEmpty(s)
        BY <2>2, <3>2 DEF CloseClient, IInv, Types
      <4>2. flushPoll[s] => state'[s] # "connected_server"
        BY <2>2, <3>2, <4>1 DEF CloseClient, IInv, Types, EndsMatch
      <4> QED
        BY <1>n, <4>1, <4>2
    <3> QED
      BY <3>1, <3>2
  <2> QED
    BY <1>2, <2>1, <2>2 DEF ClientNext
<1>3. CASE (\E w \in Waiter : WaiterNext(w)) \/ UNCHANGED vars
  BY <1>q, <1>3 DEF WaiterNext, Wait, WaitTimeout, WaitDone, vars, flushVars
<1> QED
  BY <1>1, <1>2, <1>3 DEF Next

LEMMA NextOutcome ==
  ASSUME PipeInv, [Next]_vars, NEW w \in Waiter
  PROVE  WaitHonest(w)
<1>0. wait \in [Waiter -> {"none", "pending"} \cup Outcome]
  BY DEF PipeInv, WaitInv
<1>q. ASSUME wait' = wait PROVE WaitHonest(w)
  BY <1>q DEF WaitHonest
<1>k. ASSUME NEW status, WakeWaiters(status) PROVE WaitHonest(w)
  BY <1>k DEF WakeWaiters, WaitHonest, Outcome
<1>1. ASSUME NEW s \in Server, ServerNext(s) PROVE WaitHonest(w)
  BY <1>1, <1>k, <1>q
     DEF ServerNext, Create, Listen, Disconnect, CloseServer, Write, Flush, CheckFlushed, waitVars
<1>2. ASSUME NEW c \in Client, ClientNext(c) PROVE WaitHonest(w)
  BY <1>2, <1>q DEF ClientNext, Open, CloseClient, Read, waitVars
<1>3. ASSUME NEW v \in Waiter, WaiterNext(v) PROVE WaitHonest(w)
  BY <1>0, <1>3 DEF WaiterNext, Wait, WaitTimeout, WaitDone, WaitHonest, Outcome
<1>4. CASE UNCHANGED vars
  BY <1>4, <1>q DEF vars, waitVars
<1> QED
  BY <1>1, <1>2, <1>3, <1>4 DEF Next

\* For any servers, clients and waiters: check_flushed and notify_empty end a
\* flush only when the client has read everything or the connection ends, and
\* async_timeout and async_wake_up never change an outcome already given.
THEOREM PipeOutcomes == Spec => OutcomesHonest
<1> DEFINE Honest ==
             /\ \A s \in Server : event[s] /\ ~event'[s] =>
                  ~unread[s] \/ state'[s] # "connected_server"
             /\ \A w \in Waiter : wait[w] \in Outcome => wait'[w] \in {wait[w], "none"}
<1>1. Init => EventType
  BY DEF Init, EventType
<1>2. PipeInv /\ EventType /\ [Next]_vars => EventType' /\ [Honest]_vars
  BY NextFlush, NextOutcome DEF PipeInv, FlushHonest, WaitHonest
<1> QED
  BY InitPipeInv, NextPipeInv, <1>1, <1>2, PTL DEF Spec, OutcomesHonest
=============================================================================

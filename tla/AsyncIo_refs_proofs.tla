------------------------ MODULE AsyncIo_refs_proofs -------------------------
(***************************************************************************)
(* The accounts of AsyncIo: for any number of threads and operations, when *)
(* a context runs to its end (Smp = FALSE), every reference on every       *)
(* operation has one holder, and the calls still to come are in an order in*)
(* which none works on a freed operation.  This is Core, the first part of *)
(* the invariant of AsyncIo; CoreNext proves that every step preserves it. *)
(*                                                                         *)
(* The calls of the two contexts are taken as one list, Todo, since one of *)
(* them is idle.  What the proofs use of counting the elements of a list is*)
(* the assumption ListFacts of the lemmas that need it; AsyncIo_proofs     *)
(* proves it (ListsHold), so that this module can do without the library of*)
(* finite sets.                                                            *)
(***************************************************************************)
EXTENDS AsyncIo, TLAPS

-----------------------------------------------------------------------------
(* Lists of calls.                                                         *)

\* The list q has the element e.
Has(q, e) == \E k \in DOMAIN q : q[k] = e
\* How often the list q has the element e.
Count(q, e) == Cardinality({k \in DOMAIN q : q[k] = e})

\* The list q without the element a.
Without(q, a) == Keep(q, {i \in DOMAIN q : q[i] # a})

\* The list q has no element twice.
Distinct(q) == \A i, j \in DOMAIN q : q[i] = q[j] => i = j

\* The list v is w with its first element replaced by the elements of p.
Replaced(v, w, p) ==
  /\ Len(v) = Len(p) + Len(w) - 1
  /\ \A i \in 1 .. Len(p) : v[i] = p[i]
  /\ \A i \in 2 .. Len(w) : v[i - 1 + Len(p)] = w[i]

\* What is used of counting and of Keep: AsyncIo_proofs proves it (ListsHold).
ListFacts ==
  /\ \A q, e : ~Has(q, e) => Count(q, e) = 0
  /\ \A q, e : \A i \in DOMAIN q : q[i] = e /\ (\A j \in DOMAIN q : q[j] = e => j = i)
       => Count(q, e) = 1
  /\ \A S, e : \A q \in Seq(S) : Count(q, e) \in Nat /\ (Has(q, e) <=> Count(q, e) > 0)
  /\ \A S, e : \A v, w, p \in Seq(S) : w # <<>> /\ Replaced(v, w, p)
       => Count(v, e) = Count(p, e) + Count(w, e) - (IF w[1] = e THEN 1 ELSE 0)
  /\ \A S : \A q \in Seq(S) : Keep(q, DOMAIN q) = q
  /\ \A S, a : \A q \in Seq(S) : Distinct(q)
       => /\ Without(q, a) \in Seq(S) /\ Distinct(Without(q, a))
          /\ \A e : Has(Without(q, a), e) <=> Has(q, e) /\ e # a
  /\ \A S : \A q \in Seq(S) : \A K \in SUBSET DOMAIN q :
       /\ Keep(q, K) \in Seq(S)
       /\ DOMAIN Keep(q, K) = 1 .. Cardinality(K)
       /\ \A k \in K : Keep(q, K)[Place(k, K)] = q[k]
       /\ \A i \in 1 .. Cardinality(K) :
            \E k \in K : Place(k, K) = i /\ Keep(q, K)[i] = q[k]
  /\ \A n \in Nat : \A K \in SUBSET (1 .. n) :
       /\ \A k \in K : Place(k, K) \in 1 .. Cardinality(K)
       /\ \A j, k \in K : j < k => Place(j, K) < Place(k, K)

LEMMA CountNone ==
  ASSUME ListFacts, NEW q, NEW e, ~Has(q, e)
  PROVE  Count(q, e) = 0
BY Zenon DEF ListFacts

LEMMA CountSingle ==
  ASSUME ListFacts, NEW q, NEW e, NEW i \in DOMAIN q, q[i] = e, \A j \in DOMAIN q : q[j] = e => j = i
  PROVE  Count(q, e) = 1
<1>1. \A f, x : \A k \in DOMAIN f : f[k] = x /\ (\A j \in DOMAIN f : f[j] = x => j = k)
       => Count(f, x) = 1
  BY Zenon DEF ListFacts
<1> QED BY <1>1, Zenon

LEMMA CountType ==
  ASSUME ListFacts, NEW S, NEW q \in Seq(S), NEW e
  PROVE  /\ Count(q, e) \in Nat
         /\ Has(q, e) <=> Count(q, e) > 0
BY Zenon DEF ListFacts

LEMMA ReplacedCount ==
  ASSUME ListFacts, NEW S, NEW v \in Seq(S), NEW w \in Seq(S), w # <<>>, NEW p \in Seq(S), Replaced(v, w, p),
         NEW e
  PROVE  Count(v, e) = Count(p, e) + Count(w, e) - (IF w[1] = e THEN 1 ELSE 0)
<1>1. \A T, x : \A f, g, h \in Seq(T) : g # <<>> /\ Replaced(f, g, h)
       => Count(f, x) = Count(h, x) + Count(g, x) - (IF g[1] = x THEN 1 ELSE 0)
  BY Zenon DEF ListFacts
<1> QED BY <1>1

LEMMA KeepAll ==
  ASSUME ListFacts, NEW S, NEW q \in Seq(S)
  PROVE  Keep(q, DOMAIN q) = q
BY Zenon DEF ListFacts

LEMMA KeepOthers ==
  ASSUME ListFacts, NEW S, NEW q \in Seq(S), NEW a, \A i, j \in DOMAIN q : q[i] = q[j] => i = j
  PROVE  /\ Without(q, a) \in Seq(S)
         /\ \A i, j \in DOMAIN Without(q, a) : Without(q, a)[i] = Without(q, a)[j] => i = j
         /\ \A e : Has(Without(q, a), e) <=> Has(q, e) /\ e # a
BY Zenon DEF ListFacts, Distinct

LEMMA KeepAt ==
  ASSUME ListFacts, NEW S, NEW q \in Seq(S), NEW K \in SUBSET DOMAIN q
  PROVE  /\ Keep(q, K) \in Seq(S)
         /\ DOMAIN Keep(q, K) = 1 .. Cardinality(K)
         /\ \A k \in K : Keep(q, K)[Place(k, K)] = q[k]
         /\ \A i \in 1 .. Cardinality(K) :
              \E k \in K : Place(k, K) = i /\ Keep(q, K)[i] = q[k]
<1>1. \A T : \A f \in Seq(T) : \A I \in SUBSET DOMAIN f :
        /\ Keep(f, I) \in Seq(T)
        /\ DOMAIN Keep(f, I) = 1 .. Cardinality(I)
        /\ \A k \in I : Keep(f, I)[Place(k, I)] = f[k]
        /\ \A i \in 1 .. Cardinality(I) :
             \E k \in I : Place(k, I) = i /\ Keep(f, I)[i] = f[k]
  BY Zenon DEF ListFacts
<1> QED BY <1>1, Zenon

LEMMA Places ==
  ASSUME ListFacts, NEW n \in Nat, NEW K \in SUBSET (1 .. n)
  PROVE  /\ \A k \in K : Place(k, K) \in 1 .. Cardinality(K)
         /\ \A j, k \in K : j < k => Place(j, K) < Place(k, K)
BY Zenon DEF ListFacts


LEMMA ReplaceList ==
  ASSUME NEW S, NEW w \in Seq(S), w # <<>>, NEW p \in Seq(S)
  PROVE  p \o Tail(w) \in Seq(S) /\ Replaced(p \o Tail(w), w, p)
<1>1. Tail(w) \in Seq(S) /\ Len(Tail(w)) = Len(w) - 1 /\ Len(w) \in Nat /\ Len(w) >= 1
  OBVIOUS
<1>2. \A i \in 2 .. Len(w) : Tail(w)[i - 1] = w[i]
  OBVIOUS
<1> DEFINE r == Tail(w)
<1> HIDE DEF r
<1>3. /\ p \o r \in Seq(S) /\ Len(p \o r) = Len(p) + Len(r)
      /\ \A i \in 1 .. Len(p) : (p \o r)[i] = p[i]
      /\ \A i \in 1 .. Len(r) : (p \o r)[i + Len(p)] = r[i]
  BY <1>1 DEF r
<1>4. \A i \in 2 .. Len(w) : (p \o r)[i - 1 + Len(p)] = w[i]
  BY <1>1, <1>2, <1>3 DEF r
<1> QED BY <1>1, <1>3, <1>4, Zenon DEF Replaced, r

\* Every element of v comes from p or from the rest of w.
LEMMA ReplacedFrom ==
  ASSUME NEW S, NEW v \in Seq(S), NEW w \in Seq(S), NEW p \in Seq(S), Replaced(v, w, p),
         NEW i \in DOMAIN v
  PROVE  \/ i \in 1 .. Len(p) /\ v[i] = p[i]
         \/ i > Len(p) /\ i - Len(p) + 1 \in 2 .. Len(w) /\ v[i] = w[i - Len(p) + 1]
<1>1. /\ Len(p) \in Nat /\ Len(w) \in Nat /\ i \in 1 .. Len(v)
  OBVIOUS
<1>2. CASE i \in 1 .. Len(p)
  BY <1>2, Zenon DEF Replaced
<1>3. CASE i > Len(p)
  <2> DEFINE k == i - Len(p) + 1
  <2>1. k \in 2 .. Len(w) /\ k - 1 + Len(p) = i
    BY <1>1, <1>3 DEF Replaced
  <2> HIDE DEF k
  <2>2. v[k - 1 + Len(p)] = w[k]
    BY <2>1, Zenon DEF Replaced
  <2> QED BY <1>3, <2>1, <2>2, Zenon DEF k
<1> QED BY <1>1, <1>2, <1>3

LEMMA EmptyLen ==
  ASSUME NEW S, NEW q \in Seq(S)
  PROVE  /\ Len(q) \in Nat /\ DOMAIN q = 1 .. Len(q)
         /\ q = <<>> <=> Len(q) = 0
OBVIOUS

LEMMA HeadIn ==
  ASSUME NEW S, NEW q \in Seq(S)
  PROVE  /\ q # <<>> <=> 1 \in DOMAIN q
         /\ \A k \in 2 .. Len(q) : k \in DOMAIN q
<1>1. Len(q) \in Nat /\ DOMAIN q = 1 .. Len(q) /\ (q = <<>> <=> Len(q) = 0)
  BY EmptyLen, Zenon
<1> DEFINE n == Len(q)
<1>2. n \in Nat /\ DOMAIN q = 1 .. n /\ (q = <<>> <=> n = 0)
  BY <1>1, Zenon
<1> HIDE DEF n
<1>3. (n # 0 <=> 1 \in 1 .. n) /\ \A k \in 2 .. n : k \in 1 .. n
  BY <1>2
<1> QED BY <1>2, <1>3, Zenon DEF n

LEMMA ReplacedHead ==
  ASSUME NEW S, NEW v \in Seq(S), NEW w \in Seq(S), w # <<>>, NEW p \in Seq(S), Replaced(v, w, p)
  PROVE  /\ p # <<>> => v # <<>> /\ v[1] = p[1]
         /\ p = <<>> /\ v # <<>> => 2 \in 2 .. Len(w) /\ v[1] = w[2]
<1>1. /\ Len(p) \in Nat /\ Len(w) \in Nat /\ Len(w) >= 1 /\ Len(v) = Len(p) + Len(w) - 1
      /\ p # <<>> => Len(p) >= 1
      /\ v # <<>> => Len(v) >= 1
      /\ p = <<>> => Len(p) = 0
      /\ v = <<>> => Len(v) = 0
  BY EmptyLen DEF Replaced
<1>2. ASSUME p # <<>> PROVE v # <<>> /\ v[1] = p[1]
  BY <1>1, <1>2 DEF Replaced
<1>3. ASSUME p = <<>>, v # <<>> PROVE 2 \in 2 .. Len(w) /\ v[1] = w[2]
  <2>1. 2 \in 2 .. Len(w) /\ 2 - 1 + Len(p) = 1
    BY <1>1, <1>3
  <2> QED BY <2>1, Zenon DEF Replaced
<1> QED BY <1>2, <1>3, Zenon

LEMMA ReplacedHas ==
  ASSUME NEW S, NEW v \in Seq(S), NEW w \in Seq(S), w # <<>>, NEW p \in Seq(S), Replaced(v, w, p),
         NEW e
  PROVE  /\ Has(v, e) => Has(p, e) \/ Has(w, e)
         /\ Has(p, e) => Has(v, e)
         /\ Has(w, e) /\ w[1] # e => Has(v, e)
<1>1. Len(p) \in Nat /\ Len(w) \in Nat /\ DOMAIN w = 1 .. Len(w) /\ DOMAIN p = 1 .. Len(p)
      /\ DOMAIN v = 1 .. Len(v) /\ Len(v) = Len(p) + Len(w) - 1
  BY DEF Replaced
<1>2. Has(v, e) => Has(p, e) \/ Has(w, e)
  <2> SUFFICES ASSUME NEW i \in DOMAIN v, v[i] = e PROVE Has(p, e) \/ Has(w, e)
    BY Zenon DEF Has
  <2> QED BY <1>1, ReplacedFrom DEF Has
<1>3. Has(p, e) => Has(v, e)
  BY <1>1 DEF Has, Replaced
<1>4. ASSUME NEW i \in DOMAIN w, w[i] = e, w[1] # e
      PROVE  Has(v, e)
  <2>1. i \in 2 .. Len(w)
    BY <1>1, <1>4
  <2>2. i - 1 + Len(p) \in DOMAIN v /\ v[i - 1 + Len(p)] = e
    BY <1>1, <1>4, <2>1 DEF Replaced
  <2> QED BY <2>2, Zenon DEF Has
<1> QED BY <1>2, <1>3, <1>4, Zenon DEF Has

-----------------------------------------------------------------------------
(* The invariant.                                                          *)

Ops == {"set_fd_events", "pollwake", "fd_poll_event", "polled", "poll_event", "rearm",
        "async_reselect", "async_terminate", "async_queue_apc", "clear_apc", "release", "free",
        "async_wake_up", "async_wake_up_by", "free_async_queue", "fd_destroyed",
        "async_set_result", "restart", "dequeue_apc", "set_timeout"}

CallType == [op : Ops, a : Async \cup Thread \cup {None}, s : Status \cup {"pending"},
             q : Queue, ev : SUBSET Event]

AsyncType == [life : {"unused", "live", "freed"}, type : Queue, thread : Thread \cup {None},
              status : Status \cup {"pending"}, apc : BOOLEAN, timeout : BOOLEAN, ref : Nat,
              owed : BOOLEAN, result : Status \cup {None}]

FdType == [open : BOOLEAN, state : {"uninit", "added", "removed"},
           events : SUBSET (Event \cup {"err"}), key : SUBSET Event,
           pending : SUBSET Event, port : BOOLEAN]

TypeOK ==
  /\ asy \in [Async -> AsyncType]
  /\ queue \in [Queue -> Seq(Async)]
  /\ qfd \in [Queue -> BOOLEAN] /\ qport \in [Queue -> BOOLEAN]
  /\ fd \in FdType
  /\ ready \in SUBSET Queue /\ hup \in BOOLEAN
  /\ sysApc \in [Thread -> Seq([a : Async, s : Status])]
  /\ running \in [Thread -> RunningApc \cup {None}]
  /\ dead \in SUBSET Thread
  /\ packets \in [Async -> Seq(Status)]
  /\ work \in [Ctx -> Seq(CallType)]

\* One context is idle, so the calls that are left are those of the other one.
OneCtx == work["req"] = <<>> \/ work["cb"] = <<>>

Todo == work["req"] \o work["cb"]

ReleaseOf(a) == Call("release", a, "pending")
FreeOf(a) == Call("free", a, "pending")
DequeueOf(t) == Call("dequeue_apc", t, "pending")

\* The next call is op, for the operation a.
Heads(w, op, a) == w # <<>> /\ w[1].op = op /\ w[1].a = a

\* What holds a reference on an operation besides a call of release_object
\* that is still to come: the queue while it is pending, its APC in the queue
\* of its thread, and the APC its thread executes and has not returned.
Pends(a) == asy[a].life = "live" /\ asy[a].status = "pending" /\ ~Heads(Todo, "restart", a)
Posted(a) == /\ asy[a].thread \in Thread
             /\ \E i \in DOMAIN sysApc[asy[a].thread] : sysApc[asy[a].thread][i].a = a
Runs(a) == /\ asy[a].thread \in Thread
           /\ running[asy[a].thread] # None /\ running[asy[a].thread].a = a
           /\ ~Has(Todo, DequeueOf(asy[a].thread))
Held(a) == Pends(a) \/ Posted(a) \/ Runs(a)

\* The moments at which only a release still to come holds the operation of a
\* live thread: its APC is about to be queued, its result is being set, or
\* its final result has been.
Queueing(a) == Heads(Todo, "async_queue_apc", a)
Resulting(a) == Heads(Todo, "async_set_result", a) \/ Heads(Todo, "restart", a)
Resulted(a) == Todo = <<ReleaseOf(a), DequeueOf(asy[a].thread)>>

\* The accounts of one operation.
RefExact(a) == asy[a].ref = Count(Todo, ReleaseOf(a)) + (IF Held(a) THEN 1 ELSE 0)

Exclusive(a) ==
  /\ Pends(a) => ~Posted(a) /\ ~Runs(a) /\ asy[a].apc
  /\ Posted(a) => ~Runs(a)
  /\ Resulting(a) \/ Queueing(a) \/ asy[a].result # None => ~Held(a)
  /\ Queueing(a) =>
       asy[a].apc /\ asy[a].status # "pending" /\ asy[a].result = None /\ asy[a].ref > 0
  /\ Heads(Todo, "restart", a) => asy[a].status = "pending"

Living(a) ==
  /\ asy[a].life = "unused" => asy[a].thread = None /\ asy[a].result = None
  /\ asy[a].life # "unused" => asy[a].thread \in Thread
  /\ asy[a].life # "live" => asy[a].ref = 0 /\ ~asy[a].timeout
  /\ asy[a].life # "unused" /\ asy[a].ref = 0 => asy[a].status # "pending"
  /\ asy[a].life = "live" /\ asy[a].ref = 0 <=> Has(Todo, FreeOf(a))
  /\ Count(Todo, FreeOf(a)) <= 1

Owned(a) ==
  /\ asy[a].ref > 0 =>
       Held(a) \/ Queueing(a) \/ Resulting(a) \/ Resulted(a) \/ asy[a].thread \in dead
  /\ asy[a].ref > 0 /\ asy[a].result # None => Resulted(a)

Account(a) == RefExact(a) /\ Exclusive(a) /\ Living(a) /\ Owned(a)

Queues ==
  /\ \A q \in Queue : \A i, j \in DOMAIN queue[q] : queue[q][i] = queue[q][j] => i = j
  /\ \A q \in Queue, a \in Async : Has(queue[q], a) <=> asy[a].ref > 0 /\ asy[a].type = q

Apcs ==
  /\ \A t \in Thread : \A i, j \in DOMAIN sysApc[t] : sysApc[t][i].a = sysApc[t][j].a => i = j
  /\ \A t \in Thread : \A i \in DOMAIN sysApc[t] : asy[sysApc[t][i].a].thread = t
  /\ \A t \in dead : sysApc[t] = <<>>
  /\ \A t \in Thread : running[t] # None => asy[running[t].a].thread = t

\* A call on an operation is made before one that drops a reference on it.
CoveredOps == {"async_queue_apc", "clear_apc", "async_reselect", "set_timeout",
               "async_set_result", "restart", "release", "free"}
Covered(w) ==
  \A i \in DOMAIN w : w[i].op \in CoveredOps =>
     \E j \in i .. Len(w) : w[j] = ReleaseOf(w[i].a) \/ w[j] = FreeOf(w[i].a)

\* The arguments of a call.
Fine(x) ==
  /\ x.op = "dequeue_apc" => x.a \in Thread /\ x = DequeueOf(x.a)
  /\ x.op \in CoveredOps \cup {"async_terminate"} => x.a \in Async
  /\ x.op = "release" => x = ReleaseOf(x.a)
  /\ x.op = "free" => x = FreeOf(x.a)
  /\ x.op \in {"async_terminate", "restart", "async_queue_apc"} => x.s \in Status
  /\ x.op = "async_wake_up" => x.s \in {"alerted", "closed"}

\* Some calls are only ever the next one; a request ends with its dequeue_apc.
FirstOps == {"async_queue_apc", "async_set_result", "restart"}
Shaped(w) ==
  /\ \A i \in 2 .. Len(w) : w[i].op \notin FirstOps
  /\ \A i \in DOMAIN w : Fine(w[i]) /\ (w[i].op = "dequeue_apc" => i = Len(w))
  /\ w # <<>> /\ w[1].op \in {"async_set_result", "restart"} =>
       \E t \in Thread : w = <<w[1], ReleaseOf(w[1].a), DequeueOf(t)>>

Clears == \A i \in DOMAIN Todo : Todo[i].op = "clear_apc" => asy[Todo[i].a].status # "pending"

Returns ==
  Todo # <<>> /\ Todo[1].op \in {"async_set_result", "restart"} =>
    Todo[3] = DequeueOf(asy[Todo[1].a].thread)

CloseOps == {"async_terminate", "async_queue_apc", "clear_apc", "async_reselect", "release", "free"}

\* The call async_terminate at position i of the list of calls is on an
\* operation that is not freed, unless it is a cancellation and the thread of
\* the operation is dead.  When the queue is being freed, what comes before it
\* concerns other operations of that queue.
TermAt(A, D, F, w, i) ==
  LET a == w[i].a IN
  /\ A[a].life # "unused"
  /\ A[a].ref > 0 \/ (w[i].s = "cancelled" /\ A[a].thread \in D)
  /\ i > 1 => w[i].s \in {"cancelled", "closed"}
  /\ i > 1 /\ w[i].s = "closed" =>
       /\ ~F[A[a].type]
       /\ \A j \in 1 .. i - 1 : /\ w[j].op \in CloseOps /\ w[j].a \in Async
                                /\ w[j].a # a /\ A[w[j].a].type = A[a].type

Terminates ==
  \A i \in DOMAIN Todo : Todo[i].op = "async_terminate" => TermAt(asy, dead, qfd, Todo, i)

Closes ==
  \A i \in DOMAIN Todo :
    Todo[i].op = "async_wake_up" /\ Todo[i].s = "closed" => i = 1 /\ ~qfd[Todo[i].q]

Calls == Covered(Todo) /\ Shaped(Todo) /\ Clears /\ Returns /\ Terminates /\ Closes

Core ==
  /\ TypeOK /\ OneCtx
  /\ \A a \in Async : Account(a)
  /\ Queues /\ Apcs
  /\ Calls

Kept(q) == IF qfd[q] THEN fd.port ELSE qport[q]
Ports ==
  /\ fd.open => \A q \in Queue : qfd[q]
  /\ fd.open => \A i \in DOMAIN Todo : Todo[i].op \notin {"free_async_queue", "fd_destroyed"}
  /\ \A i \in DOMAIN Todo : Todo[i].op = "free_async_queue" => qfd[Todo[i].q]
  /\ \A i, j \in DOMAIN Todo :
       Todo[i].op = "free_async_queue" /\ Todo[j].op = "free_async_queue" /\ Todo[i].q = Todo[j].q
         => i = j
  /\ \A i \in DOMAIN Todo : Todo[i].op = "fd_destroyed" =>
       \A q \in Queue : qfd[q] =>
         \E j \in 1 .. i - 1 : Todo[j].op = "free_async_queue" /\ Todo[j].q = q
  /\ \A a \in Async : asy[a].owed /\ asy[a].ref > 0 => Kept(asy[a].type)

Packs ==
  \A a \in Async :
    /\ asy[a].result = None => packets[a] = <<>>
    /\ asy[a].result # None => packets[a] = <<>> \/ packets[a] = <<asy[a].result>>
    /\ asy[a].result # None /\ asy[a].owed => packets[a] = <<asy[a].result>>

\* Calls that are not on an operation.
FdOps == {"set_fd_events", "pollwake", "fd_poll_event", "polled", "poll_event", "rearm",
          "async_wake_up", "free_async_queue", "fd_destroyed"}
Bare(w) == \A i \in DOMAIN w : w[i].op \in FdOps => w[i].a = None

\* While the descriptor is open and polled, what is still to be done about it:
\* a call that looks at the whole entry again, a call that arms it with what
\* is pending then, and a call that wakes the queue q.
HupCall(x) == \/ x.op = "poll_event" /\ "hup" \in x.ev
              \/ x.op = "set_fd_events" /\ x.ev = {"hup"}
FullCall(x) == x.op \in {"async_reselect", "restart"} \/ HupCall(x)
RearmCall(x) == x.op \in {"rearm", "poll_event"}
WakeCall(x, q) ==
  \/ x.op = "pollwake" /\ q \in x.ev
  \/ x.op \in {"fd_poll_event", "poll_event"} /\ (q \in x.ev \/ "hup" \in x.ev)
  \/ x.op = "async_wake_up" /\ x.q = q

Hups(w) == \E i \in DOMAIN w : HupCall(w[i])
Full(A, w) ==
  \/ \E i \in DOMAIN w : FullCall(w[i])
  \/ w # <<>> /\ w[1].op = "async_terminate" /\ A[w[1].a].status = "pending"
Rearms(w) ==
  \/ \E i \in DOMAIN w : RearmCall(w[i])
  \/ w # <<>> /\ w[1].op = "set_fd_events"
Wakes(w, q) == \E i \in DOMAIN w : WakeCall(w[i], q)

\* async_wake_up is called by default_poll_event, which goes on to arm the entry or to remove it.
Followed(w) ==
  \A i \in DOMAIN w : w[i].op = "async_wake_up" =>
    \E j \in i + 1 .. Len(w) : w[j].op = "rearm" \/ HupCall(w[j])
Fresh(w, e) ==
  \A i \in DOMAIN w : w[i].op = "set_fd_events" /\ w[i].ev # {"hup"} => i = 1 /\ w[i].ev = e

Armed(F, R, A, P, w) ==
  F.state = "added" =>
    /\ F.key = F.events \cup {"hup"}
    /\ P \subseteq F.events \/ Full(A, w) \/ Rearms(w)
    /\ \A q \in Queue :
         q \in F.events /\ q \in R => Full(A, w) \/ Wakes(w, q) \/ (q \notin P /\ Rearms(w))

Polls ==
  fd.open =>
    /\ Armed(fd, ready, asy, PollEvents, Todo)
    /\ "hup" \in fd.pending => fd.state = "removed" \/ Hups(Todo)
    /\ Followed(Todo) /\ Fresh(Todo, PollEvents)

-----------------------------------------------------------------------------
(* Steps on the list of calls.                                             *)

LEMMA Sums ==
  /\ 0 \in Nat /\ 1 \in Nat /\ 2 \in Nat /\ 0 + 1 = 1 /\ 1 + 1 = 2
  /\ 0 <= 1 /\ 1 <= 1 /\ ~(0 > 0) /\ 1 > 0 /\ 2 > 0 /\ 1 # 0 /\ 2 # 0
OBVIOUS

\* The two ways to be exact.
LEMMA RefHeld ==
  ASSUME NEW a, Held(a), RefExact(a)
  PROVE  asy[a].ref = Count(Todo, ReleaseOf(a)) + 1
BY Zenon DEF RefExact

LEMMA RefGone ==
  ASSUME NEW a, ~Held(a)', Count(Todo', ReleaseOf(a)) \in Nat,
         asy'[a].ref = Count(Todo', ReleaseOf(a))
  PROVE  RefExact(a)'
BY DEF RefExact

LEMMA CallParts ==
  \A op, x, s, ev :
    /\ Call(op, x, s).op = op /\ Call(op, x, s).a = x /\ Call(op, x, s).s = s
    /\ QueueCall(op, x, s).op = op /\ QueueCall(op, x, s).q = x /\ QueueCall(op, x, s).s = s
    /\ QueueCall(op, x, s).a = None
    /\ FdCall(op, ev).op = op /\ FdCall(op, ev).ev = ev /\ FdCall(op, ev).a = None
BY DEF Call, QueueCall, FdCall

LEMMA CallOps ==
  \A a : /\ ReleaseOf(a).op = "release" /\ FreeOf(a).op = "free" /\ DequeueOf(a).op = "dequeue_apc"
         /\ ReleaseOf(a).a = a /\ FreeOf(a).a = a /\ DequeueOf(a).a = a
BY CallParts DEF ReleaseOf, FreeOf, DequeueOf

LEMMA CallTyped ==
  /\ \A op \in Ops, a \in Async \cup Thread \cup {None}, s \in Status \cup {"pending"} :
       Call(op, a, s) \in CallType
  /\ \A op \in Ops, q \in Queue, s \in Status \cup {"pending"} : QueueCall(op, q, s) \in CallType
  /\ \A op \in Ops, ev \in SUBSET Event : FdCall(op, ev) \in CallType
BY Zenon DEF Call, QueueCall, FdCall, CallType, Queue

LEMMA TodoIs ==
  ASSUME TypeOK, OneCtx, NEW c \in Ctx, work[c] # <<>>
  PROVE  Todo = work[c] /\ Todo \in Seq(CallType) /\ Todo # <<>> /\ Todo[1] = Arg(c)
<1>1. work \in [Ctx -> Seq(CallType)] /\ "req" \in Ctx /\ "cb" \in Ctx /\ c \in {"req", "cb"}
  BY Zenon DEF TypeOK, Ctx
<1>2. Todo = work[c]
  <2>1. CASE c = "req"
    <3>1. work["cb"] = <<>> /\ work["req"] \in Seq(CallType)
      BY <1>1, <2>1, Zenon DEF OneCtx
    <3> QED BY <2>1, <3>1 DEF Todo
  <2>2. CASE c = "cb"
    <3>1. work["req"] = <<>> /\ work["cb"] \in Seq(CallType)
      BY <1>1, <2>2, Zenon DEF OneCtx
    <3> QED BY <2>2, <3>1 DEF Todo
  <2> QED BY <1>1, <2>1, <2>2, Zenon
<1>3. Todo \in Seq(CallType) /\ Todo # <<>>
  BY <1>1, <1>2, Zenon
<1> QED BY <1>2, <1>3 DEF Arg

LEMMA Acting ==
  ASSUME TypeOK, OneCtx, NEW c \in Ctx, work[c] # <<>>, NEW p \in Seq(CallType), Then(c, p)
  PROVE  /\ Todo \in Seq(CallType) /\ Todo # <<>> /\ Arg(c) = Todo[1] /\ Todo[1] \in CallType
         /\ work' \in [Ctx -> Seq(CallType)] /\ OneCtx'
         /\ Todo' \in Seq(CallType) /\ Replaced(Todo', Todo, p)
<1>1. work \in [Ctx -> Seq(CallType)] /\ "req" \in Ctx /\ "cb" \in Ctx /\ c \in {"req", "cb"}
  BY Zenon DEF TypeOK, Ctx
<1>2. Todo = work[c]
  BY TodoIs, Zenon
<1>3. Todo \in Seq(CallType) /\ Todo # <<>>
  BY TodoIs, Zenon
<1>4. Arg(c) = Todo[1] /\ Todo[1] \in CallType
  BY <1>2, <1>3 DEF Arg
<1> DEFINE v == p \o Tail(Todo)
<1>5. v \in Seq(CallType) /\ Replaced(v, Todo, p)
  BY <1>3, ReplaceList, Zenon
<1>6. work' = [work EXCEPT ![c] = v]
  BY <1>2, Zenon DEF Then
<1> HIDE DEF v
<1>7. work'[c] = v /\ (\A d \in Ctx : d # c => work'[d] = work[d]) /\ work' \in [Ctx -> Seq(CallType)]
  BY <1>1, <1>5, <1>6, Zenon
<1>8. \A d \in Ctx : d # c => work'[d] = <<>>
  <2>1. \A d \in Ctx : d # c => work[d] = <<>>
    BY <1>1 DEF OneCtx, Ctx
  <2> QED BY <1>7, <2>1, Zenon
<1>9. Todo' = v /\ OneCtx'
  <2>1. CASE c = "req"
    <3>1. work'["cb"] = <<>> /\ work'["req"] = v
      BY <1>1, <1>7, <1>8, <2>1, Zenon
    <3> QED BY <1>5, <3>1 DEF Todo, OneCtx
  <2>2. CASE c = "cb"
    <3>1. work'["req"] = <<>> /\ work'["cb"] = v
      BY <1>1, <1>7, <1>8, <2>2, Zenon
    <3> QED BY <1>5, <3>1 DEF Todo, OneCtx
  <2> QED BY <1>1, <2>1, <2>2, Zenon
<1> QED BY <1>3, <1>4, <1>5, <1>7, <1>9, Zenon

LEMMA Starting ==
  ASSUME TypeOK, Smp = FALSE, NEW c \in Ctx, NEW p \in Seq(CallType), Starts(c, p)
  PROVE  /\ Todo = <<>> /\ Todo' = p
         /\ work' \in [Ctx -> Seq(CallType)] /\ OneCtx'
<1>1. work \in [Ctx -> Seq(CallType)] /\ "req" \in Ctx /\ "cb" \in Ctx /\ c \in {"req", "cb"}
  BY Zenon DEF TypeOK, Ctx
<1>2. Idle /\ work' = [work EXCEPT ![c] = p]
  BY Zenon DEF Starts
<1>3. work["req"] = <<>> /\ work["cb"] = <<>>
  BY <1>1, <1>2, Zenon DEF Idle
<1>4. work'[c] = p /\ (\A d \in Ctx : d # c => work'[d] = <<>>) /\ work' \in [Ctx -> Seq(CallType)]
  BY <1>1, <1>2, Zenon DEF Idle
<1>5. Todo = <<>>
  BY <1>3 DEF Todo
<1>6. Todo' = p /\ OneCtx'
  <2>1. CASE c = "req"
    <3>1. work'["cb"] = <<>> /\ work'["req"] = p
      BY <1>1, <1>4, <2>1, Zenon
    <3> QED BY <3>1 DEF Todo, OneCtx
  <2>2. CASE c = "cb"
    <3>1. work'["req"] = <<>> /\ work'["cb"] = p
      BY <1>1, <1>4, <2>2, Zenon
    <3> QED BY <3>1 DEF Todo, OneCtx
  <2> QED BY <1>1, <2>1, <2>2, Zenon
<1> QED BY <1>4, <1>5, <1>6, Zenon

\* The first call of the list is replaced by the calls p.
StepTo(p) ==
  /\ p \in Seq(CallType)
  /\ Todo \in Seq(CallType) /\ Todo # <<>>
  /\ Todo' \in Seq(CallType) /\ Replaced(Todo', Todo, p)

\* What a call does to the counts, when neither it nor what it calls takes an
\* APC from the queue of a thread.
LEMMA Flags ==
  ASSUME ListFacts, Shaped(Todo), NEW p, StepTo(p), Todo[1].op # "dequeue_apc",
         \A i \in DOMAIN p : p[i].op # "dequeue_apc"
  PROVE  /\ \A e : /\ Count(Todo', e) = Count(p, e) + Count(Todo, e) - (IF Todo[1] = e THEN 1 ELSE 0)
                   /\ Count(Todo', e) \in Nat /\ Count(Todo, e) \in Nat /\ Count(p, e) \in Nat
                   /\ Has(Todo', e) <=> Count(Todo', e) > 0
                   /\ Has(Todo, e) <=> Count(Todo, e) > 0
         /\ \A op \in FirstOps : \A a : Heads(Todo', op, a) <=> Heads(p, op, a)
         /\ \A t : Has(Todo', DequeueOf(t)) <=> Has(Todo, DequeueOf(t))
<1>1. \A e : /\ Count(Todo', e) = Count(p, e) + Count(Todo, e) - (IF Todo[1] = e THEN 1 ELSE 0)
             /\ Count(Todo', e) \in Nat /\ Count(Todo, e) \in Nat /\ Count(p, e) \in Nat
             /\ Has(Todo', e) <=> Count(Todo', e) > 0
             /\ Has(Todo, e) <=> Count(Todo, e) > 0
  <2> TAKE e
  <2>1. Count(Todo', e) = Count(p, e) + Count(Todo, e) - (IF Todo[1] = e THEN 1 ELSE 0)
    BY ReplacedCount DEF StepTo
  <2> QED BY <2>1, CountType, Zenon DEF StepTo
<1>2. ASSUME NEW op \in FirstOps, NEW a
      PROVE  Heads(Todo', op, a) <=> Heads(p, op, a)
  <2>1. CASE p # <<>>
    <3>1. Todo' # <<>> /\ Todo'[1] = p[1]
      BY <2>1, ReplacedHead, Zenon DEF StepTo
    <3> QED BY <2>1, <3>1, Zenon DEF Heads
  <2>2. CASE p = <<>>
    <3>1. Todo' # <<>> => 2 \in 2 .. Len(Todo) /\ Todo'[1] = Todo[2]
      BY <2>2, ReplacedHead, Zenon DEF StepTo
    <3>2. 2 \in 2 .. Len(Todo) => Todo[2].op \notin FirstOps
      BY Zenon DEF Shaped
    <3> QED BY <1>2, <2>2, <3>1, <3>2, Zenon DEF Heads
  <2> QED BY <2>1, <2>2, Zenon
<1>3. ASSUME NEW t
      PROVE  Has(Todo', DequeueOf(t)) <=> Has(Todo, DequeueOf(t))
  <2>1. DequeueOf(t).op = "dequeue_apc"
    BY CallParts, Zenon DEF DequeueOf
  <2>2. ~Has(p, DequeueOf(t)) /\ Todo[1] # DequeueOf(t)
    BY <2>1, Zenon DEF Has
  <2> QED BY <2>2, ReplacedHas, Zenon DEF StepTo
<1> QED BY <1>1, <1>2, <1>3, Zenon

\* What may change of an operation without a change of its accounts.
SameAccount(a) ==
  /\ asy'[a].life = asy[a].life /\ asy'[a].thread = asy[a].thread
  /\ asy'[a].ref = asy[a].ref /\ asy'[a].result = asy[a].result
  /\ asy'[a].status = "pending" <=> asy[a].status = "pending"
  /\ asy[a].status = "pending" => asy'[a].apc = asy[a].apc
  /\ asy[a].life # "live" => asy'[a].timeout = asy[a].timeout

\* An operation that the step does not concern keeps its accounts.
LEMMA Frame ==
  ASSUME ListFacts, Shaped(Todo), NEW p, StepTo(p), Todo[1].op # "dequeue_apc",
         \A i \in DOMAIN p : p[i].op # "dequeue_apc",
         NEW a \in Async, Account(a),
         Todo[1] # ReleaseOf(a), Todo[1] # FreeOf(a), ~Has(p, ReleaseOf(a)), ~Has(p, FreeOf(a)),
         \A op \in FirstOps : ~Heads(Todo, op, a) /\ ~Heads(p, op, a),
         SameAccount(a), Posted(a)' <=> Posted(a), UNCHANGED <<running, dead>>
  PROVE  Account(a)'
<1>1. /\ Count(Todo', ReleaseOf(a)) = Count(Todo, ReleaseOf(a)) /\ Count(Todo, ReleaseOf(a)) \in Nat
      /\ Count(Todo', FreeOf(a)) = Count(Todo, FreeOf(a))
      /\ Has(Todo', FreeOf(a)) <=> Has(Todo, FreeOf(a))
  <2>1. Count(p, ReleaseOf(a)) = 0 /\ Count(p, FreeOf(a)) = 0
    BY CountNone, Zenon
  <2> QED BY <2>1, Flags
<1>2. /\ ~Queueing(a) /\ ~Queueing(a)' /\ ~Resulting(a) /\ ~Resulting(a)'
      /\ ~Heads(Todo, "restart", a) /\ ~Heads(Todo, "restart", a)'
  BY Flags, Zenon DEF Queueing, Resulting, FirstOps
<1>3. (Pends(a)' <=> Pends(a)) /\ (Runs(a)' <=> Runs(a))
  <2>1. Pends(a)' <=> Pends(a)
    BY <1>2, Zenon DEF Pends, SameAccount
  <2>2. asy'[a].thread = asy[a].thread
    BY Zenon DEF SameAccount
  <2>3. Has(Todo', DequeueOf(asy[a].thread)) <=> Has(Todo, DequeueOf(asy[a].thread))
    BY Flags, Zenon
  <2> QED BY <2>1, <2>2, <2>3, Zenon DEF Runs
<1>4. Held(a)' <=> Held(a)
  BY <1>3, Zenon DEF Held
<1>5. ~Resulted(a)
  BY DEF Resulted
<1>6. RefExact(a)'
  BY <1>1, <1>4, Zenon DEF Account, RefExact, SameAccount
<1>7. Exclusive(a)'
  BY <1>2, <1>3, <1>4, Zenon DEF Account, Exclusive, SameAccount, Pends
<1>8. Living(a)'
  BY <1>1, Zenon DEF Account, Living, SameAccount
<1>9. Owned(a)'
  BY <1>2, <1>4, <1>5, Zenon DEF Account, Owned, SameAccount
<1> QED BY <1>6, <1>7, <1>8, <1>9, Zenon DEF Account

\* The calls p may replace the first call of w.
Pushable(p, w) ==
  /\ \A i \in 2 .. Len(p) : p[i].op \notin FirstOps
  /\ \A i \in DOMAIN p : /\ Fine(p[i])
                         /\ p[i].op \notin {"dequeue_apc", "async_set_result", "restart"}
  /\ \A i \in DOMAIN p : p[i].op \in CoveredOps =>
       \/ \E j \in i .. Len(p) : p[j] = ReleaseOf(p[i].a) \/ p[j] = FreeOf(p[i].a)
       \/ \E j \in 2 .. Len(w) : w[j] = ReleaseOf(p[i].a) \/ w[j] = FreeOf(p[i].a)

LEMMA PushShaped ==
  ASSUME NEW S, NEW v \in Seq(S), NEW w \in Seq(S), w # <<>>, NEW p \in Seq(S), Replaced(v, w, p),
         Shaped(w), Pushable(p, w)
  PROVE  Shaped(v)
<1>0. /\ Len(p) \in Nat /\ Len(w) \in Nat /\ Len(w) >= 1 /\ Len(v) = Len(p) + Len(w) - 1
      /\ DOMAIN v = 1 .. Len(v) /\ DOMAIN p = 1 .. Len(p) /\ DOMAIN w = 1 .. Len(w)
  BY EmptyLen DEF Replaced
<1>1. ASSUME NEW i \in 2 .. Len(v) PROVE v[i].op \notin FirstOps
  <2>1. i \in DOMAIN v
    BY <1>0
  <2>2. \/ i \in 1 .. Len(p) /\ v[i] = p[i]
        \/ i - Len(p) + 1 \in 2 .. Len(w) /\ v[i] = w[i - Len(p) + 1]
    BY <2>1, ReplacedFrom
  <2>3. CASE i \in 1 .. Len(p) /\ v[i] = p[i]
    <3>1. i \in 2 .. Len(p)
      BY <1>0, <2>3
    <3> QED BY <2>3, <3>1, Zenon DEF Pushable
  <2>4. CASE i - Len(p) + 1 \in 2 .. Len(w) /\ v[i] = w[i - Len(p) + 1]
    BY <2>4, Zenon DEF Shaped
  <2> QED BY <2>2, <2>3, <2>4, Zenon
<1>2. ASSUME NEW i \in DOMAIN v PROVE Fine(v[i]) /\ (v[i].op = "dequeue_apc" => i = Len(v))
  <2>1. CASE i \in 1 .. Len(p) /\ v[i] = p[i]
    BY <1>0, <2>1, Zenon DEF Pushable
  <2>2. CASE i > Len(p) /\ i - Len(p) + 1 \in 2 .. Len(w) /\ v[i] = w[i - Len(p) + 1]
    <3> DEFINE k == i - Len(p) + 1
    <3>1. k \in DOMAIN w /\ (k = Len(w) => i = Len(v))
      BY <1>0, <2>2
    <3> HIDE DEF k
    <3>2. Fine(w[k]) /\ (w[k].op = "dequeue_apc" => k = Len(w))
      BY <3>1, Zenon DEF Shaped
    <3> QED BY <2>2, <3>1, <3>2, Zenon DEF k
  <2> QED BY <2>1, <2>2, ReplacedFrom
<1>3. v # <<>> => v[1].op \notin {"async_set_result", "restart"}
  <2>1. CASE p # <<>>
    <3>1. 1 \in DOMAIN p
      BY <1>0, <2>1, HeadIn, Zenon
    <3>2. v[1] = p[1]
      BY <2>1, ReplacedHead
    <3> QED BY <3>1, <3>2, Zenon DEF Pushable
  <2>2. CASE p = <<>>
    <3>1. v # <<>> => 2 \in 2 .. Len(w) /\ v[1] = w[2]
      BY <2>2, ReplacedHead, Zenon
    <3> QED BY <3>1, Zenon DEF Shaped, FirstOps
  <2> QED BY <2>1, <2>2, Zenon
<1> QED BY <1>1, <1>2, <1>3, Zenon DEF Shaped

LEMMA PushCovered ==
  ASSUME NEW S, NEW v \in Seq(S), NEW w \in Seq(S), w # <<>>, NEW p \in Seq(S), Replaced(v, w, p),
         Covered(w), Pushable(p, w)
  PROVE  Covered(v)
<1>0. /\ Len(p) \in Nat /\ Len(w) \in Nat /\ Len(w) >= 1 /\ Len(v) = Len(p) + Len(w) - 1
      /\ DOMAIN v = 1 .. Len(v) /\ DOMAIN p = 1 .. Len(p) /\ DOMAIN w = 1 .. Len(w)
  BY EmptyLen DEF Replaced
<1> DEFINE Drop(x, a) == x = ReleaseOf(a) \/ x = FreeOf(a)
<1> SUFFICES ASSUME NEW i \in DOMAIN v, v[i].op \in CoveredOps
             PROVE  \E j \in i .. Len(v) : Drop(v[j], v[i].a)
  BY Zenon DEF Covered
<1> HIDE DEF Drop
<1>1. ASSUME NEW j \in 2 .. Len(w), Drop(w[j], v[i].a), j >= i - Len(p) + 1
      PROVE  \E k \in i .. Len(v) : Drop(v[k], v[i].a)
  <2>1. j - 1 + Len(p) \in i .. Len(v) /\ v[j - 1 + Len(p)] = w[j]
    BY <1>0, <1>1 DEF Replaced
  <2> QED BY <1>1, <2>1, Zenon
<1>2. CASE i \in 1 .. Len(p) /\ v[i] = p[i]
  <2>1. \/ \E j \in i .. Len(p) : Drop(p[j], p[i].a)
        \/ \E j \in 2 .. Len(w) : Drop(w[j], p[i].a)
    BY <1>0, <1>2, Zenon DEF Pushable, Drop
  <2>2. ASSUME NEW j \in i .. Len(p), Drop(p[j], p[i].a)
        PROVE  \E k \in i .. Len(v) : Drop(v[k], v[i].a)
    <3>1. j \in i .. Len(v) /\ v[j] = p[j]
      BY <1>0, <1>2, <2>2 DEF Replaced
    <3> QED BY <1>2, <2>2, <3>1, Zenon
  <2>3. ASSUME NEW j \in 2 .. Len(w), Drop(w[j], p[i].a)
        PROVE  \E k \in i .. Len(v) : Drop(v[k], v[i].a)
    <3>1. j >= i - Len(p) + 1
      BY <1>0, <1>2
    <3>2. Drop(w[j], v[i].a)
      BY <1>2, <2>3, Zenon
    <3> QED BY <1>1, <3>1, <3>2, Zenon
  <2> QED BY <2>1, <2>2, <2>3, Zenon
<1>3. CASE i > Len(p) /\ i - Len(p) + 1 \in 2 .. Len(w) /\ v[i] = w[i - Len(p) + 1]
  <2> DEFINE k == i - Len(p) + 1
  <2>1. k \in 2 .. Len(w) /\ k \in DOMAIN w /\ v[i] = w[k] /\ k >= i - Len(p) + 1
    BY <1>0, <1>3
  <2> HIDE DEF k
  <2>2. PICK j \in k .. Len(w) : Drop(w[j], w[k].a)
    BY <2>1, Zenon DEF Covered, Drop
  <2>3. j \in 2 .. Len(w) /\ j >= i - Len(p) + 1
    BY <1>0, <2>1, <2>2 DEF k
  <2> QED BY <1>1, <2>1, <2>2, <2>3, Zenon
<1> QED BY <1>2, <1>3, ReplacedFrom

\* What no call changes in a way that matters to the calls after it.
Keeps ==
  /\ dead' = dead
  /\ \A q \in Queue : ~qfd[q] => ~qfd'[q]
  /\ \A a \in Async :
       /\ asy'[a].type = asy[a].type /\ asy'[a].thread = asy[a].thread
       /\ asy[a].life # "unused" => asy'[a].life # "unused"

LEMMA PushTerminates ==
  ASSUME TypeOK, Terminates, Shaped(Todo), NEW p, StepTo(p), Keeps,
         \A k \in 2 .. Len(Todo) : Todo[k].op = "async_terminate" /\ asy[Todo[k].a].ref > 0 =>
           asy'[Todo[k].a].ref > 0 \/ (Todo[k].s = "cancelled" /\ asy[Todo[k].a].thread \in dead),
         Todo[1].op \in CloseOps /\ Todo[1].a \in Async /\ ~qfd[asy[Todo[1].a].type] =>
           \A i \in DOMAIN p : p[i].op \in CloseOps /\ p[i].a = Todo[1].a,
         \A i \in DOMAIN p : p[i].op = "async_terminate" => TermAt(asy', dead', qfd', p, i)
  PROVE  Terminates'
<1>0. /\ Len(p) \in Nat /\ Len(Todo) \in Nat /\ Len(Todo) >= 1 /\ Len(Todo') = Len(p) + Len(Todo) - 1
      /\ DOMAIN Todo' = 1 .. Len(Todo') /\ DOMAIN p = 1 .. Len(p) /\ DOMAIN Todo = 1 .. Len(Todo)
      /\ Todo \in Seq(CallType) /\ Todo' \in Seq(CallType) /\ p \in Seq(CallType)
  BY EmptyLen DEF StepTo, Replaced
<1> SUFFICES ASSUME NEW i \in DOMAIN Todo', Todo'[i].op = "async_terminate"
             PROVE  TermAt(asy', dead', qfd', Todo', i)
  BY Zenon DEF Terminates
<1>f. \A j \in DOMAIN Todo' :
        \/ j \in 1 .. Len(p) /\ Todo'[j] = p[j]
        \/ j > Len(p) /\ j - Len(p) + 1 \in 2 .. Len(Todo) /\ Todo'[j] = Todo[j - Len(p) + 1]
  <2> SUFFICES ASSUME NEW j \in DOMAIN Todo'
               PROVE  \/ j \in 1 .. Len(p) /\ Todo'[j] = p[j]
                      \/ j > Len(p) /\ j - Len(p) + 1 \in 2 .. Len(Todo) /\ Todo'[j] = Todo[j - Len(p) + 1]
    BY Zenon
  <2>1. Replaced(Todo', Todo, p)
    BY Zenon DEF StepTo
  <2> QED BY <1>0, <2>1, ReplacedFrom
<1>1. CASE i \in 1 .. Len(p) /\ Todo'[i] = p[i]
  <2>1. TermAt(asy', dead', qfd', p, i)
    BY <1>0, <1>1, Zenon
  <2>2. \A j \in 1 .. i - 1 : Todo'[j] = p[j]
    BY <1>0, <1>1 DEF StepTo, Replaced
  <2> QED BY <1>1, <2>1, <2>2, Zenon DEF TermAt
<1>2. CASE i > Len(p) /\ i - Len(p) + 1 \in 2 .. Len(Todo) /\ Todo'[i] = Todo[i - Len(p) + 1]
  <2> DEFINE k == i - Len(p) + 1
             a == Todo'[i].a
  <2>1. k \in 2 .. Len(Todo) /\ k \in DOMAIN Todo /\ Todo'[i] = Todo[k] /\ k > 1 /\ i = k - 1 + Len(p)
    BY <1>0, <1>2
  <2> HIDE DEF k
  <2>2. Todo[k].op = "async_terminate" /\ Todo[k].a = a /\ Todo'[i].a = a
    BY <2>1, Zenon
  <2>3. TermAt(asy, dead, qfd, Todo, k) /\ a \in Async
    BY <2>1, <2>2, Zenon DEF Terminates, Shaped, Fine
  <2> HIDE DEF a
  <2>4. /\ asy[a].life # "unused"
        /\ asy[a].ref > 0 \/ (Todo[k].s = "cancelled" /\ asy[a].thread \in dead)
        /\ Todo[k].s \in {"cancelled", "closed"}
    BY <2>1, <2>2, <2>3, Zenon DEF TermAt
  <2>5. asy'[a].ref > 0 \/ (Todo[k].s = "cancelled" /\ asy'[a].thread \in dead')
    BY <2>1, <2>2, <2>3, <2>4, Zenon DEF Keeps
  <2>6. ASSUME Todo[k].s = "closed", NEW j \in 1 .. i - 1
        PROVE  /\ ~qfd'[asy'[a].type]
               /\ Todo'[j].op \in CloseOps /\ Todo'[j].a \in Async
               /\ Todo'[j].a # a /\ asy'[Todo'[j].a].type = asy'[a].type
    <3>1. /\ ~qfd[asy[a].type]
          /\ \A m \in 1 .. k - 1 : /\ Todo[m].op \in CloseOps /\ Todo[m].a \in Async
                                   /\ Todo[m].a # a /\ asy[Todo[m].a].type = asy[a].type
      BY <2>1, <2>2, <2>3, <2>6, Zenon DEF TermAt
    <3>2. asy[a].type \in Queue
      BY <2>3, Zenon DEF TypeOK, AsyncType
    <3>3. ~qfd'[asy'[a].type]
      BY <2>3, <3>1, <3>2, Zenon DEF Keeps
    <3>4. \E m \in 1 .. k - 1 : Todo'[j].op \in CloseOps /\ Todo'[j].a = Todo[m].a
      <4>0. 1 \in 1 .. k - 1 /\ j \in DOMAIN Todo'
        BY <1>0, <2>1
      <4>1. CASE j \in 1 .. Len(p) /\ Todo'[j] = p[j]
        <5>1. Todo[1].op \in CloseOps /\ Todo[1].a \in Async /\ ~qfd[asy[Todo[1].a].type]
          BY <3>1, <4>0, Zenon
        <5>2. p[j].op \in CloseOps /\ p[j].a = Todo[1].a
          BY <1>0, <4>1, <5>1, Zenon
        <5> QED BY <4>0, <4>1, <5>2, Zenon
      <4>2. CASE j > Len(p) /\ j - Len(p) + 1 \in 2 .. Len(Todo) /\ Todo'[j] = Todo[j - Len(p) + 1]
        <5>1. j - Len(p) + 1 \in 1 .. k - 1
          BY <1>0, <2>1, <4>2
        <5> QED BY <3>1, <4>2, <5>1, Zenon
      <4> QED BY <1>f, <4>0, <4>1, <4>2, Zenon
    <3> QED BY <2>3, <3>1, <3>3, <3>4, Zenon DEF Keeps
  <2>7. asy'[a].life # "unused"
    BY <2>3, <2>4, Zenon DEF Keeps
  <2>8. Todo[k].s = "closed" => ~qfd'[asy'[a].type]
    <3>1. Todo[k].s = "closed" => ~qfd[asy[a].type] /\ asy[a].type \in Queue
      BY <2>1, <2>2, <2>3, Zenon DEF TermAt, TypeOK, AsyncType
    <3> QED BY <2>3, <3>1, Zenon DEF Keeps
  <2>9. Todo[k].s = "closed" =>
          \A j \in 1 .. i - 1 : /\ Todo'[j].op \in CloseOps /\ Todo'[j].a \in Async
                               /\ Todo'[j].a # a /\ asy'[Todo'[j].a].type = asy'[a].type
    BY <2>6, Zenon
  <2>10. Todo'[i].s = Todo[k].s
    BY <2>1, Zenon
  <2> QED BY <2>2, <2>4, <2>5, <2>7, <2>8, <2>9, <2>10, Zenon DEF TermAt
<1> QED BY <1>f, <1>1, <1>2, Zenon

LEMMA PushFirst ==
  ASSUME Shaped(Todo), NEW p, StepTo(p), Pushable(p, Todo), Todo' # <<>>
  PROVE  Todo'[1].op \notin {"async_set_result", "restart"}
<1>1. CASE p # <<>>
  <2>1. 1 \in DOMAIN p
    BY <1>1, HeadIn, Zenon DEF StepTo
  <2>2. Todo'[1] = p[1]
    BY <1>1, ReplacedHead DEF StepTo
  <2> QED BY <2>1, <2>2, Zenon DEF Pushable
<1>2. CASE p = <<>>
  <2>1. 2 \in 2 .. Len(Todo) /\ Todo'[1] = Todo[2]
    BY <1>2, ReplacedHead, Zenon DEF StepTo
  <2> QED BY <2>1, Zenon DEF Shaped, FirstOps
<1> QED BY <1>1, <1>2, Zenon

\* The calls p do not spoil what is known of the list of calls.
LEMMA PushCalls ==
  ASSUME TypeOK, Calls, NEW p, StepTo(p), Pushable(p, Todo), Keeps,
         \A k \in 2 .. Len(Todo) : Todo[k].op = "async_terminate" /\ asy[Todo[k].a].ref > 0 =>
           asy'[Todo[k].a].ref > 0 \/ (Todo[k].s = "cancelled" /\ asy[Todo[k].a].thread \in dead),
         Todo[1].op \in CloseOps /\ Todo[1].a \in Async /\ ~qfd[asy[Todo[1].a].type] =>
           \A i \in DOMAIN p : p[i].op \in CloseOps /\ p[i].a = Todo[1].a,
         \A i \in DOMAIN p :
           /\ p[i].op = "async_terminate" => TermAt(asy', dead', qfd', p, i)
           /\ p[i].op = "clear_apc" => asy'[p[i].a].status # "pending"
           /\ p[i].op = "async_wake_up" /\ p[i].s = "closed" => i = 1 /\ ~qfd'[p[i].q],
         \A a \in Async : asy[a].status # "pending" => asy'[a].status # "pending"
  PROVE  Calls'
<1>0. /\ Len(p) \in Nat /\ Len(Todo) \in Nat
      /\ DOMAIN Todo' = 1 .. Len(Todo') /\ DOMAIN p = 1 .. Len(p) /\ DOMAIN Todo = 1 .. Len(Todo)
  BY EmptyLen, Zenon DEF StepTo
<1>1. Covered(Todo') /\ Shaped(Todo')
  BY PushCovered, PushShaped, Zenon DEF StepTo, Calls
<1>2. Terminates'
  BY PushTerminates, Zenon DEF Calls
<1>3. \A j \in DOMAIN Todo' :
        \/ j \in 1 .. Len(p) /\ Todo'[j] = p[j]
        \/ j > Len(p) /\ j - Len(p) + 1 \in 2 .. Len(Todo) /\ Todo'[j] = Todo[j - Len(p) + 1]
  BY ReplacedFrom DEF StepTo
<1>4. Clears'
  <2> SUFFICES ASSUME NEW i \in DOMAIN Todo', Todo'[i].op = "clear_apc"
               PROVE  asy'[Todo'[i].a].status # "pending"
    BY Zenon DEF Clears
  <2>1. CASE i \in 1 .. Len(p) /\ Todo'[i] = p[i]
    BY <1>0, <2>1, Zenon
  <2>2. CASE i > Len(p) /\ i - Len(p) + 1 \in 2 .. Len(Todo) /\ Todo'[i] = Todo[i - Len(p) + 1]
    <3> DEFINE k == i - Len(p) + 1
    <3>1. k \in DOMAIN Todo /\ Todo'[i] = Todo[k]
      BY <1>0, <2>2
    <3> HIDE DEF k
    <3>2. asy[Todo[k].a].status # "pending" /\ Todo[k].a \in Async
      BY <3>1, Zenon DEF Calls, Clears, Shaped, Fine, CoveredOps
    <3> QED BY <3>1, <3>2, Zenon
  <2> QED BY <1>3, <2>1, <2>2, Zenon
<1>5. Closes'
  <2> SUFFICES ASSUME NEW i \in DOMAIN Todo', Todo'[i].op = "async_wake_up", Todo'[i].s = "closed"
               PROVE  i = 1 /\ ~qfd'[Todo'[i].q]
    BY Zenon DEF Closes
  <2>1. CASE i \in 1 .. Len(p) /\ Todo'[i] = p[i]
    BY <1>0, <2>1, Zenon
  <2>2. CASE i > Len(p) /\ i - Len(p) + 1 \in 2 .. Len(Todo) /\ Todo'[i] = Todo[i - Len(p) + 1]
    <3> DEFINE k == i - Len(p) + 1
    <3>1. k \in DOMAIN Todo /\ Todo'[i] = Todo[k] /\ k # 1
      BY <1>0, <2>2
    <3> HIDE DEF k
    <3> QED BY <3>1, Zenon DEF Calls, Closes
  <2> QED BY <1>3, <2>1, <2>2, Zenon
<1>6. Returns'
  BY PushFirst, Zenon DEF Calls, Returns
<1> QED BY <1>1, <1>2, <1>4, <1>5, <1>6, Zenon DEF Calls

-----------------------------------------------------------------------------
(* Calls that leave the operations alone.                                  *)

QuietOps == {"fd_poll_event", "poll_event", "polled", "set_fd_events", "rearm",
             "async_wake_up", "async_terminate"}

LEMMA QuietStep ==
  ASSUME ListFacts, Core, TypeOK', OneCtx', NEW p, StepTo(p),
         UNCHANGED <<asy, queue, sysApc, running, dead>>,
         \A q \in Queue : ~qfd[q] => ~qfd'[q],
         Todo[1].op \notin FirstOps \cup {"release", "free", "dequeue_apc"},
         \A i \in DOMAIN p : /\ p[i].op \in QuietOps
                             /\ p[i].op = "async_terminate" => p[i].a \in Async /\ p[i].s \in Status
                             /\ p[i].op = "async_terminate" => TermAt(asy', dead', qfd', p, i)
                             /\ p[i].op = "async_wake_up" => p[i].s \in {"alerted", "closed"}
                             /\ p[i].op = "async_wake_up" /\ p[i].s = "closed" =>
                                  i = 1 /\ ~qfd'[p[i].q],
         Todo[1].op \in CloseOps /\ Todo[1].a \in Async /\ ~qfd[asy[Todo[1].a].type] => p = <<>>
  PROVE  Core'
<1>1. Pushable(p, Todo)
  <2>1. \A i \in DOMAIN p : p[i].op \notin FirstOps \cup CoveredOps \cup {"dequeue_apc"}
    BY Zenon DEF QuietOps, FirstOps, CoveredOps
  <2>2. \A i \in 2 .. Len(p) : i \in DOMAIN p
    BY HeadIn, Zenon DEF StepTo
  <2>3. \A i \in DOMAIN p : Fine(p[i])
    BY <2>1, Zenon DEF Fine, CoveredOps, FirstOps
  <2>4. \A i \in DOMAIN p : p[i].op \notin {"dequeue_apc", "async_set_result", "restart"}
    BY <2>1, Zenon DEF FirstOps
  <2> QED BY <2>1, <2>2, <2>3, <2>4, Zenon DEF Pushable
<1>2. Keeps
  BY Zenon DEF Keeps
<1>3. Calls'
  <2>1. Todo[1].op \in CloseOps /\ Todo[1].a \in Async /\ ~qfd[asy[Todo[1].a].type] =>
           \A i \in DOMAIN p : p[i].op \in CloseOps /\ p[i].a = Todo[1].a
    BY EmptyLen
  <2>2. \A i \in DOMAIN p : p[i].op # "clear_apc"
    BY Zenon DEF QuietOps
  <2> QED BY <1>1, <1>2, <2>1, <2>2, PushCalls, Zenon DEF Core
<1>4. ASSUME NEW a \in Async PROVE Account(a)'
  <2>1. /\ ReleaseOf(a).op = "release" /\ FreeOf(a).op = "free"
    BY CallOps, Zenon
  <2>2. \A i \in DOMAIN p : p[i].op \notin FirstOps \cup {"release", "free", "dequeue_apc"}
    BY Zenon DEF QuietOps, FirstOps
  <2>3. ~Has(p, ReleaseOf(a)) /\ ~Has(p, FreeOf(a)) /\ Todo[1] # ReleaseOf(a) /\ Todo[1] # FreeOf(a)
    BY <2>1, <2>2, Zenon DEF Has
  <2>4. \A op \in FirstOps : ~Heads(Todo, op, a) /\ ~Heads(p, op, a)
    <3>1. p # <<>> => 1 \in DOMAIN p
      BY HeadIn, Zenon DEF StepTo
    <3> QED BY <2>2, <3>1, Zenon DEF Heads
  <2>5. Posted(a)' <=> Posted(a)
    BY Zenon DEF Posted
  <2>6. SameAccount(a)
    BY Zenon DEF SameAccount
  <2> QED BY <2>2, <2>3, <2>4, <2>5, <2>6, Frame, Zenon DEF Core, Calls
<1>5. Queues' /\ Apcs'
  BY Zenon DEF Core, Queues, Apcs
<1> QED BY <1>3, <1>4, <1>5, Zenon DEF Core

\* The calls of the poll entry, none of which ends an operation.
FdCalls == {x \in CallType : /\ x.op \in QuietOps \ {"async_terminate"}
                             /\ x.op = "async_wake_up" => x.s = "alerted"}

LEMMA FdQuiet ==
  ASSUME ListFacts, Core, TypeOK', OneCtx', NEW p \in Seq(FdCalls), StepTo(p),
         UNCHANGED <<asy, queue, qfd, sysApc, running, dead>>,
         Todo[1].op \notin FirstOps \cup {"release", "free", "dequeue_apc"},
         Todo[1].op \in CloseOps /\ Todo[1].a \in Async /\ ~qfd[asy[Todo[1].a].type] => p = <<>>
  PROVE  Core'
<1>1. \A i \in DOMAIN p : p[i] \in FdCalls
  OBVIOUS
<1>2. \A i \in DOMAIN p : /\ p[i].op \in QuietOps /\ p[i].op # "async_terminate"
                          /\ p[i].op = "async_wake_up" => p[i].s = "alerted"
  BY <1>1, Zenon DEF FdCalls
<1> QED BY <1>2, QuietStep, Zenon

LEMMA FdAct ==
  ASSUME ListFacts, Core, NEW c \in Ctx, NEW op, Now(c, op), NEW p \in Seq(FdCalls), Then(c, p),
         UNCHANGED <<asy, qVars, fileVars, apcVars, dead, packets>>, fd' \in FdType,
         op \notin FirstOps \cup {"release", "free", "dequeue_apc"},
         op \in CloseOps /\ Arg(c).a \in Async /\ ~qfd[asy[Arg(c).a].type] => p = <<>>
  PROVE  Core' /\ StepTo(p) /\ Todo[1].op = op /\ Todo[1] = Arg(c)
<1>1. p \in Seq(CallType)
  <2>1. FdCalls \subseteq CallType
    BY Zenon DEF FdCalls
  <2> QED BY <2>1
<1>2. work[c] # <<>> /\ Arg(c).op = op
  BY Zenon DEF Now, Arg
<1>3. /\ Todo[1] = Arg(c) /\ OneCtx' /\ StepTo(p) /\ work' \in [Ctx -> Seq(CallType)]
  BY <1>1, <1>2, Acting, Zenon DEF Core, StepTo
<1>4. TypeOK'
  BY <1>3, Zenon DEF Core, TypeOK, qVars, fileVars, apcVars
<1>5. Core'
  BY <1>2, <1>3, <1>4, FdQuiet, Zenon DEF qVars, apcVars
<1> QED BY <1>2, <1>3, <1>5, Zenon

LEMMA OneFdCall ==
  ASSUME NEW ev \in SUBSET Event, NEW op \in {"fd_poll_event", "poll_event", "polled", "set_fd_events", "rearm"}
  PROVE  <<FdCall(op, ev)>> \in Seq(FdCalls) /\ <<>> \in Seq(FdCalls) /\ FdCall(op, ev) \in FdCalls
<1>0. op \in Ops
  BY Zenon DEF Ops
<1>1. FdCall(op, ev) \in CallType /\ FdCall(op, ev).op = op
  BY <1>0, CallTyped, Zenon DEF FdCall
<1>2. FdCall(op, ev) \in FdCalls
  BY <1>1, Zenon DEF FdCalls, QuietOps
<1> HIDE DEF FdCalls
<1> QED BY <1>2

LEMMA ArgTyped ==
  ASSUME TypeOK, NEW c \in Ctx, work[c] # <<>>
  PROVE  Arg(c) \in CallType /\ Arg(c).ev \in SUBSET Event
<1>1. Arg(c) \in CallType
  BY DEF TypeOK, Arg
<1> QED BY <1>1, Zenon DEF CallType

LEMMA FileTyped ==
  ASSUME TypeOK
  PROVE  FilePoll \in SUBSET Event /\ PollEvents \in SUBSET Queue /\ PollEvents \in SUBSET Event
BY Zenon DEF TypeOK, FilePoll, Event, PollEvents

LEMMA CoreSetFdEvents ==
  ASSUME ListFacts, Core, NEW c \in Ctx, SetFdEvents(c)
  PROVE  Core'
<1>1. Now(c, "set_fd_events") /\ work[c] # <<>>
  BY Zenon DEF SetFdEvents, Now
<1>2. Arg(c).ev \in SUBSET Event /\ FilePoll \in SUBSET Event /\ fd \in FdType
  BY <1>1, ArgTyped, FileTyped, Zenon DEF Core, TypeOK
<1>3. fd' \in FdType
  <2> DEFINE e == Arg(c).ev
  <2>1. \/ fd' = [fd EXCEPT !.state = "removed", !.events = {"err"}, !.key = {}]
        \/ fd' = [fd EXCEPT !.state = "added", !.events = e, !.key = e \cup {"hup"}]
        \/ fd' = fd
    BY Zenon DEF SetFdEvents
  <2>2. e \in SUBSET (Event \cup {"err"}) /\ e \cup {"hup"} \in SUBSET Event
    BY <1>2, Zenon DEF Event
  <2>3. {"err"} \in SUBSET (Event \cup {"err"}) /\ {} \in SUBSET Event
    BY Zenon
  <2> DEFINE k == e \cup {"hup"}
             x == {"err"}
             E1 == SUBSET (Event \cup {"err"})
             E2 == SUBSET Event
  <2>4. FdType = [open : BOOLEAN, state : {"uninit", "added", "removed"},
                  events : E1, key : E2, pending : E2, port : BOOLEAN]
    BY Zenon DEF FdType
  <2>5. /\ e \in E1 /\ k \in E2 /\ x \in E1 /\ {} \in E2
        /\ \/ fd' = [fd EXCEPT !.state = "removed", !.events = x, !.key = {}]
           \/ fd' = [fd EXCEPT !.state = "added", !.events = e, !.key = k]
           \/ fd' = fd
    BY <2>1, <2>2, <2>3, Zenon
  <2> HIDE DEF e, k, x, E1, E2
  <2> QED BY <1>2, <2>4, <2>5, Zenon
<1>4. \E p \in Seq(FdCalls) : Then(c, p)
  <2> DEFINE mask == FilePoll \cap (Arg(c).ev \cup {"hup"})
  <2>1. mask \in SUBSET Event
    BY <1>2, Zenon
  <2>2. Then(c, <<>>) \/ Then(c, <<FdCall("fd_poll_event", mask)>>)
    BY Zenon DEF SetFdEvents
  <2> HIDE DEF mask
  <2> QED BY <2>1, <2>2, OneFdCall, Zenon
<1>5. "set_fd_events" \notin FirstOps \cup CloseOps \cup {"release", "free", "dequeue_apc"}
  BY Zenon DEF FirstOps, CloseOps
<1>6. UNCHANGED <<asy, qVars, fileVars, apcVars, dead, packets>>
  BY Zenon DEF SetFdEvents
<1> QED BY <1>1, <1>3, <1>4, <1>5, <1>6, FdAct, Zenon

LEMMA CorePollWake ==
  ASSUME ListFacts, Core, NEW c \in Ctx, PollWake(c)
  PROVE  Core'
<1>1. Now(c, "pollwake") /\ work[c] # <<>>
  BY Zenon DEF PollWake, Now
<1>2. Arg(c).ev \in SUBSET Event /\ FilePoll \in SUBSET Event /\ fd \in FdType
  BY <1>1, ArgTyped, FileTyped, Zenon DEF Core, TypeOK
<1>3. \E p \in Seq(FdCalls) : Then(c, p)
  <2> DEFINE mask == FilePoll \cap Arg(c).ev
  <2>1. mask \in SUBSET Event
    BY <1>2, Zenon
  <2>2. Then(c, <<>>) \/ Then(c, <<FdCall("fd_poll_event", mask)>>)
    BY Zenon DEF PollWake
  <2> HIDE DEF mask
  <2> QED BY <2>1, <2>2, OneFdCall, Zenon
<1>5. "pollwake" \notin FirstOps \cup CloseOps \cup {"release", "free", "dequeue_apc"}
  BY Zenon DEF FirstOps, CloseOps
<1>6. UNCHANGED <<asy, qVars, fileVars, apcVars, dead, packets>> /\ fd' \in FdType
  BY <1>2, Zenon DEF PollWake
<1> QED BY <1>1, <1>3, <1>5, <1>6, FdAct, Zenon

LEMMA CoreFdPollEvent ==
  ASSUME ListFacts, Core, NEW c \in Ctx, FdPollEvent(c)
  PROVE  Core'
<1>1. Now(c, "fd_poll_event") /\ work[c] # <<>>
  BY Zenon DEF FdPollEvent, Now
<1>2. Arg(c).ev \in SUBSET Event /\ fd \in FdType
  BY <1>1, ArgTyped, Zenon DEF Core, TypeOK
<1>3. \E p \in Seq(FdCalls) : Then(c, p)
  <2> DEFINE x == FdCall("poll_event", Arg(c).ev)
             y == FdCall("polled", {})
  <2>1. x \in FdCalls /\ y \in FdCalls /\ <<>> \in Seq(FdCalls)
    BY <1>2, OneFdCall, Zenon
  <2>2. Then(c, <<>>) \/ Then(c, <<x, y>>)
    BY Zenon DEF FdPollEvent
  <2> HIDE DEF x, y
  <2>3. <<x, y>> \in Seq(FdCalls)
    BY <2>1
  <2> QED BY <2>1, <2>2, <2>3, Zenon
<1>5. "fd_poll_event" \notin FirstOps \cup CloseOps \cup {"release", "free", "dequeue_apc"}
  BY Zenon DEF FirstOps, CloseOps
<1>6. UNCHANGED <<asy, qVars, fileVars, apcVars, dead, packets>> /\ fd' \in FdType
  BY <1>2, Zenon DEF FdPollEvent, FdType
<1> QED BY <1>1, <1>3, <1>5, <1>6, FdAct, Zenon

LEMMA CoreFdEnds ==
  ASSUME ListFacts, Core, NEW c \in Ctx, FdPollEventEnd(c) \/ FdDestroyEnd(c)
  PROVE  Core'
<1>1. \E op \in {"polled", "fd_destroyed"} : Now(c, op) /\ Then(c, <<>>)
  BY Zenon DEF FdPollEventEnd, FdDestroyEnd
<1>2. fd \in FdType
  BY Zenon DEF Core, TypeOK
<1>3. <<>> \in Seq(FdCalls)
  OBVIOUS
<1>5. \A op \in {"polled", "fd_destroyed"} :
         op \notin FirstOps \cup CloseOps \cup {"release", "free", "dequeue_apc"}
  BY Zenon DEF FirstOps, CloseOps
<1>6. UNCHANGED <<asy, qVars, fileVars, apcVars, dead, packets>> /\ fd' \in FdType
  BY <1>2, Zenon DEF FdPollEventEnd, FdDestroyEnd, FdType
<1> QED BY <1>1, <1>3, <1>5, <1>6, FdAct, Zenon

LEMMA CorePollEvent ==
  ASSUME ListFacts, Core, NEW c \in Ctx, PollEvent(c)
  PROVE  Core'
<1>1. Now(c, "poll_event") /\ work[c] # <<>>
  BY Zenon DEF PollEvent, Now
<1>2. fd \in FdType
  BY Zenon DEF Core, TypeOK
<1>3. \E p \in Seq(FdCalls) : Then(c, p)
  <2> DEFINE wake(q) == IF Arg(c).ev \cap {q, "hup"} # {}
                        THEN <<QueueCall("async_wake_up", q, "alerted")>> ELSE <<>>
             rest == IF "hup" \in Arg(c).ev THEN <<FdCall("set_fd_events", {"hup"})>>
                                            ELSE <<FdCall("rearm", {})>>
  <2>1. Then(c, wake("read") \o wake("write") \o rest)
    BY Zenon DEF PollEvent
  <2>2. \A q \in Queue : wake(q) \in Seq(FdCalls)
    <3> SUFFICES ASSUME NEW q \in Queue PROVE wake(q) \in Seq(FdCalls)
      BY Zenon
    <3>1. /\ QueueCall("async_wake_up", q, "alerted") \in CallType
          /\ QueueCall("async_wake_up", q, "alerted").op = "async_wake_up"
          /\ QueueCall("async_wake_up", q, "alerted").s = "alerted"
      BY CallTyped, Zenon DEF Status, QueueCall, Ops
    <3>2. QueueCall("async_wake_up", q, "alerted") \in FdCalls
      BY <3>1, Zenon DEF FdCalls, QuietOps
    <3> QED BY <3>2
  <2>3. rest \in Seq(FdCalls)
    <3>1. {"hup"} \in SUBSET Event /\ {} \in SUBSET Event
      BY Zenon DEF Event
    <3>2. <<FdCall("set_fd_events", {"hup"})>> \in Seq(FdCalls) /\ <<FdCall("rearm", {})>> \in Seq(FdCalls)
      BY <3>1, OneFdCall, Zenon
    <3> QED BY <3>2, Zenon
  <2>4. "read" \in Queue /\ "write" \in Queue
    BY Zenon DEF Queue
  <2> HIDE DEF wake, rest
  <2>5. wake("read") \o wake("write") \o rest \in Seq(FdCalls)
    BY <2>2, <2>3, <2>4
  <2> QED BY <2>1, <2>5, Zenon
<1>5. "poll_event" \notin FirstOps \cup CloseOps \cup {"release", "free", "dequeue_apc"}
  BY Zenon DEF FirstOps, CloseOps
<1>6. UNCHANGED <<asy, qVars, fileVars, apcVars, dead, packets>> /\ fd' \in FdType
  BY <1>2, Zenon DEF PollEvent
<1> QED BY <1>1, <1>3, <1>5, <1>6, FdAct, Zenon

LEMMA CoreRearm ==
  ASSUME ListFacts, Core, NEW c \in Ctx, Rearm(c)
  PROVE  Core'
<1>1. Now(c, "rearm") /\ Then(c, <<FdCall("set_fd_events", PollEvents)>>)
  BY Zenon DEF Rearm
<1>2. fd \in FdType /\ PollEvents \in SUBSET Event
  BY FileTyped, Zenon DEF Core, TypeOK
<1>3. <<FdCall("set_fd_events", PollEvents)>> \in Seq(FdCalls)
  BY <1>2, OneFdCall, Zenon
<1>5. "rearm" \notin FirstOps \cup CloseOps \cup {"release", "free", "dequeue_apc"}
  BY Zenon DEF FirstOps, CloseOps
<1>6. UNCHANGED <<asy, qVars, fileVars, apcVars, dead, packets>> /\ fd' \in FdType
  BY <1>2, Zenon DEF Rearm
<1> QED BY <1>1, <1>3, <1>5, <1>6, FdAct, Zenon

LEMMA CoreReselect ==
  ASSUME ListFacts, Core, NEW c \in Ctx, Reselect(c)
  PROVE  Core'
<1>1. Now(c, "async_reselect")
  BY Zenon DEF Reselect
<1>2. fd \in FdType /\ PollEvents \in SUBSET Event /\ FilePoll \in SUBSET Event
  BY FileTyped, Zenon DEF Core, TypeOK
<1>3. \E p \in Seq(FdCalls) : Then(c, p) /\ (~qfd[asy[Arg(c).a].type] => p = <<>>)
  <2> DEFINE ev == FilePoll \cap PollEvents
  <2>1. ev \in SUBSET Event
    BY <1>2, Zenon
  <2>2. /\ ~qfd[asy[Arg(c).a].type] => Then(c, <<>>)
        /\ \/ Then(c, <<>>)
           \/ Then(c, <<FdCall("poll_event", ev)>>)
           \/ Then(c, <<FdCall("set_fd_events", PollEvents)>>)
    BY Zenon DEF Reselect
  <2> HIDE DEF ev
  <2>3. /\ <<>> \in Seq(FdCalls) /\ <<FdCall("poll_event", ev)>> \in Seq(FdCalls)
        /\ <<FdCall("set_fd_events", PollEvents)>> \in Seq(FdCalls)
    BY <1>2, <2>1, OneFdCall, Zenon
  <2> QED BY <2>2, <2>3, Zenon
<1>5. "async_reselect" \notin FirstOps \cup {"release", "free", "dequeue_apc"}
  BY Zenon DEF FirstOps
<1>6. UNCHANGED <<asy, qVars, fileVars, apcVars, dead, packets>> /\ fd' \in FdType
  BY <1>2, Zenon DEF Reselect
<1> QED BY <1>1, <1>3, <1>5, <1>6, FdAct, Zenon

LEMMA CoreFreeQueue ==
  ASSUME ListFacts, Core, NEW c \in Ctx, FreeQueue(c)
  PROVE  Core'
<1> DEFINE q == Arg(c).q
           x == QueueCall("async_wake_up", q, "closed")
           p == <<x>>
<1>1. work[c] # <<>> /\ Arg(c).op = "free_async_queue" /\ Then(c, p)
  BY Zenon DEF FreeQueue, Now, Arg
<1>2. q \in Queue
  BY <1>1, ArgTyped, Zenon DEF CallType, Core
<1>3. x \in CallType /\ x.op = "async_wake_up" /\ x.s = "closed" /\ x.q = q
  BY <1>2, CallTyped, Zenon DEF QueueCall, Ops, Status, Ended
<1>4. /\ asy' = asy /\ queue' = queue /\ fd' = fd /\ ready' = ready /\ hup' = hup /\ sysApc' = sysApc
      /\ running' = running /\ dead' = dead /\ packets' = packets
      /\ qport' = [qport EXCEPT ![q] = fd.port] /\ qfd' = [qfd EXCEPT ![q] = FALSE]
  BY Zenon DEF FreeQueue, fileVars, apcVars
<1> HIDE DEF q, x
<1>5. p \in Seq(CallType) /\ DOMAIN p = {1} /\ p[1] = x
  BY <1>3
<1> HIDE DEF p
<1>6. /\ Todo[1] = Arg(c) /\ OneCtx' /\ StepTo(p) /\ work' \in [Ctx -> Seq(CallType)]
  BY <1>1, <1>5, Acting, Zenon DEF Core, StepTo
<1>7. TypeOK'
  BY <1>2, <1>4, <1>6, Zenon DEF Core, TypeOK, FdType
<1>8. (\A r \in Queue : ~qfd[r] => ~qfd'[r]) /\ ~qfd'[q]
  BY <1>2, <1>4, Zenon DEF Core, TypeOK
<1>9. Todo[1].op \notin FirstOps \cup CloseOps \cup {"release", "free", "dequeue_apc"}
  BY <1>1, <1>6, Zenon DEF FirstOps, CloseOps
<1>10. x.op \in QuietOps
  BY <1>3, Zenon DEF QuietOps
<1> QED BY <1>3, <1>4, <1>5, <1>6, <1>7, <1>8, <1>9, <1>10, QuietStep, Zenon

LEMMA EachAt ==
  ASSUME NEW seq \in Seq(Async), NEW op \in Ops, NEW s \in Status \cup {"pending"}
  PROVE  /\ Each(seq, op, s) \in Seq(CallType) /\ Len(Each(seq, op, s)) = Len(seq)
         /\ DOMAIN Each(seq, op, s) = DOMAIN seq
         /\ \A i \in DOMAIN seq : Each(seq, op, s)[i] = Call(op, seq[i], s)
<1>1. \A i \in DOMAIN seq : Call(op, seq[i], s) \in CallType
  BY CallTyped
<1>2. DOMAIN seq = 1 .. Len(seq) /\ Len(seq) \in Nat
  OBVIOUS
<1> QED BY <1>1, <1>2 DEF Each

\* Operations found in a queue.
LEMMA InQueue ==
  ASSUME Core, NEW q \in Queue, NEW i \in DOMAIN queue[q]
  PROVE  LET a == queue[q][i] IN
         a \in Async /\ asy[a].ref > 0 /\ asy[a].type = q /\ asy[a].life = "live"
<1> DEFINE a == queue[q][i]
<1>1. a \in Async
  BY DEF Core, TypeOK
<1>2. Has(queue[q], a)
  BY Zenon DEF Has
<1> HIDE DEF a
<1>3. asy[a].ref > 0 /\ asy[a].type = q
  BY <1>1, <1>2, Zenon DEF Core, Queues
<1>4. Living(a)
  BY <1>1, Zenon DEF Core, Account
<1> QED BY <1>1, <1>3, <1>4 DEF Living, a

LEMMA CoreWakes ==
  ASSUME ListFacts, Core, NEW c \in Ctx, work[c] # <<>>, Arg(c).op \in {"async_wake_up", "async_wake_up_by"},
         NEW seq \in Seq(Async), NEW s \in Status, Then(c, Each(seq, "async_terminate", s)),
         UNCHANGED <<asy, qVars, fd, fileVars, apcVars, dead, packets>>,
         \A i \in DOMAIN seq : asy[seq[i]].life # "unused" /\ asy[seq[i]].ref > 0,
         \/ s = "cancelled"
         \/ s = "alerted" /\ Len(seq) <= 1
         \/ /\ s = "closed"
            /\ \A i \in DOMAIN seq : ~qfd[asy[seq[i]].type]
            /\ \A i, j \in DOMAIN seq : asy[seq[i]].type = asy[seq[j]].type /\ (seq[i] = seq[j] => i = j)
  PROVE  Core'
<1> DEFINE p == Each(seq, "async_terminate", s)
<1>1. "async_terminate" \in Ops /\ s \in Status \cup {"pending"}
  BY Zenon DEF Ops
<1>2. /\ p \in Seq(CallType) /\ DOMAIN p = DOMAIN seq /\ Len(p) = Len(seq)
      /\ \A i \in DOMAIN p : p[i] = Call("async_terminate", seq[i], s)
  BY <1>1, EachAt, Zenon
<1>3. Then(c, p)
  BY Zenon
<1> HIDE DEF p
<1>4. \A i \in DOMAIN p : p[i].op = "async_terminate" /\ p[i].a = seq[i] /\ p[i].s = s /\ seq[i] \in Async
  BY <1>2, CallParts
<1>5. /\ Todo[1] = Arg(c) /\ OneCtx' /\ StepTo(p) /\ work' \in [Ctx -> Seq(CallType)]
  BY <1>2, <1>3, Acting, Zenon DEF Core, StepTo
<1>6. TypeOK'
  BY <1>5, Zenon DEF Core, TypeOK, qVars, fileVars, apcVars
<1>7. Todo[1].op \notin FirstOps \cup CloseOps \cup {"release", "free", "dequeue_apc"}
  BY <1>5, Zenon DEF FirstOps, CloseOps
<1>8. UNCHANGED <<asy, queue, qfd, sysApc, running, dead>>
  BY Zenon DEF qVars, apcVars
<1>9. ASSUME NEW i \in DOMAIN p PROVE TermAt(asy', dead', qfd', p, i)
  <2>1. i \in 1 .. Len(seq) /\ Len(seq) \in Nat /\ DOMAIN p = 1 .. Len(seq) /\ DOMAIN seq = DOMAIN p
    BY <1>2, <1>9
  <2>2. TermAt(asy, dead, qfd, p, i)
    <3>1. asy[p[i].a].life # "unused" /\ asy[p[i].a].ref > 0
      BY <1>4, <2>1
    <3>2. i > 1 => p[i].s \in {"cancelled", "closed"}
      BY <1>4, <2>1
    <3>3. ASSUME i > 1, p[i].s = "closed", NEW j \in 1 .. i - 1
          PROVE  /\ p[j].op \in CloseOps /\ p[j].a \in Async
                 /\ p[j].a # p[i].a /\ asy[p[j].a].type = asy[p[i].a].type
      <4>1. j \in DOMAIN p /\ j # i /\ s = "closed"
        BY <1>4, <2>1, <3>3
      <4>2. seq[j] # seq[i] /\ asy[seq[j]].type = asy[seq[i]].type
        BY <2>1, <4>1, Zenon
      <4> QED BY <1>4, <4>1, <4>2, Zenon DEF CloseOps
    <3>4. p[i].s = "closed" => ~qfd[asy[p[i].a].type]
      BY <1>4, <2>1, Zenon
    <3> QED BY <3>1, <3>2, <3>3, <3>4, Zenon DEF TermAt
  <2> QED BY <1>8, <2>2, Zenon
<1>10. \A i \in DOMAIN p : p[i].op \in QuietOps /\ p[i].op # "async_wake_up"
  BY <1>4, Zenon DEF QuietOps
<1> QED BY <1>4, <1>5, <1>6, <1>7, <1>8, <1>9, <1>10, QuietStep, Zenon

LEMMA CoreWakeUp ==
  ASSUME ListFacts, Core, NEW c \in Ctx, WakeUp(c)
  PROVE  Core'
<1> DEFINE q == Arg(c).q
           s == Arg(c).s
           all == queue[q]
           woken == IF s = "alerted" /\ all # <<>> THEN <<Head(all)>> ELSE all
<1>1. /\ work[c] # <<>> /\ Arg(c).op = "async_wake_up" /\ Then(c, Each(woken, "async_terminate", s))
      /\ UNCHANGED <<asy, qVars, fd, fileVars, apcVars, dead, packets>>
  BY Zenon DEF WakeUp, Now, Arg
<1>2. Arg(c) \in CallType /\ q \in Queue
  BY <1>1, ArgTyped, Zenon DEF CallType, Core
<1>3. Todo[1] = Arg(c) /\ 1 \in DOMAIN Todo
  <2>1. Todo[1] = Arg(c) /\ Todo # <<>> /\ Todo \in Seq(CallType)
    BY <1>1, TodoIs, Zenon DEF Core
  <2> QED BY <2>1, HeadIn, Zenon
<1>4. s \in {"alerted", "closed"} /\ (s = "closed" => ~qfd[q])
  BY <1>1, <1>3, Zenon DEF Core, Calls, Shaped, Fine, Closes
<1>5. all \in Seq(Async)
  BY <1>2, Zenon DEF Core, TypeOK
<1>6. \A i \in DOMAIN all : asy[all[i]].life # "unused" /\ asy[all[i]].ref > 0 /\ asy[all[i]].type = q
  BY <1>2, InQueue, Zenon
<1>7. \A i, j \in DOMAIN all : all[i] = all[j] => i = j
  BY <1>2, Zenon DEF Core, Queues
<1> HIDE DEF q, s
<1>8. CASE s = "alerted"
  <2>1. woken \in Seq(Async) /\ Len(woken) <= 1 /\ \A i \in DOMAIN woken : i \in DOMAIN all /\ woken[i] = all[i]
    <3> HIDE DEF all
    <3>1. CASE all = <<>>
      <4>1. woken = <<>>
        BY <3>1, Zenon
      <4> HIDE DEF woken
      <4>2. woken \in Seq(Async) /\ Len(woken) = 0
        BY <4>1
      <4> QED BY <4>2
    <3>2. CASE all # <<>>
      <4>1. woken = <<all[1]>> /\ 1 \in DOMAIN all /\ all[1] \in Async
        BY <1>5, <1>8, <3>2
      <4> HIDE DEF woken
      <4>2. woken \in Seq(Async) /\ Len(woken) = 1 /\ DOMAIN woken = {1} /\ woken[1] = all[1]
        BY <4>1
      <4> QED BY <4>1, <4>2
    <3> QED BY <3>1, <3>2, Zenon
  <2> HIDE DEF woken, all
  <2>2. \A i \in DOMAIN woken : asy[woken[i]].life # "unused" /\ asy[woken[i]].ref > 0
    BY <1>6, <2>1, Zenon
  <2>3. s \in Status
    BY <1>4, Zenon DEF Status, Ended
  <2> QED BY <1>1, <1>8, <2>1, <2>2, <2>3, CoreWakes, Zenon
<1>9. CASE s = "closed"
  <2>1. woken = all
    BY <1>9, Zenon
  <2>2. Then(c, Each(all, "async_terminate", s))
    BY <1>1, <2>1, Zenon
  <2> HIDE DEF woken, all
  <2>3. s \in Status
    BY <1>4 DEF Status, Ended
  <2> QED BY <1>1, <1>4, <1>5, <1>6, <1>7, <1>9, <2>2, <2>3, CoreWakes, Zenon
<1> QED BY <1>4, <1>8, <1>9, Zenon

LEMMA CoreWakeUpBy ==
  ASSUME ListFacts, Core, NEW c \in Ctx, WakeUpBy(c)
  PROVE  Core'
<1> DEFINE q == Arg(c).q
           all == queue[q]
           K == {i \in DOMAIN all : Arg(c).a \in {None, all[i], asy[all[i]].thread}}
           mine == Keep(all, K)
<1>1. /\ work[c] # <<>> /\ Arg(c).op = "async_wake_up_by"
      /\ Then(c, Each(mine, "async_terminate", "cancelled"))
      /\ UNCHANGED <<asy, qVars, fd, fileVars, apcVars, dead, packets>>
  BY Zenon DEF WakeUpBy, Now, Arg
<1>2. Arg(c) \in CallType /\ q \in Queue
  BY <1>1, ArgTyped, Zenon DEF CallType, Core
<1>5. all \in Seq(Async) /\ K \in SUBSET DOMAIN all
  BY <1>2, Zenon DEF Core, TypeOK
<1>6. \A i \in DOMAIN all : asy[all[i]].life # "unused" /\ asy[all[i]].ref > 0
  BY <1>2, InQueue, Zenon
<1> HIDE DEF q, all, K
<1>7. mine \in Seq(Async) /\ \A i \in DOMAIN mine : \E k \in DOMAIN all : mine[i] = all[k]
  BY <1>5, KeepAt, Zenon
<1> HIDE DEF mine
<1>8. \A i \in DOMAIN mine : asy[mine[i]].life # "unused" /\ asy[mine[i]].ref > 0
  BY <1>6, <1>7, Zenon
<1>9. "cancelled" \in Status
  BY Zenon DEF Status, Ended
<1> QED BY <1>1, <1>7, <1>8, <1>9, CoreWakes, Zenon

-----------------------------------------------------------------------------
(* Calls on an operation.                                                  *)

\* A call that is followed by one that drops a reference is on a live operation.
LEMMA CoveredLive ==
  ASSUME ListFacts, Core, NEW i \in DOMAIN Todo, Todo[i].op \in CoveredOps, Todo \in Seq(CallType)
  PROVE  LET a == Todo[i].a IN
         /\ a \in Async /\ asy[a].life = "live"
         /\ Has(Todo, ReleaseOf(a)) \/ Has(Todo, FreeOf(a))
         /\ Has(Todo, ReleaseOf(a)) => asy[a].ref > 0
<1> DEFINE a == Todo[i].a
<1>1. a \in Async
  BY Zenon DEF Core, Calls, Shaped, Fine
<1>2. Has(Todo, ReleaseOf(a)) \/ Has(Todo, FreeOf(a))
  <2>1. \E j \in i .. Len(Todo) : Todo[j] = ReleaseOf(a) \/ Todo[j] = FreeOf(a)
    BY Zenon DEF Core, Calls, Covered
  <2>2. \A j \in i .. Len(Todo) : j \in DOMAIN Todo
    BY EmptyLen
  <2> QED BY <2>1, <2>2, Zenon DEF Has
<1> HIDE DEF a
<1>3. Account(a)
  BY <1>1, Zenon DEF Core
<1>4. Has(Todo, ReleaseOf(a)) => asy[a].ref > 0
  <2>1. Has(Todo, ReleaseOf(a)) <=> Count(Todo, ReleaseOf(a)) > 0
    BY CountType, Zenon
  <2>2. Count(Todo, ReleaseOf(a)) \in Nat
    BY CountType, Zenon
  <2> QED BY <1>3, <2>1, <2>2 DEF Account, RefExact
<1>5. asy[a].life = "live"
  BY <1>2, <1>3, <1>4 DEF Account, Living
<1> QED BY <1>1, <1>2, <1>4, <1>5, Zenon DEF a

\* A step that takes a call on the operation b leaves the others alone.
LEMMA OthersKeep ==
  ASSUME ListFacts, Core, NEW p, StepTo(p), Todo[1].op # "dequeue_apc", NEW b, Todo[1].a = b,
         \A i \in DOMAIN p : /\ p[i].op # "dequeue_apc"
                             /\ p[i].op \in CoveredOps => p[i].a = b,
         \A a \in Async : a # b => asy'[a] = asy[a] /\ (Posted(a)' <=> Posted(a)),
         UNCHANGED <<running, dead>>
  PROVE  \A a \in Async : a # b => Account(a)'
<1> SUFFICES ASSUME NEW a \in Async, a # b PROVE Account(a)'
  BY Zenon
<1>1. /\ ReleaseOf(a).op = "release" /\ FreeOf(a).op = "free"
      /\ ReleaseOf(a).a = a /\ FreeOf(a).a = a
  BY CallOps, Zenon
<1>2. Todo[1] # ReleaseOf(a) /\ Todo[1] # FreeOf(a)
  BY <1>1, Zenon
<1>3. ~Has(p, ReleaseOf(a)) /\ ~Has(p, FreeOf(a))
  BY <1>1, Zenon DEF Has, CoveredOps
<1>4. \A op \in FirstOps : ~Heads(Todo, op, a) /\ ~Heads(p, op, a)
  <2>1. p # <<>> => 1 \in DOMAIN p
    BY HeadIn, Zenon DEF StepTo
  <2> QED BY <2>1, Zenon DEF Heads, FirstOps, CoveredOps
<1>5. SameAccount(a)
  BY Zenon DEF SameAccount
<1> QED BY <1>2, <1>3, <1>4, <1>5, Frame, Zenon DEF Core, Calls

\* A step of context c that calls p, begun with the call x.
Takes(c, op, p) ==
  /\ work[c] # <<>> /\ Todo[1].op = op /\ Todo[1] = Arg(c)
  /\ StepTo(p) /\ OneCtx' /\ work' \in [Ctx -> Seq(CallType)]
  /\ 1 \in DOMAIN Todo

LEMMA Taking ==
  ASSUME Core, NEW c \in Ctx, NEW op, Now(c, op), NEW p \in Seq(CallType), Then(c, p)
  PROVE  Takes(c, op, p)
<1>1. work[c] # <<>> /\ Arg(c).op = op
  BY Zenon DEF Now, Arg
<1>2. /\ Todo[1] = Arg(c) /\ OneCtx' /\ StepTo(p) /\ work' \in [Ctx -> Seq(CallType)]
  BY <1>1, Acting, Zenon DEF Core, StepTo
<1>3. 1 \in DOMAIN Todo
  BY <1>2, HeadIn, Zenon DEF StepTo
<1> QED BY <1>1, <1>2, <1>3, Zenon DEF Takes

LEMMA EmptyPush ==
  /\ <<>> \in Seq(CallType) /\ DOMAIN <<>> = {} /\ Len(<<>>) = 0
  /\ \A w : Pushable(<<>>, w)
<1>1. <<>> \in Seq(CallType) /\ DOMAIN <<>> = {} /\ Len(<<>>) = 0 /\ 2 .. 0 = {}
  OBVIOUS
<1> QED BY <1>1, Zenon DEF Pushable

\* The operations the APCs refer to.
LEMMA ApcTyped ==
  ASSUME TypeOK, NEW t \in Thread
  PROVE  /\ sysApc[t] \in Seq([a : Async, s : Status])
         /\ \A i \in DOMAIN sysApc[t] : sysApc[t][i].a \in Async /\ sysApc[t][i].s \in Status
         /\ running[t] # None => /\ running[t] \in RunningApc /\ running[t].a \in Async
                                 /\ running[t].s \in Status
                                 /\ running[t].result \in Status \cup {"pending", None}
<1> DEFINE A == [a : Async, s : Status]
<1>1. sysApc[t] \in Seq(A)
  BY Zenon DEF TypeOK
<1>2. \A x \in A : x.a \in Async /\ x.s \in Status
  BY Zenon
<1> HIDE DEF A
<1>3. \A i \in DOMAIN sysApc[t] : sysApc[t][i] \in A
  BY <1>1
<1>4. running[t] # None => running[t] \in RunningApc
  BY Zenon DEF TypeOK
<1>5. \A x \in RunningApc : x.a \in Async /\ x.s \in Status /\ x.result \in Status \cup {"pending", None}
  BY Zenon DEF RunningApc
<1> QED BY <1>1, <1>2, <1>3, <1>4, <1>5, Zenon DEF A

LEMMA ApcsKept ==
  ASSUME TypeOK, Apcs, UNCHANGED <<sysApc, dead>>,
         \A t \in Thread : running'[t] # None => running[t] # None /\ running'[t].a = running[t].a,
         \A a \in Async : asy'[a].thread = asy[a].thread
  PROVE  Apcs'
<1>1. \A t \in Thread : \A i \in DOMAIN sysApc[t] : asy'[sysApc[t][i].a].thread = t
  BY ApcTyped, Zenon DEF Apcs
<1>2. \A t \in Thread : running'[t] # None => asy'[running'[t].a].thread = t
  BY ApcTyped, Zenon DEF Apcs
<1> QED BY <1>1, <1>2, Zenon DEF Apcs

\* A call that changes nothing that counts of its operation.
LEMMA Touch ==
  ASSUME ListFacts, Core, TypeOK', NEW c \in Ctx, NEW op, Takes(c, op, <<>>),
         op \notin FirstOps \cup {"release", "free", "dequeue_apc"},
         NEW b \in Async, SameAccount(b), asy'[b].type = asy[b].type,
         \A a \in Async : a # b => asy'[a] = asy[a],
         UNCHANGED <<queue, qfd, sysApc, running, dead>>
  PROVE  Core'
<1>1. \A a \in Async : /\ SameAccount(a) /\ asy'[a].type = asy[a].type
                       /\ asy'[a].thread = asy[a].thread /\ asy'[a].ref = asy[a].ref
                       /\ asy'[a].life = asy[a].life
                       /\ (asy[a].status # "pending" => asy'[a].status # "pending")
  BY Zenon DEF SameAccount
<1>2. StepTo(<<>>) /\ Todo[1].op = op
  BY Zenon DEF Takes
<1>3. ASSUME NEW a \in Async PROVE Account(a)'
  <2>1. /\ ReleaseOf(a).op = "release" /\ FreeOf(a).op = "free"
    BY CallOps, Zenon
  <2>2. /\ Todo[1] # ReleaseOf(a) /\ Todo[1] # FreeOf(a)
        /\ ~Has(<<>>, ReleaseOf(a)) /\ ~Has(<<>>, FreeOf(a))
        /\ \A o \in FirstOps : ~Heads(Todo, o, a) /\ ~Heads(<<>>, o, a)
    BY <1>2, <2>1, EmptyPush, Zenon DEF Heads, Has
  <2>3. Posted(a)' <=> Posted(a)
    BY <1>1, Zenon DEF Posted
  <2> QED BY <1>1, <1>2, <2>2, <2>3, EmptyPush, Frame, Zenon DEF Core, Calls
<1>4. Keeps
  BY <1>1, Zenon DEF Keeps
<1>5. \A k \in 2 .. Len(Todo) : Todo[k].op = "async_terminate" => Todo[k].a \in Async
  <2>1. \A k \in 2 .. Len(Todo) : k \in DOMAIN Todo
    BY <1>2, HeadIn, Zenon DEF StepTo
  <2> QED BY <2>1, Zenon DEF Core, Calls, Shaped, Fine
<1>6. Calls'
  BY <1>1, <1>2, <1>4, <1>5, EmptyPush, PushCalls, Zenon DEF Core
<1>7. Queues'
  BY <1>1, Zenon DEF Core, Queues
<1>8. Apcs'
  BY <1>1, ApcsKept, Zenon DEF Core
<1>9. OneCtx'
  BY Zenon DEF Takes
<1> QED BY <1>3, <1>6, <1>7, <1>8, <1>9, Zenon DEF Core

LEMMA AsyFields ==
  ASSUME TypeOK, NEW b \in Async
  PROVE  /\ asy[b].life \in {"unused", "live", "freed"} /\ asy[b].type \in Queue
         /\ asy[b].thread \in Thread \cup {None} /\ asy[b].status \in Status \cup {"pending"}
         /\ asy[b].apc \in BOOLEAN /\ asy[b].timeout \in BOOLEAN /\ asy[b].ref \in Nat
         /\ asy[b].owed \in BOOLEAN /\ asy[b].result \in Status \cup {None}
BY Zenon DEF TypeOK, AsyncType

\* The structure of one operation is assigned.
LEMMA Assigned ==
  ASSUME TypeOK, NEW b \in Async, NEW r \in AsyncType, asy' = [asy EXCEPT ![b] = r]
  PROVE  /\ asy' \in [Async -> AsyncType] /\ asy'[b] = r
         /\ \A a \in Async : a # b => asy'[a] = asy[a]
<1> HIDE DEF AsyncType
<1> QED BY Zenon DEF TypeOK

LEMMA CoreClearApc ==
  ASSUME ListFacts, Core, NEW c \in Ctx, ClearApc(c)
  PROVE  Core'
<1> DEFINE b == Arg(c).a
<1>1. /\ Now(c, "clear_apc") /\ Then(c, <<>>) /\ asy' = [asy EXCEPT ![b].apc = FALSE]
      /\ UNCHANGED <<qVars, fd, fileVars, apcVars, dead, packets>>
  BY Zenon DEF ClearApc
<1>2. Takes(c, "clear_apc", <<>>)
  BY <1>1, EmptyPush, Taking, Zenon
<1>3. b \in Async /\ asy[b].status # "pending"
  BY <1>2, Zenon DEF Takes, Core, Calls, Clears, Shaped, Fine, CoveredOps
<1> HIDE DEF b
<1> DEFINE r == [asy[b] EXCEPT !.apc = FALSE]
<1>a. asy[b] \in AsyncType
  BY <1>3, Zenon DEF Core, TypeOK
<1>b. /\ r \in AsyncType /\ r.life = asy[b].life /\ r.type = asy[b].type /\ r.thread = asy[b].thread
      /\ r.ref = asy[b].ref /\ r.result = asy[b].result /\ r.status = asy[b].status
      /\ r.timeout = asy[b].timeout
  BY <1>a, Zenon DEF AsyncType
<1> HIDE DEF r
<1>4. /\ asy' \in [Async -> AsyncType] /\ asy'[b] = r
      /\ \A a \in Async : a # b => asy'[a] = asy[a]
  BY <1>1, <1>3, <1>b, Assigned, Zenon DEF Core, r
<1>5. SameAccount(b) /\ asy'[b].type = asy[b].type
  BY <1>3, <1>4, <1>b, Zenon DEF SameAccount
<1>6. TypeOK'
  BY <1>1, <1>2, <1>4, Zenon DEF Core, TypeOK, qVars, fileVars, apcVars, Takes
<1>7. UNCHANGED <<queue, qfd, sysApc, running, dead>>
  BY <1>1, Zenon DEF qVars, apcVars
<1>8. "clear_apc" \notin FirstOps \cup {"release", "free", "dequeue_apc"}
  BY Zenon DEF FirstOps
<1> QED BY <1>2, <1>3, <1>4, <1>5, <1>6, <1>7, <1>8, Touch, Zenon

LEMMA CoreSetTimeout ==
  ASSUME ListFacts, Core, NEW c \in Ctx, SetTimeout(c)
  PROVE  Core'
<1> DEFINE b == Arg(c).a
<1>1. /\ Now(c, "set_timeout") /\ Then(c, <<>>) /\ asy' = [asy EXCEPT ![b].timeout = TRUE]
      /\ UNCHANGED <<qVars, fd, fileVars, apcVars, dead, packets>>
  BY Zenon DEF SetTimeout
<1>2. Takes(c, "set_timeout", <<>>)
  BY <1>1, EmptyPush, Taking, Zenon
<1>3. b \in Async /\ asy[b].life = "live"
  BY <1>2, CoveredLive, Zenon DEF Takes, CoveredOps, StepTo
<1> HIDE DEF b
<1> DEFINE r == [asy[b] EXCEPT !.timeout = TRUE]
<1>a. asy[b] \in AsyncType
  BY <1>3, Zenon DEF Core, TypeOK
<1>b. /\ r \in AsyncType /\ r.life = asy[b].life /\ r.type = asy[b].type /\ r.thread = asy[b].thread
      /\ r.ref = asy[b].ref /\ r.result = asy[b].result /\ r.status = asy[b].status
      /\ r.apc = asy[b].apc
  BY <1>a, Zenon DEF AsyncType
<1> HIDE DEF r
<1>4. /\ asy' \in [Async -> AsyncType] /\ asy'[b] = r
      /\ \A a \in Async : a # b => asy'[a] = asy[a]
  BY <1>1, <1>3, <1>b, Assigned, Zenon DEF Core, r
<1>5. SameAccount(b) /\ asy'[b].type = asy[b].type
  BY <1>3, <1>4, <1>b, Zenon DEF SameAccount
<1>6. TypeOK'
  BY <1>1, <1>2, <1>4, Zenon DEF Core, TypeOK, qVars, fileVars, apcVars, Takes
<1>7. UNCHANGED <<queue, qfd, sysApc, running, dead>>
  BY <1>1, Zenon DEF qVars, apcVars
<1>8. "set_timeout" \notin FirstOps \cup {"release", "free", "dequeue_apc"}
  BY Zenon DEF FirstOps
<1> QED BY <1>2, <1>3, <1>4, <1>5, <1>6, <1>7, <1>8, Touch, Zenon

\* A list of calls on the operation b, which ends with release or free.
LEMMA PushOn ==
  ASSUME NEW b \in Async, NEW p \in Seq(CallType), NEW w, Len(p) > 0,
         p[Len(p)] = ReleaseOf(b) \/ p[Len(p)] = FreeOf(b),
         \A i \in DOMAIN p :
            /\ p[i].a = b
            /\ p[i].op \in {"async_queue_apc", "clear_apc", "async_reselect", "release", "free"}
            /\ p[i].op = "release" => p[i] = ReleaseOf(b)
            /\ p[i].op = "free" => p[i] = FreeOf(b)
            /\ p[i].op = "async_queue_apc" => i = 1 /\ p[i].s \in Status
  PROVE  /\ Pushable(p, w)
         /\ \A i \in DOMAIN p : p[i].op \in CloseOps /\ p[i].op # "dequeue_apc"
<1>1. DOMAIN p = 1 .. Len(p) /\ Len(p) \in Nat
  OBVIOUS
<1>2. \A i \in 2 .. Len(p) : p[i].op \notin FirstOps
  BY <1>1 DEF FirstOps
<1>3. \A i \in DOMAIN p : /\ Fine(p[i])
                          /\ p[i].op \notin {"dequeue_apc", "async_set_result", "restart"}
  BY Zenon DEF Fine, CoveredOps
<1>4. \A i \in DOMAIN p : Len(p) \in i .. Len(p)
  BY <1>1
<1>5. \A i \in DOMAIN p : p[i].op \in CloseOps
  BY Zenon DEF CloseOps
<1> QED BY <1>2, <1>3, <1>4, <1>5, Zenon DEF Pushable

LEMMA CoreTerminatePending ==
  ASSUME ListFacts, Core, NEW c \in Ctx, Terminate(c), NEW b, NEW s, b = Arg(c).a, s = Arg(c).s,
         asy[b].status = "pending"
  PROVE  Core'
<1> DEFINE x == Call("async_queue_apc", b, s)
           y == Call("clear_apc", b, "pending")
           z == Call("async_reselect", b, "pending")
           p == <<x, y, z, ReleaseOf(b)>>
           r == [asy[b] EXCEPT !.status = s]
<1>1. /\ Now(c, "async_terminate") /\ Then(c, p) /\ asy' = [asy EXCEPT ![b] = r]
      /\ UNCHANGED <<qVars, fd, fileVars, apcVars, dead, packets>>
  BY Zenon DEF Terminate, ReleaseOf
<1>2. work[c] # <<>> /\ Arg(c).op = "async_terminate"
  BY <1>1, Zenon DEF Now, Arg
<1>3. Todo[1] = Arg(c) /\ 1 \in DOMAIN Todo
  BY <1>2, TodoIs, HeadIn, Zenon DEF Core
<1>4. b \in Async /\ s \in Status /\ TermAt(asy, dead, qfd, Todo, 1)
  BY <1>2, <1>3, Zenon DEF Core, Calls, Shaped, Fine, Terminates
<1>5. asy[b].life # "unused"
  BY <1>3, <1>4, Zenon DEF TermAt
<1>6. /\ x \in CallType /\ y \in CallType /\ z \in CallType /\ ReleaseOf(b) \in CallType
      /\ x.op = "async_queue_apc" /\ x.a = b /\ x.s = s
      /\ y.op = "clear_apc" /\ y.a = b /\ z.op = "async_reselect" /\ z.a = b
      /\ ReleaseOf(b).op = "release" /\ ReleaseOf(b).a = b /\ FreeOf(b).op = "free"
  BY <1>4, CallTyped, Zenon DEF Ops, Call, ReleaseOf, FreeOf
<1>7. /\ asy[b] \in AsyncType /\ r \in AsyncType /\ r.status = s /\ r.life = asy[b].life
      /\ r.type = asy[b].type /\ r.thread = asy[b].thread /\ r.ref = asy[b].ref
      /\ r.result = asy[b].result /\ r.apc = asy[b].apc /\ r.timeout = asy[b].timeout
  <2>1. asy[b] \in AsyncType
    BY <1>4, Zenon DEF Core, TypeOK
  <2> QED BY <1>4, <2>1, Zenon DEF AsyncType
<1> HIDE DEF x, y, z, r
<1>8. /\ p \in Seq(CallType) /\ Len(p) = 4 /\ DOMAIN p = {1, 2, 3, 4}
      /\ p[1] = x /\ p[2] = y /\ p[3] = z /\ p[4] = ReleaseOf(b)
  BY <1>6
<1> HIDE DEF p
<1>9. Takes(c, "async_terminate", p)
  BY <1>1, <1>8, Taking, Zenon
<1>10. /\ asy' \in [Async -> AsyncType] /\ asy'[b] = r
       /\ \A a \in Async : a # b => asy'[a] = asy[a]
  BY <1>1, <1>4, <1>7, Assigned, Zenon DEF Core
<1>11. /\ Pushable(p, Todo)
       /\ \A i \in DOMAIN p : p[i].op \in CloseOps /\ p[i].a = b /\ p[i].op # "dequeue_apc"
  <2>1. \A i \in DOMAIN p :
            /\ p[i].a = b
            /\ p[i].op \in {"async_queue_apc", "clear_apc", "async_reselect", "release", "free"}
            /\ p[i].op = "release" => p[i] = ReleaseOf(b)
            /\ p[i].op = "free" => p[i] = FreeOf(b)
            /\ p[i].op = "async_queue_apc" => i = 1 /\ p[i].s \in Status
    BY <1>4, <1>6, <1>8, Zenon
  <2>2. Len(p) > 0 /\ p[Len(p)] = ReleaseOf(b)
    BY <1>8
  <2> QED BY <1>4, <1>8, <2>1, <2>2, PushOn, Zenon
<1>12. /\ StepTo(p) /\ Todo[1].op = "async_terminate" /\ Todo[1].a = b
  BY <1>3, <1>9, Zenon DEF Takes
<1>13. UNCHANGED <<queue, qfd, sysApc, running, dead>> /\ asy[b].status = "pending" /\ s # "pending"
  BY <1>1, <1>4, Zenon DEF qVars, apcVars, Status, Ended
<1>14. \A a \in Async : /\ asy'[a].type = asy[a].type /\ asy'[a].thread = asy[a].thread
                        /\ asy'[a].life = asy[a].life /\ asy'[a].ref = asy[a].ref
                        /\ (asy[a].status # "pending" => asy'[a].status # "pending")
  BY <1>7, <1>10, <1>13, Zenon
<1>15. \A a \in Async : Posted(a)' <=> Posted(a)
  BY <1>13, <1>14, Zenon DEF Posted
<1>16. Calls'
  <2>1. Keeps
    BY <1>13, <1>14, Zenon DEF Keeps
  <2>2. \A k \in 2 .. Len(Todo) : Todo[k].op = "async_terminate" => Todo[k].a \in Async
    <3>1. \A k \in 2 .. Len(Todo) : k \in DOMAIN Todo
      BY <1>12, HeadIn, Zenon DEF StepTo
    <3> QED BY <3>1, Zenon DEF Core, Calls, Shaped, Fine
  <2>3. \A i \in DOMAIN p : p[i].op # "async_terminate" /\ p[i].op # "async_wake_up"
    BY <1>6, <1>8, Zenon
  <2>4. \A i \in DOMAIN p : asy'[p[i].a].status # "pending"
    BY <1>7, <1>10, <1>11, <1>13, Zenon
  <2> QED BY <1>11, <1>12, <1>14, <2>1, <2>2, <2>3, <2>4, PushCalls, Zenon DEF Core
<1>17. Account(b)'
  <2>0. Account(b) /\ asy[b].thread \in Thread
    BY <1>4, <1>5, Zenon DEF Core, Account, Living
  <2>1. Pends(b) /\ ~Posted(b) /\ ~Runs(b) /\ asy[b].apc /\ ~Queueing(b) /\ ~Resulting(b) /\ ~Resulted(b)
    <3>1. ~Heads(Todo, "restart", b) /\ ~Queueing(b) /\ ~Resulting(b)
      BY <1>12, Zenon DEF Heads, Queueing, Resulting
    <3>2. asy[b].life = "live"
      BY <1>5, <1>13, <2>0, <1>4, Zenon DEF Account, Living, Core, TypeOK, AsyncType
    <3>3. Pends(b)
      BY <1>13, <3>1, <3>2, Zenon DEF Pends
    <3>4. ~Resulted(b)
      <4>1. Todo = <<ReleaseOf(b), DequeueOf(asy[b].thread)>> => Todo[1] = ReleaseOf(b)
        OBVIOUS
      <4> QED BY <1>6, <1>12, <4>1, Zenon DEF Resulted
    <3> QED BY <2>0, <3>1, <3>3, <3>4, Zenon DEF Account, Exclusive
  <2>2. /\ Count(Todo', ReleaseOf(b)) = Count(Todo, ReleaseOf(b)) + 1
        /\ Count(Todo', FreeOf(b)) = Count(Todo, FreeOf(b))
        /\ Count(Todo, ReleaseOf(b)) \in Nat
        /\ Has(Todo', FreeOf(b)) <=> Has(Todo, FreeOf(b))
    <3>1. Count(p, ReleaseOf(b)) = 1
      <4>1. \A i \in DOMAIN p : p[i] = ReleaseOf(b) <=> i = 4
        BY <1>6, <1>8, Zenon
      <4> QED BY <1>8, <4>1, CountSingle, Zenon
    <3>2. Count(p, FreeOf(b)) = 0
      <4>1. ~Has(p, FreeOf(b))
        BY <1>6, <1>8, Zenon DEF Has
      <4> QED BY <4>1, CountNone, Zenon
    <3>3. Todo[1] # ReleaseOf(b) /\ Todo[1] # FreeOf(b)
      BY <1>6, <1>12, Zenon
    <3> QED BY <1>11, <1>12, <3>1, <3>2, <3>3, Flags DEF Core, Calls
  <2>3. Queueing(b)' /\ ~Resulting(b)' /\ ~Heads(Todo, "restart", b)'
    <3>1. p # <<>>
      BY <1>8, HeadIn, Zenon
    <3>2. Todo' # <<>> /\ Todo'[1] = p[1]
      BY <1>12, <3>1, ReplacedHead, Zenon DEF StepTo
    <3> QED BY <1>6, <1>8, <3>2, Zenon DEF Queueing, Resulting, Heads
  <2>4. ~Pends(b)' /\ ~Posted(b)' /\ ~Runs(b)'
    <3>1. ~Pends(b)'
      BY <1>7, <1>10, <1>13, Zenon DEF Pends
    <3>2. Has(Todo', DequeueOf(asy[b].thread)) <=> Has(Todo, DequeueOf(asy[b].thread))
      BY <1>11, <1>12, Flags, Zenon DEF Core, Calls
    <3>3. ~Runs(b)'
      BY <1>4, <1>13, <1>14, <2>0, <2>1, <3>2, Zenon DEF Runs
    <3> QED BY <1>4, <1>15, <2>1, <3>1, <3>3, Zenon
  <2>5. asy[b].result = None /\ asy[b].ref > 0
    BY <2>0, <2>1, <1>5, <1>4, <1>13 DEF Account, Owned, Living, Core, TypeOK, AsyncType
  <2>6. RefExact(b)'
    BY <1>7, <1>10, <2>0, <2>1, <2>2, <2>4 DEF Account, RefExact, Held
  <2>7. Exclusive(b)'
    BY <1>7, <1>10, <1>13, <2>1, <2>3, <2>4, <2>5, Zenon DEF Exclusive, Held
  <2>8. Living(b)'
    BY <1>7, <1>10, <1>13, <2>0, <2>2, Zenon DEF Account, Living
  <2>9. Owned(b)'
    BY <1>7, <1>10, <2>3, <2>5, Zenon DEF Owned
  <2> QED BY <2>6, <2>7, <2>8, <2>9, Zenon DEF Account
<1>18. \A a \in Async : a # b => Account(a)'
  BY <1>10, <1>11, <1>12, <1>13, <1>15, OthersKeep
<1>19. Queues'
  BY <1>13, <1>14, Zenon DEF Core, Queues
<1>20. Apcs'
  BY <1>13, <1>14, ApcsKept, Zenon DEF Core
<1>21. TypeOK' /\ OneCtx'
  BY <1>1, <1>9, <1>10, Zenon DEF Core, TypeOK, qVars, fileVars, apcVars, Takes
<1> QED BY <1>16, <1>17, <1>18, <1>19, <1>20, <1>21, Zenon DEF Core

LEMMA CoreTerminateEnded ==
  ASSUME ListFacts, Core, NEW c \in Ctx, Terminate(c), NEW b, NEW s, b = Arg(c).a, s = Arg(c).s,
         asy[b].status # "pending"
  PROVE  Core'
<1> DEFINE r == [asy[b] EXCEPT !.status = s]
<1>1. /\ Now(c, "async_terminate") /\ Then(c, <<>>) /\ asy' = [asy EXCEPT ![b] = r]
      /\ UNCHANGED <<qVars, fd, fileVars, apcVars, dead, packets>>
  BY Zenon DEF Terminate
<1>2. Takes(c, "async_terminate", <<>>)
  BY <1>1, EmptyPush, Taking, Zenon
<1>3. b \in Async /\ s \in Status /\ s # "pending"
  BY <1>2, Zenon DEF Takes, Core, Calls, Shaped, Fine, Status, Ended
<1>a. asy[b] \in AsyncType
  BY <1>3, Zenon DEF Core, TypeOK
<1>b. /\ r \in AsyncType /\ r.life = asy[b].life /\ r.type = asy[b].type /\ r.thread = asy[b].thread
      /\ r.ref = asy[b].ref /\ r.result = asy[b].result /\ r.status = s
      /\ r.apc = asy[b].apc /\ r.timeout = asy[b].timeout
  BY <1>3, <1>a, Zenon DEF AsyncType
<1> HIDE DEF r
<1>4. /\ asy' \in [Async -> AsyncType] /\ asy'[b] = r
      /\ \A a \in Async : a # b => asy'[a] = asy[a]
  BY <1>1, <1>3, <1>b, Assigned, Zenon DEF Core
<1>5. SameAccount(b) /\ asy'[b].type = asy[b].type
  BY <1>3, <1>4, <1>b, Zenon DEF SameAccount
<1>6. TypeOK'
  BY <1>1, <1>2, <1>4, Zenon DEF Core, TypeOK, qVars, fileVars, apcVars, Takes
<1>7. UNCHANGED <<queue, qfd, sysApc, running, dead>>
  BY <1>1, Zenon DEF qVars, apcVars
<1>8. "async_terminate" \notin FirstOps \cup {"release", "free", "dequeue_apc"}
  BY Zenon DEF FirstOps
<1> QED BY <1>2, <1>3, <1>4, <1>5, <1>6, <1>7, <1>8, Touch, Zenon

LEMMA AppendAt ==
  ASSUME NEW S, NEW q \in Seq(S), NEW x \in S
  PROVE  /\ DOMAIN Append(q, x) = DOMAIN q \cup {Len(q) + 1}
         /\ Len(q) + 1 \notin DOMAIN q
         /\ Append(q, x)[Len(q) + 1] = x
         /\ \A i \in DOMAIN q : Append(q, x)[i] = q[i]
<1>1. DOMAIN q = 1 .. Len(q) /\ Len(q) \in Nat /\ Append(q, x) \in Seq(S)
      /\ Len(Append(q, x)) = Len(q) + 1
  OBVIOUS
<1>2. DOMAIN Append(q, x) = 1 .. Len(q) + 1
  BY <1>1
<1>3. 1 .. Len(q) + 1 = 1 .. Len(q) \cup {Len(q) + 1} /\ Len(q) + 1 \notin 1 .. Len(q)
  BY <1>1
<1>4. Append(q, x)[Len(q) + 1] = x /\ \A i \in 1 .. Len(q) : Append(q, x)[i] = q[i]
  BY <1>1
<1> QED BY <1>1, <1>2, <1>3, <1>4, Zenon

\* A call that makes no call.
LEMMA AloneFlags ==
  ASSUME ListFacts, Core, StepTo(<<>>), Todo[1].op # "dequeue_apc", NEW a
  PROVE  /\ ~Queueing(a)' /\ ~Resulting(a)' /\ ~Heads(Todo, "restart", a)'
         /\ \A t : Has(Todo', DequeueOf(t)) <=> Has(Todo, DequeueOf(t))
         /\ \A e : /\ Count(Todo', e) = Count(Todo, e) - (IF Todo[1] = e THEN 1 ELSE 0)
                   /\ Count(Todo, e) \in Nat /\ Count(Todo', e) \in Nat
                   /\ Has(Todo', e) <=> Count(Todo', e) > 0
                   /\ Has(Todo, e) <=> Count(Todo, e) > 0
<1>1. Shaped(Todo) /\ \A i \in DOMAIN <<>> : <<>>[i].op # "dequeue_apc"
  BY EmptyPush, Zenon DEF Core, Calls
<1>2. \A e : Count(<<>>, e) = 0
  <2>1. \A e : ~Has(<<>>, e)
    BY EmptyPush, Zenon DEF Has
  <2> QED BY <2>1, CountNone, Zenon
<1>3. \A op \in FirstOps : ~Heads(Todo', op, a)
  <2>1. \A op \in FirstOps : ~Heads(<<>>, op, a)
    BY Zenon DEF Heads
  <2> QED BY <1>1, <2>1, Flags, Zenon
<1>4. \A e : /\ Count(Todo', e) = Count(Todo, e) - (IF Todo[1] = e THEN 1 ELSE 0)
             /\ Count(Todo, e) \in Nat /\ Count(Todo', e) \in Nat
             /\ Has(Todo', e) <=> Count(Todo', e) > 0
             /\ Has(Todo, e) <=> Count(Todo, e) > 0
  <2> TAKE e
  <2>1. /\ Count(Todo', e) = Count(<<>>, e) + Count(Todo, e) - (IF Todo[1] = e THEN 1 ELSE 0)
        /\ Count(Todo', e) \in Nat /\ Count(Todo, e) \in Nat
        /\ Has(Todo', e) <=> Count(Todo', e) > 0
        /\ Has(Todo, e) <=> Count(Todo, e) > 0
    BY <1>1, Flags, Zenon
  <2> QED BY <1>2, <2>1
<1>5. \A t : Has(Todo', DequeueOf(t)) <=> Has(Todo, DequeueOf(t))
  BY <1>1, Flags, Zenon
<1>6. ~Queueing(a)' /\ ~Resulting(a)' /\ ~Heads(Todo, "restart", a)'
  BY <1>3, Zenon DEF Queueing, Resulting, FirstOps
<1> QED BY <1>4, <1>5, <1>6, Zenon

LEMMA AloneCalls ==
  ASSUME Core, StepTo(<<>>), Keeps,
         \A a \in Async : /\ asy[a].status # "pending" => asy'[a].status # "pending"
                          /\ asy[a].ref > 0 => asy'[a].ref > 0
  PROVE  Calls'
<1>1. \A k \in 2 .. Len(Todo) : Todo[k].op = "async_terminate" => Todo[k].a \in Async
  <2>1. \A k \in 2 .. Len(Todo) : k \in DOMAIN Todo
    BY HeadIn, Zenon DEF StepTo
  <2> QED BY <2>1, Zenon DEF Core, Calls, Shaped, Fine
<1> QED BY <1>1, EmptyPush, PushCalls, Zenon DEF Core

LEMMA CoreQueueApc ==
  ASSUME ListFacts, Core, NEW c \in Ctx, QueueApc(c), NEW b, NEW s, b = Arg(c).a, s = Arg(c).s
  PROVE  Core'
<1>1. /\ Now(c, "async_queue_apc") /\ Then(c, <<>>)
      /\ UNCHANGED <<qVars, fd, fileVars, running, dead, packets>>
  BY Zenon DEF QueueApc
<1>2. Takes(c, "async_queue_apc", <<>>)
  BY <1>1, EmptyPush, Taking, Zenon
<1>3. b \in Async /\ s \in Status /\ Queueing(b) /\ Account(b)
  BY <1>2, Zenon DEF Takes, Core, Calls, Shaped, Fine, StepTo, Heads, Queueing, CoveredOps
<1>4. /\ asy[b].apc /\ asy[b].status # "pending" /\ asy[b].result = None /\ asy[b].ref > 0
      /\ ~Held(b) /\ ~Pends(b) /\ ~Posted(b) /\ ~Runs(b)
  BY <1>3, Zenon DEF Account, Exclusive, Held
<1>5. asy[b].life = "live" /\ asy[b].thread \in Thread /\ asy[b] \in AsyncType
  <2>1. asy[b] \in AsyncType /\ asy[b].ref \in Nat
    BY <1>3, Zenon DEF Core, TypeOK, AsyncType
  <2> QED BY <1>3, <1>4, <2>1 DEF Account, Living
<1> DEFINE t == asy[b].thread
           r == [asy[b] EXCEPT !.ref = asy[b].ref + 1]
           x == [a |-> b, s |-> s]
<1>6. \/ /\ t \notin dead /\ asy' = [asy EXCEPT ![b] = r]
         /\ sysApc' = [sysApc EXCEPT ![t] = Append(sysApc[t], x)]
      \/ t \in dead /\ UNCHANGED <<sysApc, asy>>
  <2> DEFINE K == {i \in DOMAIN sysApc[t] : sysApc[t][i].a # b}
             others == Keep(sysApc[t], K)
  <2>1. K = DOMAIN sysApc[t]
    BY <1>4, <1>5, Zenon DEF Posted
  <2>2. others = sysApc[t]
    BY <1>5, <2>1, KeepAll, ApcTyped, Zenon DEF Core
  <2>3. IF t \notin dead
        THEN /\ sysApc' = [sysApc EXCEPT ![t] = Append(others, x)]
             /\ asy' = [asy EXCEPT ![b] = [asy[b] EXCEPT !.ref = asy[b].ref + 1 - (Len(sysApc[t]) - Len(others))]]
        ELSE UNCHANGED <<sysApc, asy>>
    BY <1>4, Zenon DEF QueueApc
  <2>4. asy[b].ref \in Nat /\ Len(sysApc[t]) \in Nat
    BY <1>5, ApcTyped DEF Core, AsyncType
  <2> HIDE DEF others, K, t
  <2>5. Len(others) = Len(sysApc[t])
    BY <2>2, Zenon
  <2>6. asy[b].ref + 1 - (Len(sysApc[t]) - Len(others)) = asy[b].ref + 1
    BY <2>4, <2>5
  <2> QED BY <2>2, <2>3, <2>6, Zenon
<1>7. /\ r \in AsyncType /\ r.life = asy[b].life /\ r.type = asy[b].type /\ r.thread = asy[b].thread
      /\ r.ref = asy[b].ref + 1 /\ r.result = asy[b].result /\ r.status = asy[b].status
      /\ r.apc = asy[b].apc /\ r.timeout = asy[b].timeout
  BY <1>5 DEF AsyncType
<1>8. /\ StepTo(<<>>) /\ Todo[1].op = "async_queue_apc" /\ Todo[1].a = b
      /\ queue' = queue /\ qfd' = qfd /\ running' = running /\ dead' = dead
  BY <1>1, <1>2, Zenon DEF Takes, qVars
<1>9. \A a \in Async : /\ asy'[a].type = asy[a].type /\ asy'[a].thread = asy[a].thread
                       /\ asy'[a].life = asy[a].life /\ asy'[a].status = asy[a].status
                       /\ asy'[a].result = asy[a].result
                       /\ (asy[a].ref > 0 <=> asy'[a].ref > 0)
  <2> HIDE DEF r
  <2>1. CASE asy' = [asy EXCEPT ![b] = r]
    <3>1. asy'[b] = r /\ \A a \in Async : a # b => asy'[a] = asy[a]
      BY <1>3, <1>7, <2>1, Assigned, Zenon DEF Core
    <3>2. asy[b].ref \in Nat
      BY <1>5, Zenon DEF AsyncType
    <3> QED BY <1>4, <1>7, <3>1, <3>2
  <2>2. CASE asy' = asy
    BY <2>2, Zenon
  <2> QED BY <1>6, <2>1, <2>2, Zenon
<1>10. Calls'
  <2>1. Keeps
    BY <1>8, <1>9, Zenon DEF Keeps
  <2> QED BY <1>8, <1>9, <2>1, AloneCalls, Zenon
<1>11. Queues'
  BY <1>8, <1>9, Zenon DEF Core, Queues
<1>12. \A a \in Async : /\ ~Queueing(a)' /\ ~Resulting(a)' /\ ~Heads(Todo, "restart", a)'
                        /\ Has(Todo', DequeueOf(asy[a].thread)) <=> Has(Todo, DequeueOf(asy[a].thread))
                        /\ Count(Todo', ReleaseOf(a)) = Count(Todo, ReleaseOf(a))
                        /\ Count(Todo', FreeOf(a)) = Count(Todo, FreeOf(a))
                        /\ Has(Todo', FreeOf(a)) <=> Has(Todo, FreeOf(a))
                        /\ Count(Todo, ReleaseOf(a)) \in Nat
  <2>1. \A a : ReleaseOf(a).op = "release" /\ FreeOf(a).op = "free"
    BY CallOps, Zenon
  <2> QED BY <1>8, <2>1, AloneFlags
<1>13. ~Pends(b)' /\ ~Runs(b)'
  BY <1>3, <1>4, <1>8, <1>9, <1>12 DEF Pends, Runs
<1>14. CASE t \in dead /\ UNCHANGED <<sysApc, asy>>
  <2>1. \A a \in Async : Posted(a)' <=> Posted(a)
    BY <1>14, Zenon DEF Posted
  <2>2. ~Held(b)'
    BY <1>3, <1>4, <1>13, <2>1, Zenon DEF Held
  <2>3. RefExact(b)'
    BY <1>3, <1>4, <1>12, <1>14, <2>2, Zenon DEF RefExact, Account
  <2>4. Exclusive(b)'
    BY <1>3, <1>4, <1>12, <1>14, <2>2, Zenon DEF Exclusive, Held
  <2>5. Living(b)'
    BY <1>3, <1>12, <1>14, Zenon DEF Living, Account
  <2>6. Owned(b)'
    BY <1>3, <1>4, <1>8, <1>14, Zenon DEF Owned
  <2>7. Account(b)'
    BY <2>3, <2>4, <2>5, <2>6, Zenon DEF Account
  <2>8. \A a \in Async : a # b => Account(a)'
    BY <1>8, <1>14, <2>1, EmptyPush, OthersKeep, Zenon
  <2>9. Apcs'
    BY <1>8, <1>14, Zenon DEF Core, Apcs
  <2>10. TypeOK' /\ OneCtx'
    BY <1>1, <1>2, <1>14, Zenon DEF Core, TypeOK, qVars, fileVars, Takes
  <2> QED BY <1>10, <1>11, <2>7, <2>8, <2>9, <2>10, Zenon DEF Core
<1>15. ASSUME t \notin dead, asy' = [asy EXCEPT ![b] = r],
              sysApc' = [sysApc EXCEPT ![t] = Append(sysApc[t], x)]
       PROVE  Core'
  <2>0. x \in [a : Async, s : Status] /\ x.a = b
    BY <1>3, Zenon
  <2> HIDE DEF r, x
  <2>1. /\ asy' \in [Async -> AsyncType] /\ asy'[b] = r
        /\ \A a \in Async : a # b => asy'[a] = asy[a]
    BY <1>3, <1>7, <1>15, Assigned, Zenon DEF Core
  <2>2. /\ sysApc' \in [Thread -> Seq([a : Async, s : Status])]
        /\ \A u \in Thread : u # t => sysApc'[u] = sysApc[u]
        /\ sysApc'[t] = Append(sysApc[t], x)
    <3> DEFINE A == [a : Async, s : Status]
    <3>1. sysApc \in [Thread -> Seq(A)] /\ t \in Thread /\ x \in A
      BY <1>5, <2>0, Zenon DEF Core, TypeOK
    <3> HIDE DEF A, t
    <3>2. Append(sysApc[t], x) \in Seq(A)
      BY <3>1
    <3> DEFINE v == Append(sysApc[t], x)
    <3> HIDE DEF v
    <3>3. sysApc' = [sysApc EXCEPT ![t] = v] /\ v \in Seq(A)
      BY <1>15, <3>2, Zenon DEF v
    <3>4. sysApc' \in [Thread -> Seq(A)] /\ (\A u \in Thread : u # t => sysApc'[u] = sysApc[u]) /\ sysApc'[t] = v
      BY <3>1, <3>3, Zenon
    <3> QED BY <3>4, Zenon DEF v, A
  <2>3. /\ DOMAIN sysApc'[t] = DOMAIN sysApc[t] \cup {Len(sysApc[t]) + 1}
        /\ Len(sysApc[t]) + 1 \notin DOMAIN sysApc[t]
        /\ sysApc'[t][Len(sysApc[t]) + 1] = x
        /\ \A i \in DOMAIN sysApc[t] : sysApc'[t][i] = sysApc[t][i]
    <3>1. sysApc[t] \in Seq([a : Async, s : Status])
      BY <1>5, ApcTyped, Zenon DEF Core
    <3> DEFINE A == [a : Async, s : Status]
               v == sysApc[t]
    <3>2. v \in Seq(A) /\ x \in A
      BY <2>0, <3>1, Zenon
    <3> HIDE DEF A, v
    <3>3. /\ DOMAIN Append(v, x) = DOMAIN v \cup {Len(v) + 1} /\ Len(v) + 1 \notin DOMAIN v
          /\ Append(v, x)[Len(v) + 1] = x
          /\ \A i \in DOMAIN v : Append(v, x)[i] = v[i]
      BY <3>2, AppendAt
    <3> QED BY <2>2, <3>3, Zenon DEF v
  <2> DEFINE n == Len(sysApc[t]) + 1
  <2> HIDE DEF n, t
  <2>4. \A a \in Async : a # b => (Posted(a)' <=> Posted(a))
    <3> SUFFICES ASSUME NEW a \in Async, a # b PROVE Posted(a)' <=> Posted(a)
      BY Zenon
    <3>1. CASE asy[a].thread = t
      BY <1>9, <2>0, <2>3, <3>1 DEF Posted, n
    <3>2. CASE asy[a].thread # t
      BY <1>9, <2>2, <3>2, Zenon DEF Posted
    <3> QED BY <3>1, <3>2, Zenon
  <2>5. Posted(b)'
    <3>1. asy'[b].thread = t /\ t \in Thread
      BY <1>3, <1>5, <1>9, Zenon DEF t
    <3> QED BY <2>0, <2>3, <3>1, Zenon DEF Posted, n
  <2>6. RefExact(b)'
    <3>1. asy'[b].ref = asy[b].ref + 1 /\ Held(b)'
      BY <1>7, <2>1, <2>5, Zenon DEF Held
    <3> QED BY <1>3, <1>4, <1>12, <3>1 DEF RefExact, Account
  <2>7. Exclusive(b)'
    BY <1>3, <1>4, <1>7, <1>12, <1>13, <2>1, Zenon DEF Exclusive
  <2>8. Living(b)'
    <3>1. asy[b].ref \in Nat
      BY <1>5 DEF AsyncType
    <3> QED BY <1>3, <1>4, <1>5, <1>7, <1>12, <2>1, <3>1 DEF Living, Account
  <2>9. Owned(b)'
    BY <1>4, <1>7, <2>1, <2>5, Zenon DEF Owned, Held
  <2>10. Account(b)'
    BY <2>6, <2>7, <2>8, <2>9 DEF Account
  <2>11. \A a \in Async : a # b => Account(a)'
    BY <1>8, <2>1, <2>4, EmptyPush, OthersKeep, Zenon
  <2>12. Apcs'
    <3>0. t \in Thread /\ \A i \in DOMAIN sysApc[t] : sysApc[t][i].a # b
      BY <1>4, <1>5, Zenon DEF Posted, t
    <3>1. \A u \in Thread : \A i, j \in DOMAIN sysApc'[u] : sysApc'[u][i].a = sysApc'[u][j].a => i = j
      <4>1. \A i, j \in DOMAIN sysApc[t] : sysApc[t][i].a = sysApc[t][j].a => i = j
        BY <3>0, Zenon DEF Core, Apcs
      <4>2. \A i, j \in DOMAIN sysApc'[t] : sysApc'[t][i].a = sysApc'[t][j].a => i = j
        BY <2>0, <2>3, <3>0, <4>1, Zenon DEF n
      <4> QED BY <2>2, <4>2, Zenon DEF Core, Apcs
    <3>2. \A u \in Thread : \A i \in DOMAIN sysApc'[u] : asy'[sysApc'[u][i].a].thread = u
      <4> SUFFICES ASSUME NEW u \in Thread, NEW i \in DOMAIN sysApc'[u]
                   PROVE  asy'[sysApc'[u][i].a].thread = u
        BY Zenon
      <4>1. CASE i \in DOMAIN sysApc[u] /\ sysApc'[u][i] = sysApc[u][i]
        BY <1>9, <4>1, ApcTyped DEF Core, Apcs
      <4>2. CASE u = t /\ i = n
        BY <1>3, <1>9, <2>0, <2>3, <4>2, Zenon DEF n, t
      <4> QED BY <2>2, <2>3, <4>1, <4>2, Zenon DEF n
    <3>3. \A u \in dead' : sysApc'[u] = <<>>
      <4>1. \A u \in dead : u \in Thread /\ u # t
        BY <1>15, Zenon DEF Core, TypeOK
      <4> QED BY <1>8, <2>2, <4>1, Zenon DEF Core, Apcs
    <3>4. \A u \in Thread : running'[u] # None => asy'[running'[u].a].thread = u
      BY <1>8, <1>9, ApcTyped, Zenon DEF Core, Apcs
    <3> QED BY <3>1, <3>2, <3>3, <3>4, Zenon DEF Apcs
  <2>13. TypeOK' /\ OneCtx'
    BY <1>1, <1>2, <2>1, <2>2, Zenon DEF Core, TypeOK, qVars, fileVars, Takes
  <2> QED BY <1>10, <1>11, <2>10, <2>11, <2>12, <2>13 DEF Core
<1> QED BY <1>6, <1>14, <1>15, Zenon

\* Nothing but the next calls can be a final result.
LEMMA NotResulted ==
  ASSUME NEW a, Todo[1].op # "release"
  PROVE  ~Resulted(a)
<1>1. Todo = <<ReleaseOf(a), DequeueOf(asy[a].thread)>> => Todo[1] = ReleaseOf(a)
  OBVIOUS
<1> QED BY <1>1, CallOps, Zenon DEF Resulted

\* release_object on an operation that has other references.
LEMMA CoreReleaseOne ==
  ASSUME ListFacts, Core, NEW c \in Ctx, Release(c), NEW b, b = Arg(c).a, asy[b].ref # 1
  PROVE  Core'
<1> DEFINE r == [asy[b] EXCEPT !.ref = asy[b].ref - 1]
<1>1. /\ Now(c, "release") /\ Then(c, <<>>) /\ asy' = [asy EXCEPT ![b] = r] /\ queue' = queue
      /\ UNCHANGED <<qfd, qport, fd, fileVars, apcVars, dead, packets>>
  BY Zenon DEF Release
<1>2. Takes(c, "release", <<>>)
  BY <1>1, EmptyPush, Taking, Zenon
<1>3. b \in Async /\ Todo[1] = ReleaseOf(b) /\ StepTo(<<>>)
  BY <1>2, Zenon DEF Takes, Core, Calls, Shaped, Fine, CoveredOps
<1>4. Account(b) /\ asy[b] \in AsyncType /\ asy[b].ref \in Nat
  BY <1>3, Zenon DEF Core, TypeOK, AsyncType
<1>5. /\ UNCHANGED <<queue, qfd, sysApc, running, dead>> /\ Todo[1].op = "release" /\ Todo[1].a = b
  BY <1>1, <1>3, CallOps, Zenon DEF apcVars
<1>6. /\ \A a : ~Queueing(a)' /\ ~Resulting(a)' /\ ~Heads(Todo, "restart", a)'
      /\ \A t : Has(Todo', DequeueOf(t)) <=> Has(Todo, DequeueOf(t))
      /\ Count(Todo', ReleaseOf(b)) = Count(Todo, ReleaseOf(b)) - 1
      /\ Count(Todo', FreeOf(b)) = Count(Todo, FreeOf(b))
      /\ Has(Todo', FreeOf(b)) <=> Has(Todo, FreeOf(b))
      /\ Count(Todo, ReleaseOf(b)) \in Nat /\ Count(Todo', ReleaseOf(b)) \in Nat
  <2>1. ReleaseOf(b) # FreeOf(b)
    BY CallOps, Zenon
  <2> QED BY <1>3, <1>5, <2>1, AloneFlags
<1>7. asy[b].ref >= 2
  BY <1>4, <1>6 DEF Account, RefExact
<1>8. /\ r \in AsyncType /\ r.life = asy[b].life /\ r.type = asy[b].type /\ r.thread = asy[b].thread
      /\ r.ref = asy[b].ref - 1 /\ r.result = asy[b].result /\ r.status = asy[b].status
      /\ r.apc = asy[b].apc /\ r.timeout = asy[b].timeout
  BY <1>4, <1>7 DEF AsyncType
<1> HIDE DEF r
<1>9. /\ asy' \in [Async -> AsyncType] /\ asy'[b] = r
      /\ \A a \in Async : a # b => asy'[a] = asy[a]
  BY <1>1, <1>3, <1>8, Assigned, Zenon DEF Core
<1>10. \A a \in Async : /\ asy'[a].type = asy[a].type /\ asy'[a].thread = asy[a].thread
                        /\ asy'[a].life = asy[a].life /\ asy'[a].status = asy[a].status
                        /\ asy'[a].result = asy[a].result
                        /\ (asy[a].ref > 0 <=> asy'[a].ref > 0)
  BY <1>4, <1>7, <1>8, <1>9
<1>11. Calls'
  <2>1. Keeps
    BY <1>5, <1>10, Zenon DEF Keeps
  <2> QED BY <1>3, <1>10, <2>1, AloneCalls, Zenon
<1>12. Queues'
  BY <1>5, <1>10, Zenon DEF Core, Queues
<1>13. Apcs'
  BY <1>5, <1>10, ApcsKept, Zenon DEF Core
<1>14. \A a \in Async : Posted(a)' <=> Posted(a)
  BY <1>5, <1>10, Zenon DEF Posted
<1>15. /\ ~Heads(Todo, "restart", b) /\ ~Queueing(b) /\ ~Resulting(b)
  BY <1>5, Zenon DEF Heads, Queueing, Resulting
<1>16. (Pends(b)' <=> Pends(b)) /\ (Runs(b)' <=> Runs(b)) /\ (Held(b)' <=> Held(b))
  <2>1. Pends(b)' <=> Pends(b)
    BY <1>3, <1>6, <1>10, <1>15, Zenon DEF Pends
  <2>2. Runs(b)' <=> Runs(b)
    <3>1. asy'[b].thread = asy[b].thread
      BY <1>3, <1>10, Zenon
    <3>2. Has(Todo', DequeueOf(asy[b].thread)) <=> Has(Todo, DequeueOf(asy[b].thread))
      BY <1>6, Zenon
    <3> QED BY <1>5, <3>1, <3>2, Zenon DEF Runs
  <2> QED BY <1>3, <1>14, <2>1, <2>2, Zenon DEF Held
<1>17. Resulted(b) => Held(b)
  <2>1. ASSUME Resulted(b) PROVE Count(Todo, ReleaseOf(b)) = 1
    <3>1. 1 \in DOMAIN Todo /\ Todo[1] = ReleaseOf(b) /\ DOMAIN Todo = {1, 2} /\ Todo[2] = DequeueOf(asy[b].thread)
      <4> DEFINE x == ReleaseOf(b)
                 y == DequeueOf(asy[b].thread)
      <4>1. Todo = <<x, y>>
        BY <2>1, Zenon DEF Resulted
      <4> HIDE DEF x, y
      <4>2. 1 \in DOMAIN Todo /\ Todo[1] = x /\ DOMAIN Todo = {1, 2} /\ Todo[2] = y
        BY <4>1
      <4> QED BY <4>2, Zenon DEF x, y
    <3>2. Todo[2] # ReleaseOf(b)
      BY <3>1, CallOps, Zenon
    <3> QED BY <3>1, <3>2, CountSingle, Zenon
  <2> QED BY <1>4, <1>7, <2>1 DEF Account, RefExact
<1>18. asy[b].result = None
  <2>1. asy[b].result # None => Resulted(b) /\ ~Held(b)
    BY <1>4, <1>7 DEF Account, Owned, Exclusive
  <2> QED BY <1>17, <2>1, Zenon
<1>19. Account(b)'
  <2>1. RefExact(b)'
    BY <1>4, <1>6, <1>8, <1>9, <1>16 DEF Account, RefExact
  <2>2. Exclusive(b)'
    BY <1>3, <1>4, <1>6, <1>8, <1>9, <1>14, <1>16, <1>18, Zenon DEF Account, Exclusive
  <2>3. Living(b)'
    BY <1>4, <1>6, <1>7, <1>8, <1>9 DEF Account, Living
  <2>4. Owned(b)'
    BY <1>4, <1>5, <1>7, <1>8, <1>9, <1>15, <1>16, <1>17, <1>18 DEF Account, Owned
  <2> QED BY <2>1, <2>2, <2>3, <2>4, Zenon DEF Account
<1>20. \A a \in Async : a # b => Account(a)'
  BY <1>3, <1>5, <1>9, <1>14, EmptyPush, OthersKeep, Zenon
<1>21. TypeOK' /\ OneCtx'
  BY <1>1, <1>2, <1>9, Zenon DEF Core, TypeOK, fileVars, apcVars, Takes
<1> QED BY <1>11, <1>12, <1>13, <1>19, <1>20, <1>21, Zenon DEF Core

\* The last reference: async_destroy.
LEMMA CoreReleaseLast ==
  ASSUME ListFacts, Core, NEW c \in Ctx, Release(c), NEW b, b = Arg(c).a, asy[b].ref = 1
  PROVE  Core'
<1> DEFINE r == [asy[b] EXCEPT !.ref = asy[b].ref - 1]
           x == Call("async_reselect", b, "pending")
           p == <<x, FreeOf(b)>>
<1>1. /\ Now(c, "release") /\ Then(c, p) /\ asy' = [asy EXCEPT ![b] = r]
      /\ queue' = [q \in Queue |-> Without(queue[q], b)]
      /\ UNCHANGED <<qfd, qport, fd, fileVars, apcVars, dead, packets>>
  BY Zenon DEF Release, FreeOf, Without
<1>2. work[c] # <<>> /\ Arg(c).op = "release"
  BY <1>1, Zenon DEF Now, Arg
<1>3. Todo[1] = Arg(c) /\ 1 \in DOMAIN Todo
  BY <1>2, TodoIs, HeadIn, Zenon DEF Core
<1>4. b \in Async /\ Todo[1] = ReleaseOf(b)
  BY <1>2, <1>3, Zenon DEF Core, Calls, Shaped, Fine, CoveredOps
<1>5. /\ x \in CallType /\ FreeOf(b) \in CallType /\ x.op = "async_reselect" /\ x.a = b
  BY <1>4, CallTyped, Zenon DEF Ops, Call, FreeOf
<1> HIDE DEF x
<1>6. p \in Seq(CallType) /\ Len(p) = 2 /\ DOMAIN p = {1, 2} /\ p[1] = x /\ p[2] = FreeOf(b)
  BY <1>5
<1> HIDE DEF p
<1>7. Takes(c, "release", p)
  BY <1>1, <1>6, Taking, Zenon
<1>8. Account(b) /\ asy[b] \in AsyncType /\ asy[b].ref \in Nat /\ StepTo(p)
  BY <1>4, <1>7, Zenon DEF Core, TypeOK, AsyncType, Takes
<1>9. /\ Pushable(p, Todo)
      /\ \A i \in DOMAIN p : p[i].op \in CloseOps /\ p[i].a = b /\ p[i].op # "dequeue_apc"
                             /\ p[i].op \in {"async_reselect", "free"}
  <2>1. \A i \in DOMAIN p :
            /\ p[i].a = b
            /\ p[i].op \in {"async_queue_apc", "clear_apc", "async_reselect", "release", "free"}
            /\ p[i].op \in {"async_reselect", "free"}
            /\ p[i].op = "release" => p[i] = ReleaseOf(b)
            /\ p[i].op = "free" => p[i] = FreeOf(b)
            /\ p[i].op = "async_queue_apc" => i = 1 /\ p[i].s \in Status
    BY <1>5, <1>6, CallOps
  <2>2. Len(p) > 0 /\ p[Len(p)] = FreeOf(b)
    BY <1>6
  <2> QED BY <1>4, <1>6, <2>1, <2>2, PushOn, Zenon
<1>10. /\ UNCHANGED <<qfd, sysApc, running, dead>> /\ Todo[1].op = "release" /\ Todo[1].a = b
  BY <1>1, <1>4, CallOps, Zenon DEF apcVars
<1>11. /\ r \in AsyncType /\ r.life = asy[b].life /\ r.type = asy[b].type /\ r.thread = asy[b].thread
       /\ r.ref = 0 /\ r.result = asy[b].result /\ r.status = asy[b].status
       /\ r.apc = asy[b].apc /\ r.timeout = asy[b].timeout
  BY <1>8 DEF AsyncType
<1> HIDE DEF r
<1>12. /\ asy' \in [Async -> AsyncType] /\ asy'[b] = r
       /\ \A a \in Async : a # b => asy'[a] = asy[a]
  BY <1>1, <1>4, <1>11, Assigned, Zenon DEF Core
<1>13. \A a \in Async : /\ asy'[a].type = asy[a].type /\ asy'[a].thread = asy[a].thread
                        /\ asy'[a].life = asy[a].life /\ asy'[a].status = asy[a].status
                        /\ asy'[a].result = asy[a].result
  BY <1>11, <1>12, Zenon
<1>14. /\ Count(Todo, ReleaseOf(b)) = 1 /\ ~Held(b)
  <2>1. Has(Todo, ReleaseOf(b))
    BY <1>3, <1>4, Zenon DEF Has
  <2>2. Count(Todo, ReleaseOf(b)) \in Nat /\ Count(Todo, ReleaseOf(b)) > 0
    BY <1>8, <2>1, CountType, Zenon DEF StepTo
  <2> QED BY <1>8, <2>2 DEF Account, RefExact
<1>15. ~Heads(Todo, "restart", b) /\ ~Queueing(b) /\ ~Resulting(b)
  BY <1>10, Zenon DEF Heads, Queueing, Resulting
<1>16. Resulted(b) \/ asy[b].thread \in dead
  BY <1>8, <1>14, <1>15 DEF Account, Owned
<1>17. Calls'
  <2>1. Keeps
    BY <1>10, <1>13, Zenon DEF Keeps
  <2>2. ASSUME NEW k \in 2 .. Len(Todo), Todo[k].op = "async_terminate", asy[Todo[k].a].ref > 0
        PROVE  asy'[Todo[k].a].ref > 0 \/ (Todo[k].s = "cancelled" /\ asy[Todo[k].a].thread \in dead)
    <3>0. k \in DOMAIN Todo /\ k > 1 /\ 1 \in 1 .. k - 1
      BY <1>8, <2>2, EmptyLen DEF StepTo
    <3>1. Todo[k].a \in Async /\ TermAt(asy, dead, qfd, Todo, k)
      BY <2>2, <3>0, Zenon DEF Core, Calls, Shaped, Fine, Terminates
    <3>2. CASE Todo[k].a # b
      BY <1>12, <2>2, <3>1, <3>2, Zenon
    <3>3. CASE Todo[k].a = b
      <4>1. Todo[k].s = "cancelled"
        <5>1. Todo[k].s \in {"cancelled", "closed"} /\ (Todo[k].s = "closed" => Todo[1].a # Todo[k].a)
          BY <3>0, <3>1, Zenon DEF TermAt
        <5> QED BY <1>10, <3>3, <5>1, Zenon
      <4>2. ~Resulted(b)
        <5>1. ASSUME Resulted(b) PROVE FALSE
          <6> DEFINE y == ReleaseOf(b)
                     z == DequeueOf(asy[b].thread)
          <6>1. Todo = <<y, z>> /\ y.op = "release" /\ z.op = "dequeue_apc"
            BY <5>1, CallOps, Zenon DEF Resulted
          <6> HIDE DEF y, z
          <6>2. Todo[k] = y \/ Todo[k] = z
            BY <3>0, <6>1
          <6> QED BY <2>2, <6>1, <6>2, Zenon
        <5> QED BY <5>1, Zenon
      <4> QED BY <1>16, <3>3, <4>1, <4>2, Zenon
    <3> QED BY <3>2, <3>3, Zenon
  <2>3. \A i \in DOMAIN p : p[i].op # "async_terminate" /\ p[i].op # "clear_apc" /\ p[i].op # "async_wake_up"
    BY <1>9, Zenon
  <2>4. \A i \in DOMAIN p : p[i].op \in CloseOps /\ p[i].a = Todo[1].a
    BY <1>9, <1>10, Zenon
  <2> QED BY <1>8, <1>9, <1>13, <2>1, <2>2, <2>3, <2>4, PushCalls, Zenon DEF Core
<1>18. Queues'
  <2>1. \A q \in Queue : /\ \A i, j \in DOMAIN queue'[q] : queue'[q][i] = queue'[q][j] => i = j
                         /\ queue'[q] \in Seq(Async)
                         /\ \A a : Has(queue'[q], a) <=> Has(queue[q], a) /\ a # b
    <3> SUFFICES ASSUME NEW q \in Queue
                 PROVE  /\ \A i, j \in DOMAIN queue'[q] : queue'[q][i] = queue'[q][j] => i = j
                        /\ queue'[q] \in Seq(Async)
                        /\ \A a : Has(queue'[q], a) <=> Has(queue[q], a) /\ a # b
      BY Zenon
    <3>1. queue'[q] = Without(queue[q], b)
      BY <1>1, Zenon
    <3>2. queue[q] \in Seq(Async) /\ \A i, j \in DOMAIN queue[q] : queue[q][i] = queue[q][j] => i = j
      BY Zenon DEF Core, TypeOK, Queues
    <3> QED BY <3>1, <3>2, KeepOthers
  <2>2. asy'[b].ref = 0
    BY <1>11, <1>12, Zenon
  <2>3. ASSUME NEW q \in Queue, NEW a \in Async
        PROVE  Has(queue'[q], a) <=> asy'[a].ref > 0 /\ asy'[a].type = q
    <3>1. CASE a = b
      <4>1. ~Has(queue'[q], a)
        BY <2>1, <3>1, Zenon
      <4>2. asy'[a].ref = 0
        BY <2>2, <3>1, Zenon
      <4>3. ~(asy'[a].ref > 0)
        BY <4>2
      <4> QED BY <4>1, <4>3, Zenon
    <3>2. CASE a # b
      <4>1. Has(queue'[q], a) <=> Has(queue[q], a)
        BY <2>1, <3>2, Zenon
      <4>2. asy'[a] = asy[a]
        BY <1>12, <3>2, Zenon
      <4>3. Has(queue[q], a) <=> asy[a].ref > 0 /\ asy[a].type = q
        BY Zenon DEF Core, Queues
      <4> QED BY <4>1, <4>2, <4>3, Zenon
    <3> QED BY <3>1, <3>2, Zenon
  <2> QED BY <2>1, <2>3, Zenon DEF Queues
<1>19. Apcs'
  BY <1>10, <1>13, ApcsKept, Zenon DEF Core
<1>20. \A a \in Async : Posted(a)' <=> Posted(a)
  BY <1>10, <1>13, Zenon DEF Posted
<1>21. Account(b)'
  <2>0. p # <<>> /\ Todo' # <<>> /\ Todo'[1] = x
    <3>1. p # <<>>
      BY <1>6, HeadIn, Zenon
    <3> QED BY <1>6, <1>8, <3>1, ReplacedHead DEF StepTo
  <2>1. ~Queueing(b)' /\ ~Resulting(b)' /\ ~Heads(Todo, "restart", b)'
    BY <1>5, <2>0, Zenon DEF Queueing, Resulting, Heads
  <2>2. /\ Count(Todo', ReleaseOf(b)) = 0
        /\ Count(Todo', FreeOf(b)) = Count(Todo, FreeOf(b)) + 1
        /\ Has(Todo', FreeOf(b))
        /\ Has(Todo, FreeOf(b)) <=> Count(Todo, FreeOf(b)) > 0
        /\ Count(Todo, FreeOf(b)) \in Nat
        /\ \A t : Has(Todo', DequeueOf(t)) <=> Has(Todo, DequeueOf(t))
    <3>1. Count(p, ReleaseOf(b)) = 0
      <4>1. ~Has(p, ReleaseOf(b))
        BY <1>9, CallOps, Zenon DEF Has
      <4> QED BY <4>1, CountNone, Zenon
    <3>2. Count(p, FreeOf(b)) = 1
      <4>1. \A i \in DOMAIN p : p[i] = FreeOf(b) <=> i = 2
        BY <1>5, <1>6, CallOps, Zenon
      <4> QED BY <1>6, <4>1, CountSingle
    <3>3. ReleaseOf(b) # FreeOf(b)
      BY CallOps, Zenon
    <3> QED BY <1>4, <1>8, <1>9, <1>10, <1>14, <3>1, <3>2, <3>3, Flags DEF Core, Calls
  <2>3. ~Held(b)'
    <3>1. ~Pends(b)'
      BY <1>4, <1>13, <1>14, <1>15, Zenon DEF Pends, Held
    <3>2. ~Runs(b)'
      <4>1. asy'[b].thread = asy[b].thread
        BY <1>4, <1>13, Zenon
      <4>2. Has(Todo', DequeueOf(asy[b].thread)) <=> Has(Todo, DequeueOf(asy[b].thread))
        BY <2>2, Zenon
      <4> QED BY <1>10, <1>14, <4>1, <4>2, Zenon DEF Runs, Held
    <3> QED BY <1>4, <1>14, <1>20, <3>1, <3>2, Zenon DEF Held
  <2>4. RefExact(b)'
    BY <1>11, <1>12, <2>2, <2>3 DEF RefExact
  <2>5. Exclusive(b)'
    BY <2>1, <2>3, Zenon DEF Exclusive, Held
  <2>6. asy[b].life = "live" /\ asy[b].status # "pending" /\ asy[b].thread \in Thread
    <3>1. asy[b].life = "live"
      BY <1>8 DEF Account, Living
    <3>2. asy[b].status # "pending"
      BY <1>14, <1>15, <3>1, Zenon DEF Held, Pends
    <3> QED BY <1>8, <3>1, <3>2, Zenon DEF Account, Living
  <2>7. Count(Todo, FreeOf(b)) = 0
    BY <1>8, <2>2, <2>6 DEF Account, Living
  <2>8. Living(b)'
    BY <1>11, <1>12, <2>2, <2>6, <2>7 DEF Living
  <2>9. Owned(b)'
    BY <1>11, <1>12 DEF Owned
  <2> QED BY <2>4, <2>5, <2>8, <2>9, Zenon DEF Account
<1>22. \A a \in Async : a # b => Account(a)'
  BY <1>4, <1>8, <1>9, <1>10, <1>12, <1>20, OthersKeep
<1>23. TypeOK' /\ OneCtx'
  <2>1. queue' \in [Queue -> Seq(Async)]
    <3>1. \A q \in Queue : Without(queue[q], b) \in Seq(Async)
      BY KeepOthers, Zenon DEF Core, TypeOK, Queues
    <3> QED BY <1>1, <3>1, Zenon
  <2> QED BY <1>1, <1>7, <1>12, <2>1, Zenon DEF Core, TypeOK, fileVars, apcVars, Takes
<1> QED BY <1>17, <1>18, <1>19, <1>21, <1>22, <1>23, Zenon DEF Core

LEMMA CoreFree ==
  ASSUME ListFacts, Core, NEW c \in Ctx, Free(c), NEW b, b = Arg(c).a
  PROVE  Core'
<1> DEFINE r == [asy[b] EXCEPT !.life = "freed", !.timeout = FALSE]
<1>1. /\ Now(c, "free") /\ Then(c, <<>>)
      /\ asy' = [asy EXCEPT ![b].life = "freed", ![b].timeout = FALSE]
      /\ UNCHANGED <<qVars, fd, fileVars, apcVars, dead, packets>>
  BY Zenon DEF Free
<1>2. Takes(c, "free", <<>>)
  BY <1>1, EmptyPush, Taking, Zenon
<1>3. b \in Async /\ Todo[1] = FreeOf(b) /\ StepTo(<<>>) /\ 1 \in DOMAIN Todo
  BY <1>2, Zenon DEF Takes, Core, Calls, Shaped, Fine, CoveredOps
<1>4. Account(b) /\ asy[b] \in AsyncType /\ asy[b].ref \in Nat
  BY <1>3, Zenon DEF Core, TypeOK, AsyncType
<1>5. /\ UNCHANGED <<queue, qfd, sysApc, running, dead>> /\ Todo[1].op = "free" /\ Todo[1].a = b
  BY <1>1, <1>3, CallOps, Zenon DEF qVars, apcVars
<1>6. /\ \A a : ~Queueing(a)' /\ ~Resulting(a)' /\ ~Heads(Todo, "restart", a)'
      /\ \A t : Has(Todo', DequeueOf(t)) <=> Has(Todo, DequeueOf(t))
      /\ Count(Todo', ReleaseOf(b)) = Count(Todo, ReleaseOf(b))
      /\ Count(Todo', FreeOf(b)) = Count(Todo, FreeOf(b)) - 1
      /\ Count(Todo', FreeOf(b)) \in Nat /\ Count(Todo, FreeOf(b)) \in Nat
      /\ Has(Todo', FreeOf(b)) <=> Count(Todo', FreeOf(b)) > 0
      /\ Count(Todo, ReleaseOf(b)) \in Nat
  <2>1. ReleaseOf(b) # FreeOf(b)
    BY CallOps, Zenon
  <2> QED BY <1>3, <1>5, <2>1, AloneFlags
<1>7. /\ asy[b].life = "live" /\ asy[b].ref = 0 /\ Count(Todo, ReleaseOf(b)) = 0 /\ ~Held(b)
      /\ Count(Todo', FreeOf(b)) = 0
  <2>1. Has(Todo, FreeOf(b))
    BY <1>3, Zenon DEF Has
  <2>2. asy[b].life = "live" /\ asy[b].ref = 0 /\ Count(Todo, FreeOf(b)) <= 1
    BY <1>4, <2>1, Zenon DEF Account, Living
  <2>3. Count(Todo, ReleaseOf(b)) = 0 /\ ~Held(b)
    BY <1>4, <1>6, <2>2 DEF Account, RefExact
  <2> QED BY <1>6, <2>2, <2>3
<1>8. /\ r \in AsyncType /\ r.life = "freed" /\ r.type = asy[b].type /\ r.thread = asy[b].thread
      /\ r.ref = asy[b].ref /\ r.result = asy[b].result /\ r.status = asy[b].status
      /\ r.apc = asy[b].apc /\ r.timeout = FALSE
  BY <1>4, Zenon DEF AsyncType
<1>a. asy' = [asy EXCEPT ![b] = r]
  BY <1>1, <1>3, Zenon DEF Core, TypeOK
<1> HIDE DEF r
<1>9. /\ asy' \in [Async -> AsyncType] /\ asy'[b] = r
      /\ \A a \in Async : a # b => asy'[a] = asy[a]
  BY <1>a, <1>3, <1>8, Assigned, Zenon DEF Core
<1>10. \A a \in Async : /\ asy'[a].type = asy[a].type /\ asy'[a].thread = asy[a].thread
                        /\ (asy[a].life # "unused" => asy'[a].life # "unused")
                        /\ asy'[a].status = asy[a].status
                        /\ asy'[a].result = asy[a].result /\ asy[a].ref = asy'[a].ref
  BY <1>8, <1>9, Zenon
<1>11. Calls'
  <2>1. Keeps
    BY <1>5, <1>10, Zenon DEF Keeps
  <2> QED BY <1>3, <1>10, <2>1, AloneCalls, Zenon
<1>12. Queues'
  BY <1>5, <1>10, Zenon DEF Core, Queues
<1>13. Apcs'
  BY <1>5, <1>10, ApcsKept, Zenon DEF Core
<1>14. \A a \in Async : Posted(a)' <=> Posted(a)
  BY <1>5, <1>10, Zenon DEF Posted
<1>16. ~Held(b)'
  <2>1. ~Pends(b)'
    BY <1>8, <1>9, Zenon DEF Pends
  <2>2. ~Runs(b)'
    <3>1. asy'[b].thread = asy[b].thread
      BY <1>3, <1>10, Zenon
    <3>2. Has(Todo', DequeueOf(asy[b].thread)) <=> Has(Todo, DequeueOf(asy[b].thread))
      BY <1>6, Zenon
    <3> QED BY <1>5, <1>7, <3>1, <3>2, Zenon DEF Runs, Held
  <2> QED BY <1>3, <1>7, <1>14, <2>1, <2>2, Zenon DEF Held
<1>19. Account(b)'
  <2>1. RefExact(b)'
    BY <1>6, <1>7, <1>8, <1>9, <1>16, RefGone, Sums, Zenon
  <2>2. Exclusive(b)'
    BY <1>6, <1>16, Zenon DEF Exclusive, Held
  <2>3. Living(b)'
    BY <1>4, <1>6, <1>7, <1>8, <1>9, Sums, Zenon DEF Account, Living
  <2>4. Owned(b)'
    BY <1>7, <1>8, <1>9 DEF Owned
  <2> QED BY <2>1, <2>2, <2>3, <2>4, Zenon DEF Account
<1>20. \A a \in Async : a # b => Account(a)'
  BY <1>3, <1>5, <1>9, <1>14, EmptyPush, OthersKeep, Zenon
<1>21. TypeOK' /\ OneCtx'
  BY <1>1, <1>2, <1>9, Zenon DEF Core, TypeOK, qVars, fileVars, apcVars, Takes
<1> QED BY <1>11, <1>12, <1>13, <1>19, <1>20, <1>21, Zenon DEF Core

\* The request that carries the result of an APC.
LEMMA ResultCalls ==
  ASSUME ListFacts, Core, NEW c \in Ctx, NEW op \in {"async_set_result", "restart"}, Now(c, op),
         NEW b, b = Arg(c).a
  PROVE  /\ b \in Async /\ Todo[1].op = op /\ Todo[1].a = b /\ Todo[1] = Arg(c)
         /\ Todo = <<Todo[1], ReleaseOf(b), DequeueOf(asy[b].thread)>>
         /\ asy[b].thread \in Thread /\ asy[b].life = "live" /\ asy[b].ref > 0 /\ asy[b].result = None
         /\ Count(Todo, ReleaseOf(b)) = 1 /\ Count(Todo, FreeOf(b)) = 0
         /\ Has(Todo, DequeueOf(asy[b].thread)) /\ Heads(Todo, op, b) /\ Resulting(b)
         /\ Account(b) /\ ~Held(b)
<1>1. /\ work[c] # <<>> /\ Arg(c).op = op
  BY Zenon DEF Now, Arg
<1>2. Todo[1] = Arg(c) /\ 1 \in DOMAIN Todo /\ Todo \in Seq(CallType) /\ Todo # <<>>
  BY <1>1, TodoIs, HeadIn, Zenon DEF Core
<1>3. b \in Async /\ Heads(Todo, op, b) /\ Resulting(b)
  <2>1. op \in CoveredOps
    BY Zenon DEF CoveredOps
  <2> QED BY <1>1, <1>2, <2>1, Zenon DEF Core, Calls, Shaped, Fine, Heads, Resulting
<1>4. PICK t \in Thread : Todo = <<Todo[1], ReleaseOf(b), DequeueOf(t)>>
  BY <1>1, <1>2, <1>3, Zenon DEF Core, Calls, Shaped
<1>5. Todo[3] = DequeueOf(asy[b].thread)
  BY <1>1, <1>2, Zenon DEF Core, Calls, Returns
<1> DEFINE x == Todo[1]
           y == ReleaseOf(b)
           z == DequeueOf(t)
<1>6. Todo = <<x, y, z>> /\ Todo[1] = x /\ x.op = op
  BY <1>1, <1>2, <1>4, Zenon
<1> HIDE DEF x, y, z
<1>7. DOMAIN Todo = {1, 2, 3} /\ Todo[2] = y /\ Todo[3] = z
  BY <1>6
<1>8. z = DequeueOf(asy[b].thread)
  BY <1>5, <1>7, Zenon
<1>9. Todo = <<Todo[1], ReleaseOf(b), DequeueOf(asy[b].thread)>>
  BY <1>6, <1>8, Zenon DEF y
<1>10. y.op = "release" /\ z.op = "dequeue_apc" /\ FreeOf(b).op = "free"
  BY <1>8, CallOps, Zenon DEF y
<1>11. Count(Todo, ReleaseOf(b)) = 1
  <2>1. \A j \in DOMAIN Todo : Todo[j] = ReleaseOf(b) <=> j = 2
    BY <1>6, <1>7, <1>10, Zenon DEF y
  <2>2. 2 \in DOMAIN Todo
    BY <1>7, Zenon
  <2> QED BY <2>1, <2>2, CountSingle, Zenon
<1>12. Count(Todo, FreeOf(b)) = 0
  <2>1. ~Has(Todo, FreeOf(b))
    BY <1>6, <1>7, <1>10, Zenon DEF Has
  <2> QED BY <2>1, CountNone, Zenon
<1>13. Has(Todo, DequeueOf(asy[b].thread))
  <2>1. 3 \in DOMAIN Todo
    BY <1>7, Zenon
  <2> QED BY <1>5, <2>1, Zenon DEF Has
<1>14. Account(b) /\ ~Held(b)
  BY <1>3, Zenon DEF Core, Account, Exclusive
<1>15. asy[b].ref > 0
  BY <1>11, <1>14 DEF Account, RefExact
<1>16. asy[b].life = "live" /\ asy[b].thread \in Thread
  BY <1>14, <1>15 DEF Account, Living
<1>17. asy[b].result = None
  BY <1>1, <1>2, <1>14, <1>15, NotResulted, Zenon DEF Account, Owned
<1> QED BY <1>1, <1>2, <1>3, <1>9, <1>11, <1>12, <1>13, <1>14, <1>15, <1>16, <1>17, Zenon

LEMMA ReplacedThree ==
  ASSUME NEW S, NEW x \in S, NEW y \in S, NEW z \in S, NEW v \in Seq(S)
  PROVE  /\ Replaced(v, <<x, y, z>>, <<>>) => v = <<y, z>>
         /\ \A e \in S : Replaced(v, <<x, y, z>>, <<e>>) => v = <<e, y, z>>
<1> DEFINE w == <<x, y, z>>
<1>1. w \in Seq(S) /\ Len(w) = 3 /\ w[2] = y /\ w[3] = z
  OBVIOUS
<1> HIDE DEF w
<1>2. Len(<<>>) = 0 /\ 2 \in 2 .. Len(w) /\ 3 \in 2 .. Len(w)
  BY <1>1
<1>3. ASSUME Replaced(v, w, <<>>) PROVE v = <<y, z>>
  <2>1. Len(v) = 2 /\ v[1] = y /\ v[2] = z
    <3>1. v[2 - 1 + Len(<<>>)] = w[2] /\ v[3 - 1 + Len(<<>>)] = w[3] /\ Len(v) = Len(<<>>) + Len(w) - 1
      BY <1>2, <1>3, Zenon DEF Replaced
    <3> QED BY <1>1, <1>2, <3>1
  <2> QED BY <2>1
<1>4. ASSUME NEW e \in S, Replaced(v, w, <<e>>) PROVE v = <<e, y, z>>
  <2>0. Len(<<e>>) = 1 /\ 1 \in 1 .. 1 /\ <<e>>[1] = e
    OBVIOUS
  <2>1. Len(v) = 3 /\ v[1] = e /\ v[2] = y /\ v[3] = z
    <3>1. /\ v[2 - 1 + Len(<<e>>)] = w[2] /\ v[3 - 1 + Len(<<e>>)] = w[3]
          /\ Len(v) = Len(<<e>>) + Len(w) - 1 /\ v[1] = <<e>>[1]
      BY <1>2, <1>4, <2>0, Zenon DEF Replaced
    <3> QED BY <1>1, <2>0, <3>1
  <2> QED BY <2>1
<1> QED BY <1>3, <1>4, Zenon DEF w

LEMMA CoreSetFinal ==
  ASSUME ListFacts, Core, NEW c \in Ctx, SetResult(c), NEW b, b = Arg(c).a, NEW s, s = Arg(c).s, s # "pending"
  PROVE  Core'
<1> DEFINE r == [asy[b] EXCEPT !.status = s, !.timeout = FALSE, !.result = s]
<1>1. /\ Now(c, "async_set_result") /\ Then(c, <<>>)
      /\ asy' = [asy EXCEPT ![b].status = s, ![b].timeout = FALSE, ![b].result = s]
      /\ packets' = [packets EXCEPT ![b] = Append(@, s)] \/ packets' = packets
      /\ UNCHANGED <<qVars, fd, fileVars, apcVars, dead>>
  BY Zenon DEF SetResult
<1>2. Takes(c, "async_set_result", <<>>)
  BY <1>1, EmptyPush, Taking, Zenon
<1>3. /\ b \in Async /\ Todo[1].op = "async_set_result" /\ Todo[1].a = b /\ Todo[1] = Arg(c)
      /\ Todo = <<Todo[1], ReleaseOf(b), DequeueOf(asy[b].thread)>>
      /\ asy[b].thread \in Thread /\ asy[b].life = "live" /\ asy[b].ref > 0 /\ asy[b].result = None
      /\ Count(Todo, ReleaseOf(b)) = 1 /\ Count(Todo, FreeOf(b)) = 0
      /\ Has(Todo, DequeueOf(asy[b].thread))
      /\ Account(b) /\ ~Held(b) /\ StepTo(<<>>)
  BY <1>1, <1>2, ResultCalls, Zenon DEF Takes
<1>4. s \in Status /\ asy[b] \in AsyncType
  <2>1. Arg(c).s \in Status \cup {"pending"}
    BY <1>2, ArgTyped, Zenon DEF Takes, Core, CallType
  <2> QED BY <1>3, <2>1, Zenon DEF Core, TypeOK
<1>5. Todo' = <<ReleaseOf(b), DequeueOf(asy[b].thread)>>
  <2> DEFINE x == Todo[1]
             y == ReleaseOf(b)
             z == DequeueOf(asy[b].thread)
  <2>1. x \in CallType /\ y \in CallType /\ z \in CallType
    <3>1. x \in CallType
      BY <1>2, <1>3, ArgTyped, Zenon DEF Takes, Core
    <3> QED BY <1>3, <3>1, CallTyped, Zenon DEF Ops, ReleaseOf, DequeueOf
  <2>2. Todo = <<x, y, z>> /\ Todo' \in Seq(CallType) /\ Replaced(Todo', Todo, <<>>)
    BY <1>3, Zenon DEF StepTo
  <2> HIDE DEF x, y, z
  <2>3. Todo' = <<y, z>>
    BY <2>1, <2>2, ReplacedThree, Zenon
  <2> QED BY <2>3, Zenon DEF y, z
<1>6. UNCHANGED <<queue, qfd, sysApc, running, dead>>
  BY <1>1, Zenon DEF qVars, apcVars
<1>7. /\ \A a : ~Queueing(a)' /\ ~Resulting(a)' /\ ~Heads(Todo, "restart", a)'
      /\ \A t : Has(Todo', DequeueOf(t)) <=> Has(Todo, DequeueOf(t))
      /\ Count(Todo', ReleaseOf(b)) = 1 /\ Count(Todo', FreeOf(b)) = 0 /\ ~Has(Todo', FreeOf(b))
  <2>1. Todo[1] # ReleaseOf(b) /\ Todo[1] # FreeOf(b)
    BY <1>3, CallOps, Zenon
  <2> QED BY <1>3, <2>1, AloneFlags
<1>8. /\ r \in AsyncType /\ r.life = asy[b].life /\ r.type = asy[b].type /\ r.thread = asy[b].thread
      /\ r.ref = asy[b].ref /\ r.result = s /\ r.status = s
      /\ r.apc = asy[b].apc /\ r.timeout = FALSE
  BY <1>4, Zenon DEF AsyncType
<1>a. asy' = [asy EXCEPT ![b] = r]
  BY <1>1, <1>3, Zenon DEF Core, TypeOK
<1> HIDE DEF r
<1>9. /\ asy' \in [Async -> AsyncType] /\ asy'[b] = r
      /\ \A a \in Async : a # b => asy'[a] = asy[a]
  BY <1>a, <1>3, <1>8, Assigned, Zenon DEF Core
<1>10. \A a \in Async : /\ asy'[a].type = asy[a].type /\ asy'[a].thread = asy[a].thread
                        /\ asy'[a].life = asy[a].life /\ asy[a].ref = asy'[a].ref
                        /\ (asy[a].status # "pending" => asy'[a].status # "pending")
  BY <1>8, <1>9, Zenon
<1>11. Calls'
  <2>1. Keeps
    BY <1>6, <1>10, Zenon DEF Keeps
  <2> QED BY <1>3, <1>10, <2>1, AloneCalls, Zenon
<1>12. Queues'
  BY <1>6, <1>10, Zenon DEF Core, Queues
<1>13. Apcs'
  BY <1>6, <1>10, ApcsKept, Zenon DEF Core
<1>14. \A a \in Async : Posted(a)' <=> Posted(a)
  BY <1>6, <1>10, Zenon DEF Posted
<1>16. ~Held(b)'
  <2>1. ~Pends(b)'
    BY <1>8, <1>9, Zenon DEF Pends
  <2>2. ~Runs(b)'
    <3>1. asy'[b].thread = asy[b].thread
      BY <1>3, <1>10, Zenon
    <3>2. Has(Todo', DequeueOf(asy[b].thread))
      BY <1>3, <1>7, Zenon
    <3> QED BY <3>1, <3>2, Zenon DEF Runs
  <2> QED BY <1>3, <1>14, <2>1, <2>2, Zenon DEF Held
<1>17. Resulted(b)'
  BY <1>5, <1>8, <1>9, Zenon DEF Resulted
<1>19. Account(b)'
  <2>0. asy[b].ref = 1
    BY <1>3 DEF Account, RefExact
  <2>1. RefExact(b)'
    BY <1>7, <1>8, <1>9, <1>16, <2>0 DEF RefExact
  <2>2. Exclusive(b)'
    BY <1>7, <1>16, Zenon DEF Exclusive, Held
  <2>3. Living(b)'
    BY <1>3, <1>7, <1>8, <1>9 DEF Living
  <2>4. Owned(b)'
    BY <1>17, Zenon DEF Owned
  <2> QED BY <2>1, <2>2, <2>3, <2>4, Zenon DEF Account
<1>20. \A a \in Async : a # b => Account(a)'
  BY <1>3, <1>6, <1>9, <1>14, EmptyPush, OthersKeep, Zenon
<1>21. packets' \in [Async -> Seq(Status)]
  <2>1. packets \in [Async -> Seq(Status)]
    BY Zenon DEF Core, TypeOK
  <2>2. Append(packets[b], s) \in Seq(Status)
    BY <1>3, <1>4, <2>1
  <2> QED BY <1>1, <2>1, <2>2, Zenon
<1>22. TypeOK' /\ OneCtx'
  BY <1>1, <1>2, <1>9, <1>21, Zenon DEF Core, TypeOK, qVars, fileVars, apcVars, Takes
<1> QED BY <1>11, <1>12, <1>13, <1>19, <1>20, <1>22, Zenon DEF Core

LEMMA ThreeCalls ==
  ASSUME ListFacts, NEW e \in CallType, NEW b \in Async, e.op \in {"async_set_result", "restart"}, e.a = b,
         e.op = "restart" => e.s \in Status, NEW t \in Thread,
         NEW w, w = <<e, ReleaseOf(b), DequeueOf(t)>>
  PROVE  /\ w \in Seq(CallType) /\ w # <<>> /\ w[1] = e /\ w[3] = DequeueOf(t)
         /\ Covered(w) /\ Shaped(w)
         /\ \A i \in DOMAIN w : w[i].op \notin {"clear_apc", "async_terminate", "async_wake_up"}
         /\ Count(w, ReleaseOf(b)) = 1 /\ \A a : a # b => Count(w, ReleaseOf(a)) = 0
         /\ \A a : Count(w, FreeOf(a)) = 0 /\ ~Has(w, FreeOf(a))
         /\ \A u : Has(w, DequeueOf(u)) <=> u = t
<1> DEFINE y == ReleaseOf(b)
           z == DequeueOf(t)
<1>1. /\ y \in CallType /\ z \in CallType /\ y.op = "release" /\ y.a = b /\ z.op = "dequeue_apc" /\ z.a = t
      /\ w = <<e, y, z>>
  <2>1. y \in CallType /\ z \in CallType
    BY CallTyped, Zenon DEF ReleaseOf, DequeueOf, Ops
  <2>2. y.op = "release" /\ y.a = b /\ z.op = "dequeue_apc" /\ z.a = t
    BY CallOps, Zenon
  <2> QED BY <2>1, <2>2, Zenon
<1> HIDE DEF y, z
<1>2. /\ w \in Seq(CallType) /\ DOMAIN w = {1, 2, 3} /\ Len(w) = 3 /\ w[1] = e /\ w[2] = y /\ w[3] = z
  BY <1>1
<1>3. w # <<>>
  BY <1>2, EmptyLen, Zenon
<1>4. Covered(w)
  <2> SUFFICES ASSUME NEW i \in DOMAIN w, w[i].op \in CoveredOps
               PROVE  \E j \in i .. Len(w) : w[j] = ReleaseOf(w[i].a) \/ w[j] = FreeOf(w[i].a)
    BY Zenon DEF Covered
  <2>1. i \in {1, 2} /\ w[i].a = b
    BY <1>1, <1>2, Zenon DEF CoveredOps
  <2>2. 2 \in i .. Len(w) /\ w[2] = ReleaseOf(b)
    BY <1>2, <2>1 DEF y
  <2> QED BY <2>1, <2>2, Zenon
<1>5. \A i \in 2 .. Len(w) : w[i].op \notin FirstOps
  BY <1>1, <1>2 DEF FirstOps
<1>6. \A i \in DOMAIN w : Fine(w[i]) /\ (w[i].op = "dequeue_apc" => i = Len(w))
  <2>1. Fine(e)
    BY Zenon DEF Fine
  <2>2. Fine(y)
    BY <1>1, Zenon DEF Fine, y
  <2>3. Fine(z)
    BY <1>1, Zenon DEF Fine, z, CoveredOps
  <2> QED BY <1>1, <1>2, <2>1, <2>2, <2>3, Zenon
<1>7. Shaped(w)
  <2>1. w = <<w[1], ReleaseOf(w[1].a), DequeueOf(t)>>
    BY <1>2, Zenon
  <2> QED BY <1>5, <1>6, <2>1, Zenon DEF Shaped
<1>8. \A i \in DOMAIN w : w[i].op \notin {"clear_apc", "async_terminate", "async_wake_up"}
  BY <1>1, <1>2, Zenon
<1>9. Count(w, ReleaseOf(b)) = 1
  <2>1. \A j \in DOMAIN w : w[j] = ReleaseOf(b) <=> j = 2
    BY <1>1, <1>2, Zenon DEF y
  <2>2. 2 \in DOMAIN w
    BY <1>2, Zenon
  <2> QED BY <2>1, <2>2, CountSingle, Zenon
<1>10. ASSUME NEW a PROVE Count(w, FreeOf(a)) = 0 /\ ~Has(w, FreeOf(a)) /\ (a # b => Count(w, ReleaseOf(a)) = 0)
  <2>1. ~Has(w, FreeOf(a))
    BY <1>1, <1>2, CallOps DEF Has
  <2>2. a # b => ~Has(w, ReleaseOf(a))
    BY <1>1, <1>2, CallOps DEF Has
  <2> QED BY <2>1, <2>2, CountNone, Zenon
<1>11. ASSUME NEW u PROVE Has(w, DequeueOf(u)) <=> u = t
  <2>1. DequeueOf(u).op = "dequeue_apc" /\ DequeueOf(u).a = u
    BY CallOps, Zenon
  <2>2. Has(w, DequeueOf(u)) => u = t
    BY <1>1, <1>2, <2>1, Zenon DEF Has
  <2>3. Has(w, DequeueOf(t))
    BY <1>2, Zenon DEF Has, z
  <2> QED BY <2>2, <2>3, Zenon
<1> QED BY <1>2, <1>3, <1>4, <1>7, <1>8, <1>9, <1>10, <1>11, Zenon DEF z

LEMMA CoreSetPending ==
  ASSUME ListFacts, Core, NEW c \in Ctx, SetResult(c), NEW b, b = Arg(c).a, Arg(c).s = "pending",
         NEW s, s = asy[b].status
  PROVE  Core'
<1> DEFINE r == [asy[b] EXCEPT !.status = "pending"]
           e == Call("restart", b, s)
           p == <<e>>
<1>1. /\ Now(c, "async_set_result") /\ Then(c, p)
      /\ asy' = [asy EXCEPT ![b] = r]
      /\ UNCHANGED <<qVars, fd, fileVars, apcVars, dead, packets>>
  BY Zenon DEF SetResult
<1>2. /\ b \in Async /\ Todo[1].op = "async_set_result" /\ Todo[1].a = b /\ Todo[1] = Arg(c)
      /\ Todo = <<Todo[1], ReleaseOf(b), DequeueOf(asy[b].thread)>>
      /\ asy[b].thread \in Thread /\ asy[b].life = "live" /\ asy[b].ref > 0 /\ asy[b].result = None
      /\ Count(Todo, ReleaseOf(b)) = 1 /\ Has(Todo, DequeueOf(asy[b].thread))
      /\ Account(b) /\ ~Held(b)
  BY <1>1, ResultCalls, Zenon
<1>3. s \in Status /\ asy[b] \in AsyncType
  <2>1. asy[b] \in AsyncType /\ s \in Status \cup {"pending"}
    BY <1>2, AsyFields, Zenon DEF Core, TypeOK
  <2>2. ~Heads(Todo, "restart", b)
    BY <1>2, Zenon DEF Heads
  <2> QED BY <1>2, <2>1, <2>2, Zenon DEF Held, Pends
<1>4. e \in CallType /\ e.op = "restart" /\ e.a = b /\ e.s = s
  BY <1>2, <1>3, CallTyped, Zenon DEF Call, Ops
<1> HIDE DEF e
<1>5. p \in Seq(CallType) /\ DOMAIN p = {1} /\ p[1] = e
  BY <1>4
<1>6. Takes(c, "async_set_result", p)
  BY <1>1, <1>5, Taking, Zenon
<1>7. Todo' = <<e, ReleaseOf(b), DequeueOf(asy[b].thread)>> /\ StepTo(p)
  <2> DEFINE x == Todo[1]
             y == ReleaseOf(b)
             z == DequeueOf(asy[b].thread)
  <2>1. x \in CallType /\ y \in CallType /\ z \in CallType
    <3>1. x \in CallType
      BY <1>2, <1>6, ArgTyped, Zenon DEF Takes, Core
    <3> QED BY <1>2, <3>1, CallTyped, Zenon DEF Ops, ReleaseOf, DequeueOf
  <2>2. Todo = <<x, y, z>> /\ Todo' \in Seq(CallType) /\ Replaced(Todo', Todo, <<e>>) /\ StepTo(p)
    BY <1>2, <1>6, Zenon DEF Takes, StepTo
  <2> HIDE DEF x, y, z
  <2>3. Todo' = <<e, y, z>>
    BY <1>4, <2>1, <2>2, ReplacedThree, Zenon
  <2> QED BY <2>2, <2>3, Zenon DEF y, z
<1> HIDE DEF p
<1>8. /\ Todo' # <<>> /\ Todo'[1] = e /\ Todo'[3] = DequeueOf(asy[b].thread)
      /\ Covered(Todo') /\ Shaped(Todo')
      /\ \A i \in DOMAIN Todo' : Todo'[i].op \notin {"clear_apc", "async_terminate", "async_wake_up"}
      /\ Count(Todo', ReleaseOf(b)) = 1
      /\ Count(Todo', FreeOf(b)) = 0 /\ ~Has(Todo', FreeOf(b))
      /\ Has(Todo', DequeueOf(asy[b].thread))
  BY <1>2, <1>3, <1>4, <1>7, ThreeCalls
<1>9. /\ r \in AsyncType /\ r.life = asy[b].life /\ r.type = asy[b].type /\ r.thread = asy[b].thread
      /\ r.ref = asy[b].ref /\ r.result = asy[b].result /\ r.status = "pending"
      /\ r.apc = asy[b].apc /\ r.timeout = asy[b].timeout
  BY <1>3, Zenon DEF AsyncType
<1> HIDE DEF r
<1>10. /\ asy' \in [Async -> AsyncType] /\ asy'[b] = r
       /\ \A a \in Async : a # b => asy'[a] = asy[a]
  BY <1>1, <1>2, <1>9, Assigned, Zenon DEF Core
<1>11. \A a \in Async : /\ asy'[a].type = asy[a].type /\ asy'[a].thread = asy[a].thread
                        /\ asy'[a].life = asy[a].life /\ asy[a].ref = asy'[a].ref
  BY <1>9, <1>10, Zenon
<1>12. Calls'
  <2>1. Clears' /\ Terminates' /\ Closes'
    BY <1>8, Zenon DEF Clears, Terminates, Closes
  <2>2. Returns'
    BY <1>2, <1>4, <1>8, <1>11, Zenon DEF Returns
  <2> QED BY <1>8, <2>1, <2>2, Zenon DEF Calls
<1>13. UNCHANGED <<queue, qfd, sysApc, running, dead>>
  BY <1>1, Zenon DEF qVars, apcVars
<1>14. Queues'
  BY <1>11, <1>13, Zenon DEF Core, Queues
<1>15. Apcs'
  BY <1>11, <1>13, ApcsKept, Zenon DEF Core
<1>16. \A a \in Async : Posted(a)' <=> Posted(a)
  BY <1>11, <1>13, Zenon DEF Posted
<1>17. Heads(Todo, "restart", b)' /\ ~Queueing(b)' /\ Resulting(b)'
  BY <1>4, <1>8, Zenon DEF Heads, Queueing, Resulting
<1>18. ~Held(b)'
  <2>1. ~Pends(b)'
    BY <1>17, Zenon DEF Pends
  <2>2. ~Runs(b)'
    <3>1. asy'[b].thread = asy[b].thread
      BY <1>2, <1>11, Zenon
    <3> QED BY <1>8, <3>1, Zenon DEF Runs
  <2> QED BY <1>2, <1>16, <2>1, <2>2, Zenon DEF Held
<1>19. Account(b)'
  <2>0. asy[b].ref = 1
    BY <1>2 DEF Account, RefExact
  <2>1. RefExact(b)'
    BY <1>8, <1>9, <1>10, <1>18, <2>0 DEF RefExact
  <2>2. Exclusive(b)'
    BY <1>9, <1>10, <1>17, <1>18, Zenon DEF Exclusive, Held
  <2>3. Living(b)'
    BY <1>2, <1>8, <1>9, <1>10 DEF Living
  <2>4. Owned(b)'
    BY <1>2, <1>9, <1>10, <1>17, Zenon DEF Owned
  <2> QED BY <2>1, <2>2, <2>3, <2>4, Zenon DEF Account
<1>20. \A a \in Async : a # b => Account(a)'
  BY <1>2, <1>4, <1>5, <1>7, <1>10, <1>13, <1>16, OthersKeep
<1>22. TypeOK' /\ OneCtx'
  BY <1>1, <1>6, <1>10, Zenon DEF Core, TypeOK, qVars, fileVars, apcVars, Takes
<1> QED BY <1>12, <1>14, <1>15, <1>19, <1>20, <1>22, Zenon DEF Core

LEMMA CoreRestart ==
  ASSUME ListFacts, Core, NEW c \in Ctx, Restart(c), NEW b, b = Arg(c).a, NEW s, s = Arg(c).s
  PROVE  Core'
<1> DEFINE r == [asy[b] EXCEPT !.ref = asy[b].ref + 1, !.apc = TRUE]
           e == IF s # "alerted" THEN Call("async_terminate", b, s) ELSE Call("async_reselect", b, "pending")
           p == <<e>>
<1>1. /\ Now(c, "restart") /\ Then(c, p)
      /\ asy' = [asy EXCEPT ![b].ref = @ + 1, ![b].apc = TRUE]
      /\ UNCHANGED <<qVars, fd, fileVars, apcVars, dead, packets>>
  BY Zenon DEF Restart
<1>2. /\ b \in Async /\ Todo[1].op = "restart" /\ Todo[1].a = b /\ Todo[1] = Arg(c)
      /\ Todo = <<Todo[1], ReleaseOf(b), DequeueOf(asy[b].thread)>>
      /\ asy[b].thread \in Thread /\ asy[b].life = "live" /\ asy[b].ref > 0 /\ asy[b].result = None
      /\ Count(Todo, ReleaseOf(b)) = 1 /\ Has(Todo, DequeueOf(asy[b].thread))
      /\ Count(Todo, FreeOf(b)) = 0 /\ Heads(Todo, "restart", b)
      /\ Account(b) /\ ~Held(b)
  BY <1>1, ResultCalls, Zenon
<1>3. /\ s \in Status /\ asy[b] \in AsyncType /\ asy[b].ref \in Nat
      /\ asy[b].status = "pending"
  <2>1. s \in Status
    <3>1. Todo # <<>> /\ 1 \in DOMAIN Todo
      BY <1>1, TodoIs, HeadIn, Zenon DEF Core, Now
    <3> QED BY <1>2, <3>1, Zenon DEF Core, Calls, Shaped, Fine
  <2> QED BY <1>2, <2>1, Zenon DEF Core, TypeOK, AsyncType, Account, Exclusive
<1>4. /\ e \in CallType /\ e.a = b
      /\ \/ e.op = "async_terminate" /\ e.s = s
         \/ e.op = "async_reselect"
  BY <1>2, <1>3, CallTyped, Zenon DEF Call, Ops
<1> HIDE DEF e
<1>5. p \in Seq(CallType) /\ DOMAIN p = {1} /\ p[1] = e /\ Len(p) = 1
  BY <1>4
<1> HIDE DEF p
<1>6. Takes(c, "restart", p) /\ StepTo(p)
  BY <1>1, <1>5, Taking, Zenon DEF Takes
<1>7. /\ r \in AsyncType /\ r.life = asy[b].life /\ r.type = asy[b].type /\ r.thread = asy[b].thread
      /\ r.ref = asy[b].ref + 1 /\ r.result = asy[b].result /\ r.status = asy[b].status
      /\ r.apc = TRUE /\ r.timeout = asy[b].timeout
  <2> DEFINE n == asy[b].ref + 1
  <2>1. asy[b] \in AsyncType /\ n \in Nat /\ r = [asy[b] EXCEPT !.ref = n, !.apc = TRUE]
    BY <1>3
  <2> HIDE DEF n, r
  <2>2. /\ r \in AsyncType /\ r.life = asy[b].life /\ r.type = asy[b].type /\ r.thread = asy[b].thread
        /\ r.ref = n /\ r.result = asy[b].result /\ r.status = asy[b].status
        /\ r.apc = TRUE /\ r.timeout = asy[b].timeout
    BY <2>1, Zenon DEF AsyncType
  <2> QED BY <2>2, Zenon DEF n
<1>a. asy' = [asy EXCEPT ![b] = r]
  BY <1>1, <1>2, Zenon DEF Core, TypeOK
<1> HIDE DEF r
<1>8. /\ asy' \in [Async -> AsyncType] /\ asy'[b] = r
      /\ \A a \in Async : a # b => asy'[a] = asy[a]
  BY <1>a, <1>2, <1>7, Assigned, Zenon DEF Core
<1>9. \A a \in Async : /\ asy'[a].type = asy[a].type /\ asy'[a].thread = asy[a].thread
                       /\ asy'[a].life = asy[a].life /\ asy[a].status = asy'[a].status
                       /\ (asy[a].ref > 0 <=> asy'[a].ref > 0)
  BY <1>2, <1>3, <1>7, <1>8
<1>13. UNCHANGED <<queue, qfd, sysApc, running, dead>>
  BY <1>1, Zenon DEF qVars, apcVars
<1>10. Pushable(p, Todo)
  <2> DEFINE x == Todo[1]
             y == ReleaseOf(b)
             z == DequeueOf(asy[b].thread)
  <2>1. Todo = <<x, y, z>>
    BY <1>2, Zenon
  <2> HIDE DEF x, y, z
  <2>2. 2 \in 2 .. Len(Todo) /\ Todo[2] = y
    BY <2>1
  <2>3. Fine(e) /\ e.op \notin {"dequeue_apc", "async_set_result", "restart"}
    BY <1>2, <1>3, <1>4, Zenon DEF Fine, CoveredOps
  <2>4. 2 .. Len(p) = {}
    BY <1>5
  <2> QED BY <1>4, <1>5, <2>2, <2>3, <2>4, Zenon DEF Pushable, y
<1>11. Calls'
  <2>1. Keeps
    BY <1>9, <1>13, Zenon DEF Keeps
  <2>2. \A k \in 2 .. Len(Todo) : Todo[k].op = "async_terminate" => Todo[k].a \in Async
    <3>1. \A k \in 2 .. Len(Todo) : k \in DOMAIN Todo
      BY <1>6, HeadIn, Zenon DEF StepTo
    <3> QED BY <3>1, Zenon DEF Core, Calls, Shaped, Fine
  <2>3. Todo[1].op \notin CloseOps
    BY <1>2, Zenon DEF CloseOps
  <2>4. asy'[b].life # "unused" /\ asy'[b].ref > 0
    BY <1>2, <1>9, Zenon
  <2>5. TermAt(asy', dead', qfd', p, 1)
    BY <1>4, <1>5, <2>4 DEF TermAt
  <2>6. \A i \in DOMAIN p : /\ p[i].op = "async_terminate" => TermAt(asy', dead', qfd', p, i)
                            /\ p[i].op # "clear_apc" /\ p[i].op # "async_wake_up"
    BY <1>4, <1>5, <2>5, Zenon
  <2> QED BY <1>6, <1>9, <1>10, <2>1, <2>2, <2>3, <2>6, PushCalls, Zenon DEF Core
<1>14. Queues'
  BY <1>9, <1>13, Zenon DEF Core, Queues
<1>15. Apcs'
  BY <1>9, <1>13, ApcsKept, Zenon DEF Core
<1>16. \A a \in Async : Posted(a)' <=> Posted(a)
  BY <1>9, <1>13, Zenon DEF Posted
<1>17. ~Heads(Todo, "restart", b)' /\ ~Queueing(b)' /\ ~Resulting(b)'
  <2>1. p # <<>>
    <3>1. p \in Seq(CallType) /\ Len(p) # 0
      BY <1>5
    <3> QED BY <3>1, EmptyLen, Zenon
  <2>2. Todo' # <<>> /\ Todo'[1] = e
    BY <1>5, <1>6, <2>1, ReplacedHead DEF StepTo
  <2> QED BY <1>4, <2>2, Zenon DEF Heads, Queueing, Resulting
<1>18. /\ Count(Todo', ReleaseOf(b)) = 1 /\ Count(Todo', FreeOf(b)) = 0 /\ ~Has(Todo', FreeOf(b))
       /\ Has(Todo', DequeueOf(asy[b].thread))
  <2>1. Count(p, ReleaseOf(b)) = 0 /\ Count(p, FreeOf(b)) = 0
    <3>1. ~Has(p, ReleaseOf(b)) /\ ~Has(p, FreeOf(b))
      BY <1>4, <1>5, CallOps, Zenon DEF Has
    <3> QED BY <3>1, CountNone, Zenon
  <2>2. Todo[1] # ReleaseOf(b) /\ Todo[1] # FreeOf(b)
    BY <1>2, CallOps, Zenon
  <2>3. \A i \in DOMAIN p : p[i].op # "dequeue_apc"
    BY <1>4, <1>5, Zenon
  <2> QED BY <1>2, <1>6, <2>1, <2>2, <2>3, Flags DEF Core, Calls
<1>19. Pends(b)' /\ ~Posted(b)' /\ ~Runs(b)'
  <2>1. Pends(b)'
    BY <1>2, <1>3, <1>9, <1>17, Zenon DEF Pends
  <2>2. ~Runs(b)'
    <3>1. asy'[b].thread = asy[b].thread
      BY <1>2, <1>9, Zenon
    <3> QED BY <1>18, <3>1, Zenon DEF Runs
  <2> QED BY <1>2, <1>16, <2>1, <2>2, Zenon DEF Held
<1>20. Account(b)'
  <2>0. asy[b].ref = 1
    BY <1>2 DEF Account, RefExact
  <2>1. RefExact(b)'
    BY <1>7, <1>8, <1>18, <1>19, <2>0, Zenon DEF RefExact, Held
  <2>2. Exclusive(b)'
    BY <1>2, <1>3, <1>7, <1>8, <1>17, <1>19, Zenon DEF Exclusive
  <2>3. Living(b)'
    BY <1>2, <1>3, <1>18, <1>7, <1>8, <2>0 DEF Living
  <2>4. Owned(b)'
    BY <1>2, <1>7, <1>8, <1>19, Zenon DEF Owned, Held
  <2> QED BY <2>1, <2>2, <2>3, <2>4 DEF Account
<1>21. \A a \in Async : a # b => Account(a)'
  BY <1>2, <1>4, <1>5, <1>6, <1>8, <1>13, <1>16, OthersKeep
<1>22. TypeOK' /\ OneCtx'
  BY <1>1, <1>6, <1>8, Zenon DEF Core, TypeOK, qVars, fileVars, apcVars, Takes
<1> QED BY <1>11, <1>14, <1>15, <1>20, <1>21, <1>22, Zenon DEF Core

\* No call of the list w concerns the operation a.
Spares(w, a) ==
  /\ ~Has(w, ReleaseOf(a)) /\ ~Has(w, FreeOf(a))
  /\ \A op \in FirstOps : ~Heads(w, op, a)

LEMMA Bystander ==
  ASSUME ListFacts, NEW a \in Async, Account(a), SameAccount(a), dead \subseteq dead',
         Spares(Todo, a), Spares(Todo', a), ~Resulted(a),
         (Posted(a)' \/ Runs(a)') <=> (Posted(a) \/ Runs(a)), ~(Posted(a)' /\ Runs(a)')
  PROVE  Account(a)'
<1>1. /\ Count(Todo, ReleaseOf(a)) = 0 /\ Count(Todo', ReleaseOf(a)) = 0
      /\ Count(Todo, FreeOf(a)) = 0 /\ Count(Todo', FreeOf(a)) = 0
      /\ ~Has(Todo, FreeOf(a)) /\ ~Has(Todo', FreeOf(a))
  BY CountNone, Zenon DEF Spares
<1>2. /\ ~Queueing(a) /\ ~Queueing(a)' /\ ~Resulting(a) /\ ~Resulting(a)'
      /\ ~Heads(Todo, "restart", a) /\ ~Heads(Todo, "restart", a)'
  BY Zenon DEF Spares, Queueing, Resulting, FirstOps
<1>3. Pends(a)' <=> Pends(a)
  BY <1>2, Zenon DEF Pends, SameAccount
<1>4. Held(a)' <=> Held(a)
  BY <1>3, Zenon DEF Held
<1>5. RefExact(a)'
  BY <1>1, <1>4, Zenon DEF Account, RefExact, SameAccount
<1>6. Exclusive(a)'
  BY <1>2, <1>3, <1>4, Zenon DEF Account, Exclusive, SameAccount, Pends
<1>7. Living(a)'
  BY <1>1, Zenon DEF Account, Living, SameAccount
<1>8. Owned(a)'
  BY <1>2, <1>4, Zenon DEF Account, Owned, SameAccount
<1> QED BY <1>5, <1>6, <1>7, <1>8, Zenon DEF Account

LEMMA NoCalls ==
  /\ \A a : Spares(<<>>, a)
  /\ \A e : ~Has(<<>>, e)
  /\ Covered(<<>>) /\ Shaped(<<>>)
<1>1. DOMAIN <<>> = {} /\ Len(<<>>) = 0 /\ 2 .. 0 = {}
  OBVIOUS
<1> QED BY <1>1, Zenon DEF Spares, Has, Heads, Covered, Shaped

LEMMA TailAt ==
  ASSUME NEW S, NEW q \in Seq(S), q # <<>>
  PROVE  /\ 1 \in DOMAIN q /\ Head(q) = q[1] /\ Tail(q) \in Seq(S)
         /\ \A i \in DOMAIN Tail(q) : i + 1 \in DOMAIN q /\ Tail(q)[i] = q[i + 1] /\ i + 1 # 1
         /\ \A k \in DOMAIN q : k # 1 => k - 1 \in DOMAIN Tail(q) /\ Tail(q)[k - 1] = q[k]
         /\ \A i, j \in DOMAIN Tail(q) : i + 1 = j + 1 => i = j
<1>1. /\ Len(q) \in Nat /\ Len(q) >= 1 /\ DOMAIN q = 1 .. Len(q) /\ Tail(q) \in Seq(S)
      /\ Len(Tail(q)) = Len(q) - 1 /\ Head(q) = q[1]
  BY EmptyLen
<1>2. DOMAIN Tail(q) = 1 .. Len(q) - 1
  BY <1>1, EmptyLen, Zenon
<1>3. \A i \in 1 .. Len(q) - 1 : Tail(q)[i] = q[i + 1]
  BY <1>1
<1> DEFINE v == Tail(q)
<1> HIDE DEF v
<1>4. DOMAIN v = 1 .. Len(q) - 1 /\ v \in Seq(S) /\ \A i \in 1 .. Len(q) - 1 : v[i] = q[i + 1]
  BY <1>1, <1>2, <1>3, Zenon DEF v
<1>5. \A i \in DOMAIN v : i + 1 \in DOMAIN q /\ v[i] = q[i + 1] /\ i + 1 # 1
  BY <1>1, <1>4
<1>6. ASSUME NEW k \in DOMAIN q, k # 1 PROVE k - 1 \in DOMAIN v /\ v[k - 1] = q[k]
  <2>1. k - 1 \in 1 .. Len(q) - 1 /\ (k - 1) + 1 = k
    BY <1>1, <1>6
  <2> QED BY <1>4, <2>1, Zenon
<1>7. \A i, j \in DOMAIN v : i + 1 = j + 1 => i = j
  BY <1>4
<1> QED BY <1>1, <1>4, <1>5, <1>6, <1>7 DEF v

LEMMA CoreDequeueApc ==
  ASSUME ListFacts, Core, NEW c \in Ctx, DequeueApc(c), NEW t, t = Arg(c).a
  PROVE  Core'
<1>1. /\ Now(c, "dequeue_apc") /\ Then(c, <<>>)
      /\ UNCHANGED <<asy, qVars, fd, fileVars, dead, packets>>
  BY Zenon DEF DequeueApc
<1>2. Takes(c, "dequeue_apc", <<>>)
  BY <1>1, EmptyPush, Taking, Zenon
<1>3. t \in Thread /\ Todo[1] = DequeueOf(t) /\ Len(Todo) = 1
  BY <1>2, Zenon DEF Takes, Core, Calls, Shaped, Fine
<1>4. Todo' = <<>> /\ DOMAIN Todo = {1}
  <2>1. Todo \in Seq(CallType) /\ Todo' \in Seq(CallType) /\ Replaced(Todo', Todo, <<>>)
    BY <1>2, Zenon DEF Takes, StepTo
  <2>2. Len(Todo') = 0
    BY <1>3, <2>1, EmptyPush DEF Replaced
  <2>3. DOMAIN Todo = 1 .. 1
    BY <1>3, <2>1
  <2> QED BY <2>1, <2>2, <2>3, EmptyLen
<1>5. /\ \A a : Spares(Todo, a) /\ Spares(Todo', a) /\ ~Resulted(a)
      /\ \A u : Has(Todo, DequeueOf(u)) <=> u = t
      /\ \A u : ~Has(Todo', DequeueOf(u))
  <2>1. Todo[1].op = "dequeue_apc"
    BY <1>3, CallOps, Zenon
  <2>2. \A a : Spares(Todo, a)
    BY <1>4, <2>1, CallOps, Zenon DEF Spares, Has, Heads, FirstOps
  <2>3. \A a : ~Resulted(a)
    BY <2>1, NotResulted, Zenon
  <2>4. \A u : Has(Todo, DequeueOf(u)) <=> u = t
    BY <1>3, <1>4, CallOps DEF Has
  <2> QED BY <1>4, <2>2, <2>3, <2>4, NoCalls, Zenon
<1>6. \A a \in Async : SameAccount(a)
  BY <1>1, Zenon DEF SameAccount
<1>7. Calls'
  <2>1. DOMAIN Todo' = {}
    BY <1>4
  <2> QED BY <1>4, <2>1, NoCalls, Zenon DEF Calls, Clears, Returns, Terminates, Closes
<1>8. Queues'
  BY <1>1, Zenon DEF Core, Queues, qVars
<1>9. \A a \in Async : asy[a].thread = t => ~Runs(a)
  BY <1>5, Zenon DEF Runs
<1> DEFINE q == sysApc[t]
<1>10. /\ q \in Seq([a : Async, s : Status])
       /\ \A i \in DOMAIN q : q[i].a \in Async /\ q[i].s \in Status /\ asy[q[i].a].thread = t
       /\ \A i, j \in DOMAIN q : q[i].a = q[j].a => i = j
  BY <1>3, ApcTyped, Zenon DEF Core, Apcs
<1>11. CASE sysApc[t] = <<>>
  <2>1. running' = [running EXCEPT ![t] = None] /\ sysApc' = sysApc
    BY <1>11, Zenon DEF DequeueApc
  <2>2. running \in [Thread -> RunningApc \cup {None}]
    BY Zenon DEF Core, TypeOK
  <2>3. /\ running'[t] = None /\ \A u \in Thread : u # t => running'[u] = running[u]
        /\ running' \in [Thread -> RunningApc \cup {None}]
    BY <1>3, <2>1, <2>2, Zenon
  <2>4. ASSUME NEW a \in Async PROVE Account(a)'
    <3>1. Posted(a)' <=> Posted(a)
      BY <1>1, <2>1, Zenon DEF Posted
    <3>2. Runs(a)' <=> Runs(a)
      <4>1. CASE asy[a].thread = t
        BY <1>1, <1>9, <2>3, <4>1, Zenon DEF Runs
      <4>2. CASE asy[a].thread # t
        BY <1>1, <1>5, <2>3, <4>2, Zenon DEF Runs
      <4> QED BY <4>1, <4>2, Zenon
    <3>3. Account(a) /\ ~(Posted(a) /\ Runs(a))
      BY Zenon DEF Core, Account, Exclusive
    <3> QED BY <1>1, <1>5, <1>6, <3>1, <3>2, <3>3, Bystander, Zenon
  <2>5. Apcs'
    BY <1>1, <2>1, <2>3, Zenon DEF Core, Apcs
  <2>6. TypeOK' /\ OneCtx'
    BY <1>1, <1>2, <2>1, <2>3, Zenon DEF Core, TypeOK, qVars, fileVars, Takes
  <2> QED BY <1>7, <1>8, <2>4, <2>5, <2>6, Zenon DEF Core
<1>12. CASE sysApc[t] # <<>>
  <2> DEFINE x == q[1]
             y == [a |-> x.a, s |-> x.s, result |-> None]
  <2>0. /\ 1 \in DOMAIN q /\ Head(q) = x /\ Tail(q) \in Seq([a : Async, s : Status])
        /\ \A i \in DOMAIN Tail(q) : i + 1 \in DOMAIN q /\ Tail(q)[i] = q[i + 1] /\ i + 1 # 1
        /\ \A k \in DOMAIN q : k # 1 => k - 1 \in DOMAIN Tail(q) /\ Tail(q)[k - 1] = q[k]
        /\ \A i, j \in DOMAIN Tail(q) : i + 1 = j + 1 => i = j
    BY <1>10, <1>12, TailAt, Zenon
  <2>1. running' = [running EXCEPT ![t] = y] /\ sysApc' = [sysApc EXCEPT ![t] = Tail(q)]
    BY <1>12, <2>0, Zenon DEF DequeueApc
  <2>2. y \in RunningApc /\ y.a = x.a /\ y # None
    <3>1. x.a \in Async /\ x.s \in Status
      BY <1>10, <2>0, Zenon
    <3>2. y \in RunningApc /\ y.a = x.a
      BY <3>1, Zenon DEF RunningApc
    <3> QED BY <3>2, AsyncIoAssumption, Zenon
  <2> DEFINE v == Tail(q)
             A == [a : Async, s : Status]
  <2> HIDE DEF y, v, A
  <2>3. /\ running'[t] = y /\ \A u \in Thread : u # t => running'[u] = running[u]
        /\ running' \in [Thread -> RunningApc \cup {None}]
    BY <1>3, <2>1, <2>2, Zenon DEF Core, TypeOK
  <2>4. /\ sysApc'[t] = v /\ \A u \in Thread : u # t => sysApc'[u] = sysApc[u]
        /\ sysApc' \in [Thread -> Seq(A)]
    <3>1. sysApc \in [Thread -> Seq(A)] /\ v \in Seq(A) /\ sysApc' = [sysApc EXCEPT ![t] = v]
      BY <2>0, <2>1, Zenon DEF Core, TypeOK, v, A
    <3> QED BY <1>3, <3>1, Zenon
  <2>5. /\ \A i \in DOMAIN v : i + 1 \in DOMAIN q /\ v[i] = q[i + 1] /\ i + 1 # 1
        /\ \A k \in DOMAIN q : k # 1 => k - 1 \in DOMAIN v /\ v[k - 1] = q[k]
        /\ \A i, j \in DOMAIN v : i + 1 = j + 1 => i = j
    BY <2>0, Zenon DEF v
  <2>6. ASSUME NEW a \in Async PROVE Account(a)'
    <3>0. Account(a) /\ ~(Posted(a) /\ Runs(a))
      BY DEF Core, Account, Exclusive
    <3>1. CASE asy[a].thread # t
      <4>1. Posted(a)' <=> Posted(a)
        BY <1>1, <2>4, <3>1, Zenon DEF Posted
      <4>2. Runs(a)' <=> Runs(a)
        BY <1>1, <1>5, <2>3, <3>1, Zenon DEF Runs
      <4> QED BY <1>1, <1>5, <1>6, <3>0, <4>1, <4>2, Bystander, Zenon
    <3>2. CASE asy[a].thread = t /\ a = x.a
      <4>1. Posted(a)
        BY <1>3, <2>0, <3>2, Zenon DEF Posted
      <4>2. ~Posted(a)'
        <5> SUFFICES ASSUME NEW i \in DOMAIN v, v[i].a = a PROVE FALSE
          BY <1>1, <2>4, <3>2, Zenon DEF Posted
        <5>1. i + 1 \in DOMAIN q /\ q[i + 1].a = q[1].a /\ i + 1 # 1
          BY <2>5, <3>2, Zenon
        <5> QED BY <1>10, <2>0, <5>1, Zenon
      <4>3. Runs(a)'
        BY <1>1, <1>3, <1>5, <2>2, <2>3, <3>2, Zenon DEF Runs
      <4> QED BY <1>1, <1>5, <1>6, <3>0, <4>1, <4>2, <4>3, Bystander, Zenon
    <3>3. CASE asy[a].thread = t /\ a # x.a
      <4>1. Posted(a)' <=> Posted(a)
        <5>1. Posted(a)' <=> \E i \in DOMAIN v : v[i].a = a
          BY <1>1, <1>3, <2>4, <3>3, Zenon DEF Posted
        <5>2. Posted(a) <=> \E i \in DOMAIN q : q[i].a = a
          BY <1>3, <3>3, Zenon DEF Posted
        <5>3. \A i \in DOMAIN q : q[i].a = a => i # 1
          BY <3>3, Zenon
        <5> HIDE DEF q
        <5> QED BY <2>5, <5>1, <5>2, <5>3
      <4>2. ~Runs(a) /\ ~Runs(a)'
        BY <1>1, <1>9, <2>2, <2>3, <3>3, Zenon DEF Runs
      <4> QED BY <1>1, <1>5, <1>6, <3>0, <4>1, <4>2, Bystander, Zenon
    <3> QED BY <3>1, <3>2, <3>3, Zenon
  <2>7. Apcs'
    <3>1. ASSUME NEW u \in Thread, NEW i \in DOMAIN sysApc'[u], NEW j \in DOMAIN sysApc'[u],
                 sysApc'[u][i].a = sysApc'[u][j].a
          PROVE  i = j
      <4>1. CASE u = t
        <5>1. i \in DOMAIN v /\ j \in DOMAIN v /\ v[i].a = v[j].a
          BY <2>4, <3>1, <4>1, Zenon
        <5>2. i + 1 = j + 1
          BY <1>10, <2>5, <5>1
        <5> QED BY <2>5, <5>1, <5>2, Zenon
      <4>2. CASE u # t
        BY <2>4, <3>1, <4>2, Zenon DEF Core, Apcs
      <4> QED BY <4>1, <4>2, Zenon
    <3>2. \A u \in Thread : \A i \in DOMAIN sysApc'[u] : asy'[sysApc'[u][i].a].thread = u
      <4> SUFFICES ASSUME NEW u \in Thread, NEW i \in DOMAIN sysApc'[u]
                   PROVE  asy[sysApc'[u][i].a].thread = u
        BY <1>1, Zenon
      <4>1. CASE u = t
        <5>1. i \in DOMAIN v /\ sysApc'[u][i] = v[i]
          BY <2>4, <4>1, Zenon
        <5> QED BY <1>10, <2>5, <4>1, <5>1
      <4>2. CASE u # t
        BY <2>4, <4>2, Zenon DEF Core, Apcs
      <4> QED BY <4>1, <4>2, Zenon
    <3>3. t \notin dead
      BY <1>12, Zenon DEF Core, Apcs
    <3>4. \A u \in dead' : sysApc'[u] = <<>>
      BY <1>1, <2>4, <3>3, Zenon DEF Core, Apcs, TypeOK
    <3>5. \A u \in Thread : running'[u] # None => asy'[running'[u].a].thread = u
      BY <1>1, <1>10, <2>0, <2>2, <2>3 DEF Core, Apcs
    <3> QED BY <3>1, <3>2, <3>4, <3>5, Zenon DEF Apcs
  <2>8. TypeOK' /\ OneCtx'
    BY <1>1, <1>2, <2>3, <2>4, Zenon DEF Core, TypeOK, qVars, fileVars, Takes, A
  <2> QED BY <1>7, <1>8, <2>6, <2>7, <2>8 DEF Core
<1> QED BY <1>11, <1>12, Zenon

-----------------------------------------------------------------------------
(* Requests, callbacks and the client.                                     *)

\* The other calls, which need nothing of the operations.
PlainOps == Ops \ (CoveredOps \cup FirstOps \cup {"dequeue_apc", "async_terminate", "async_wake_up"})

LEMMA QuietStart ==
  ASSUME ListFacts, Core, TypeOK', OneCtx', Todo = <<>>, NEW p \in Seq(CallType), Todo' = p,
         \A i \in DOMAIN p : p[i].op \in PlainOps,
         \A a \in Async : SameAccount(a) /\ asy'[a].type = asy[a].type,
         UNCHANGED <<queue, sysApc, dead>>,
         \A t \in Thread : /\ running'[t] # None <=> running[t] # None
                           /\ running[t] # None => running'[t].a = running[t].a
  PROVE  Core'
<1>1. /\ \A a : Spares(Todo, a) /\ Spares(Todo', a) /\ ~Resulted(a)
      /\ \A u : ~Has(Todo, DequeueOf(u)) /\ ~Has(Todo', DequeueOf(u))
  <2>1. \A i \in DOMAIN p : p[i].op \notin FirstOps \cup {"release", "free", "dequeue_apc"}
    BY Zenon DEF PlainOps, CoveredOps
  <2>2. \A a : Spares(p, a) /\ ~Has(p, DequeueOf(a))
    <3>1. p # <<>> => 1 \in DOMAIN p
      BY HeadIn, Zenon
    <3> QED BY <2>1, <3>1, CallOps, Zenon DEF Spares, Has, Heads
  <2>3. \A a : ~Resulted(a)
    <3>1. \A x, y : <<x, y>> # <<>>
      BY Zenon
    <3> QED BY <3>1, Zenon DEF Resulted
  <2> QED BY <2>2, <2>3, NoCalls, Zenon
<1>2. ASSUME NEW a \in Async PROVE Account(a)'
  <2>1. Account(a) /\ asy'[a].thread = asy[a].thread /\ ~(Posted(a) /\ Runs(a))
    BY Zenon DEF Core, SameAccount, Account, Exclusive
  <2>2. Posted(a)' <=> Posted(a)
    BY <2>1, Zenon DEF Posted
  <2>3. Runs(a)' <=> Runs(a)
    BY <1>1, <2>1, Zenon DEF Runs
  <2> QED BY <1>1, <2>1, <2>2, <2>3, Bystander, Zenon
<1>3. Calls'
  <2>1. \A i \in DOMAIN p : p[i].op \notin CoveredOps \cup FirstOps \cup
            {"dequeue_apc", "async_terminate", "async_wake_up", "clear_apc", "release", "free"}
    BY Zenon DEF PlainOps, CoveredOps
  <2>2. Covered(p)
    BY <2>1, Zenon DEF Covered
  <2>3. Shaped(p)
    <3>1. \A i \in 2 .. Len(p) : i \in DOMAIN p
      BY HeadIn, Zenon
    <3>2. p # <<>> => 1 \in DOMAIN p
      BY HeadIn, Zenon
    <3>3. \A i \in DOMAIN p : Fine(p[i])
      BY <2>1, Zenon DEF Fine, FirstOps
    <3>4. "async_set_result" \in FirstOps /\ "restart" \in FirstOps
      BY Zenon DEF FirstOps
    <3> QED BY <2>1, <3>1, <3>2, <3>3, <3>4, Zenon DEF Shaped
  <2>4. Clears' /\ Terminates' /\ Closes'
    BY <2>1, Zenon DEF Clears, Terminates, Closes
  <2>5. Returns'
    <3>1. p # <<>> => 1 \in DOMAIN p
      BY HeadIn, Zenon
    <3> QED BY <2>1, <3>1, Zenon DEF Returns, FirstOps
  <2> QED BY <2>2, <2>3, <2>4, <2>5, Zenon DEF Calls
<1>4. \A a \in Async : asy'[a].thread = asy[a].thread /\ asy'[a].ref = asy[a].ref /\ asy'[a].type = asy[a].type
  BY Zenon DEF SameAccount
<1>5. Queues'
  BY <1>4, Zenon DEF Core, Queues
<1>6. Apcs'
  BY <1>4, ApcsKept, Zenon DEF Core
<1> QED BY <1>2, <1>3, <1>5, <1>6, Zenon DEF Core

\* A request or callback starts with the calls p.
LEMMA PlainStart ==
  ASSUME ListFacts, Core, Smp = FALSE, NEW c \in Ctx, NEW p \in Seq(CallType), Starts(c, p),
         \A i \in DOMAIN p : p[i].op \in PlainOps,
         UNCHANGED <<asy, qVars, apcVars, dead, packets>>,
         fd' \in FdType, ready' \in SUBSET Queue, hup' \in BOOLEAN
  PROVE  Core'
<1>1. Todo = <<>> /\ Todo' = p /\ work' \in [Ctx -> Seq(CallType)] /\ OneCtx'
  BY Starting, Zenon DEF Core
<1>2. TypeOK'
  BY <1>1, Zenon DEF Core, TypeOK, qVars, apcVars
<1>3. \A a \in Async : SameAccount(a) /\ asy'[a].type = asy[a].type
  BY Zenon DEF SameAccount
<1>4. UNCHANGED <<queue, sysApc, dead, running>>
  BY Zenon DEF qVars, apcVars
<1> QED BY <1>1, <1>2, <1>3, <1>4, QuietStart, Zenon

LEMMA CoreCancelAsync ==
  ASSUME ListFacts, Core, Smp = FALSE, NEW t \in Thread, NEW which \in {None, t} \cup Async, CancelAsync(t, which)
  PROVE  Core'
<1> DEFINE x == [QueueCall("async_wake_up_by", "read", "cancelled") EXCEPT !.a = which]
           y == [QueueCall("async_wake_up_by", "write", "cancelled") EXCEPT !.a = which]
<1>1. Starts("req", <<x, y>>) /\ UNCHANGED <<asy, qVars, fd, fileVars, apcVars, dead, packets>>
  BY Zenon DEF CancelAsync
<1>2. /\ x \in CallType /\ y \in CallType
      /\ x.op = "async_wake_up_by" /\ y.op = "async_wake_up_by"
  BY Zenon DEF QueueCall, CallType, Ops, Queue, Status, Ended
<1> HIDE DEF x, y
<1>3. <<x, y>> \in Seq(CallType) /\ DOMAIN <<x, y>> = {1, 2}
  BY <1>2
<1>4. \A i \in DOMAIN <<x, y>> : <<x, y>>[i].op \in PlainOps
  <2>1. "async_wake_up_by" \in PlainOps
    BY Zenon DEF PlainOps, Ops, CoveredOps, FirstOps
  <2> QED BY <1>2, <1>3, <2>1
<1>5. "req" \in Ctx /\ fd' \in FdType /\ ready' \in SUBSET Queue /\ hup' \in BOOLEAN
  BY <1>1, Zenon DEF Ctx, Core, TypeOK, fileVars
<1> QED BY <1>1, <1>3, <1>4, <1>5, PlainStart, Zenon

LEMMA CloseTyped ==
  /\ CloseCalls \in Seq(CallType) /\ DOMAIN CloseCalls = {1, 2, 3} /\ Len(CloseCalls) = 3
  /\ CloseCalls[1] = QueueCall("free_async_queue", "read", "closed")
  /\ CloseCalls[2] = QueueCall("free_async_queue", "write", "closed")
  /\ CloseCalls[3] = FdCall("fd_destroyed", {})
  /\ \A i \in DOMAIN CloseCalls : CloseCalls[i].op \in PlainOps
<1> DEFINE x == QueueCall("free_async_queue", "read", "closed")
           y == QueueCall("free_async_queue", "write", "closed")
           z == FdCall("fd_destroyed", {})
<1>1. x \in CallType /\ y \in CallType /\ z \in CallType
  BY CallTyped, Zenon DEF Ops, Queue, Status, Ended
<1>2. x.op = "free_async_queue" /\ y.op = "free_async_queue" /\ z.op = "fd_destroyed"
  BY Zenon DEF QueueCall, FdCall
<1>3. "free_async_queue" \in PlainOps /\ "fd_destroyed" \in PlainOps
  BY Zenon DEF PlainOps, Ops, CoveredOps, FirstOps
<1>4. CloseCalls = <<x, y, z>>
  BY Zenon DEF CloseCalls
<1> HIDE DEF x, y, z
<1>5. /\ <<x, y, z>> \in Seq(CallType) /\ DOMAIN <<x, y, z>> = {1, 2, 3} /\ Len(<<x, y, z>>) = 3
      /\ <<x, y, z>>[1] = x /\ <<x, y, z>>[2] = y /\ <<x, y, z>>[3] = z
  BY <1>1
<1> QED BY <1>2, <1>3, <1>4, <1>5, Zenon DEF x, y, z

LEMMA CoreFdRequests ==
  ASSUME ListFacts, Core, Smp = FALSE, NEW t \in Thread, CloseFd(t) \/ SetCompletionInfo(t)
  PROVE  Core'
<1>1. /\ Starts("req", CloseCalls) \/ Starts("req", <<>>)
      /\ UNCHANGED <<asy, qVars, fileVars, apcVars, dead, packets>>
      /\ fd' = [fd EXCEPT !.open = FALSE] \/ fd' = [fd EXCEPT !.port = TRUE]
  BY Zenon DEF CloseFd, SetCompletionInfo
<1>2. "req" \in Ctx /\ fd' \in FdType /\ ready' \in SUBSET Queue /\ hup' \in BOOLEAN
  BY <1>1, Zenon DEF Ctx, Core, TypeOK, fileVars, FdType
<1>3. CloseCalls \in Seq(CallType) /\ (\A i \in DOMAIN CloseCalls : CloseCalls[i].op \in PlainOps)
  BY CloseTyped, Zenon
<1> QED BY <1>1, <1>2, <1>3, EmptyPush, PlainStart, Zenon

LEMMA CoreFile ==
  ASSUME ListFacts, Core, Smp = FALSE, (\E q \in Queue : Arrive(q)) \/ HangUp
  PROVE  Core'
<1>1. /\ \E ev : FileEvent(ev)
      /\ (\E q \in Queue : ready' = ready \cup {q} /\ hup' = hup) \/ (ready' = Queue /\ hup' = TRUE)
  BY Zenon DEF Arrive, HangUp
<1>2. "cb" \in Ctx /\ fd \in FdType /\ ready' \in SUBSET Queue /\ hup' \in BOOLEAN
  BY <1>1, Zenon DEF Ctx, Core, TypeOK
<1> DEFINE x == FdCall("pollwake", fd.key)
<1>3. x \in CallType /\ x.op = "pollwake"
  BY <1>2, CallTyped, Zenon DEF FdCall, FdType, Ops
<1>4. "pollwake" \in PlainOps
  BY Zenon DEF PlainOps, Ops, CoveredOps, FirstOps
<1>5. /\ Starts("cb", <<x>>) \/ Starts("cb", <<>>)
      /\ UNCHANGED <<asy, qVars, fd, apcVars, dead, packets>>
  BY <1>1, Zenon DEF FileEvent
<1> HIDE DEF x
<1>6. <<x>> \in Seq(CallType) /\ \A i \in DOMAIN <<x>> : <<x>>[i].op \in PlainOps
  BY <1>3, <1>4
<1> QED BY <1>2, <1>5, <1>6, EmptyPush, PlainStart, Zenon

LEMMA CoreClientIo ==
  ASSUME ListFacts, Core, Smp = FALSE, NEW t \in Thread, ClientIo(t)
  PROVE  Core'
<1>1. /\ running[t] # None /\ Idle
      /\ UNCHANGED <<asy, qVars, fd, hup, sysApc, dead, packets, work>>
  BY Zenon DEF ClientIo
<1>2. PICK r \in Status \cup {"pending"} : running' = [running EXCEPT ![t].result = r]
  <2>1. running[t].s \in Status
    BY <1>1, ApcTyped, Zenon DEF Core
  <2>2. "success" \in Status
    BY Zenon DEF Status
  <2> QED BY <2>1, <2>2, Zenon DEF ClientIo
<1>3. ready' \in SUBSET Queue
  BY Zenon DEF ClientIo, Core, TypeOK
<1> DEFINE x == [running[t] EXCEPT !.result = r]
<1>4. x \in RunningApc /\ x.a = running[t].a /\ x # None
  <2>1. running[t] \in RunningApc
    BY <1>1, ApcTyped, Zenon DEF Core
  <2>2. x \in RunningApc /\ x.a = running[t].a
    BY <2>1, Zenon DEF RunningApc
  <2> QED BY <2>2, AsyncIoAssumption, Zenon
<1>5. running' = [running EXCEPT ![t] = x]
  BY <1>2, Zenon
<1> HIDE DEF x
<1>6. /\ running' \in [Thread -> RunningApc \cup {None}] /\ running'[t] = x
      /\ \A u \in Thread : u # t => running'[u] = running[u]
  BY <1>4, <1>5, Zenon DEF Core, TypeOK
<1>7. Todo = <<>> /\ Todo' = <<>> /\ OneCtx'
  <2>1. work["req"] = <<>> /\ work["cb"] = <<>> /\ work' = work
    BY <1>1, Zenon DEF Idle, Ctx
  <2>2. <<>> \o <<>> = <<>>
    OBVIOUS
  <2> QED BY <2>1, <2>2, Zenon DEF Todo, OneCtx
<1>8. TypeOK'
  BY <1>1, <1>3, <1>6, Zenon DEF Core, TypeOK, qVars
<1>9. \A a \in Async : SameAccount(a) /\ asy'[a].type = asy[a].type
  BY <1>1, Zenon DEF SameAccount
<1>10. \A u \in Thread : /\ running'[u] # None <=> running[u] # None
                         /\ running[u] # None => running'[u].a = running[u].a
  BY <1>1, <1>4, <1>6, Zenon
<1>11. UNCHANGED <<queue, sysApc, dead>>
  BY <1>1, Zenon DEF qVars
<1> QED BY <1>7, <1>8, <1>9, <1>10, <1>11, EmptyPush, QuietStart, Zenon

LEMMA NothingLeft ==
  ASSUME Todo = <<>>, NEW a
  PROVE  Spares(Todo, a) /\ ~Resulted(a) /\ ~Has(Todo, DequeueOf(a))
<1>1. \A x, y : <<x, y>> # <<>>
  BY Zenon
<1> QED BY <1>1, NoCalls, Zenon DEF Resulted

\* A request takes an APC from a thread, and will release the operation.
LEMMA Drop ==
  ASSUME ListFacts, NEW a \in Async, Account(a), asy'[a] = asy[a], Todo = <<>>,
         Posted(a) \/ Runs(a), ~Posted(a)', ~Runs(a)',
         Count(Todo', ReleaseOf(a)) = 1, Count(Todo', FreeOf(a)) = 0, ~Has(Todo', FreeOf(a)),
         ~Heads(Todo', "restart", a), ~Heads(Todo', "async_queue_apc", a),
         asy[a].thread \in dead' \/ Heads(Todo', "async_set_result", a)
  PROVE  Account(a)'
<1>1. Spares(Todo, a) /\ ~Resulted(a)
  BY NothingLeft, Zenon
<1>2. /\ Count(Todo, ReleaseOf(a)) = 0 /\ Count(Todo, FreeOf(a)) = 0 /\ ~Has(Todo, FreeOf(a))
      /\ ~Heads(Todo, "restart", a)
  BY <1>1, CountNone, Zenon DEF Spares, FirstOps
<1>3. Held(a) /\ ~Pends(a) /\ asy[a].result = None /\ asy[a].ref = 1
  <2>1. Held(a) /\ ~Pends(a) /\ asy[a].result = None
    BY Zenon DEF Held, Account, Exclusive
  <2> QED BY <1>2, <2>1, RefHeld, Sums, Zenon DEF Account
<1>4. ~Pends(a)' /\ ~Held(a)'
  BY <1>2, <1>3, Zenon DEF Pends, Held
<1>5. ~Queueing(a)'
  BY Zenon DEF Queueing
<1>6. RefExact(a)'
  BY <1>3, <1>4, RefGone, Sums, Zenon
<1>7. Exclusive(a)'
  BY <1>4, <1>5, Zenon DEF Exclusive
<1>8. Living(a)'
  BY <1>2, <1>3, Zenon DEF Account, Living
<1>9. Owned(a)'
  BY <1>3, Zenon DEF Owned, Resulting
<1> QED BY <1>6, <1>7, <1>8, <1>9, Zenon DEF Account

LEMMA CoreSelect ==
  ASSUME ListFacts, Core, Smp = FALSE, NEW t \in Thread, Select(t)
  PROVE  Core'
<1> DEFINE x == DequeueOf(t)
           p == <<x>>
<1>1. /\ running[t] = None /\ Starts("req", p)
      /\ UNCHANGED <<asy, qVars, fd, fileVars, apcVars, dead, packets>>
  BY Zenon DEF Select, DequeueOf
<1>2. x \in CallType /\ x.op = "dequeue_apc" /\ x.a = t
  BY CallTyped, CallOps, Zenon DEF DequeueOf, Ops
<1> HIDE DEF x
<1>3. p \in Seq(CallType) /\ DOMAIN p = {1} /\ Len(p) = 1 /\ p[1] = x /\ 2 .. 1 = {} /\ "req" \in Ctx
  BY <1>2 DEF Ctx
<1> HIDE DEF p
<1>4. Todo = <<>> /\ Todo' = p /\ work' \in [Ctx -> Seq(CallType)] /\ OneCtx'
  BY <1>1, <1>3, Starting, Zenon DEF Core
<1>5. \A a : Spares(Todo', a) /\ (Has(Todo', DequeueOf(a)) <=> a = t)
  BY <1>2, <1>3, <1>4, CallOps DEF Spares, Has, Heads, FirstOps, x
<1>6. ASSUME NEW a \in Async PROVE Account(a)'
  <2>1. Account(a) /\ SameAccount(a) /\ ~(Posted(a) /\ Runs(a))
    BY <1>1, Zenon DEF Core, Account, Exclusive, SameAccount
  <2>2. Posted(a)' <=> Posted(a)
    BY <1>1, Zenon DEF Posted, apcVars
  <2>3. Runs(a)' <=> Runs(a)
    BY <1>1, <1>4, <1>5, NothingLeft, Zenon DEF Runs, apcVars
  <2> QED BY <1>1, <1>4, <1>5, <2>1, <2>2, <2>3, NothingLeft, Bystander, Zenon
<1>7. Calls'
  <2>1. Covered(p)
    BY <1>2, <1>3, Zenon DEF Covered, CoveredOps
  <2>2. Shaped(p)
    BY <1>2, <1>3, Zenon DEF Shaped, Fine, CoveredOps, x
  <2>3. Clears' /\ Terminates' /\ Closes' /\ Returns'
    BY <1>2, <1>3, <1>4, Zenon DEF Clears, Terminates, Closes, Returns
  <2> QED BY <1>4, <2>1, <2>2, <2>3, Zenon DEF Calls
<1>8. TypeOK'
  BY <1>1, <1>4, Zenon DEF Core, TypeOK, qVars, apcVars, fileVars
<1>9. Queues' /\ Apcs'
  BY <1>1, Zenon DEF Core, Queues, Apcs, qVars, apcVars
<1> QED BY <1>4, <1>6, <1>7, <1>8, <1>9, Zenon DEF Core

LEMMA CoreSelectResult ==
  ASSUME ListFacts, Core, Smp = FALSE, NEW t \in Thread, SelectResult(t)
  PROVE  Core'
<1>1. PICK b : b = running[t].a
  BY Zenon
<1>2. /\ running[t] # None /\ b \in Async /\ running[t].result \in Status \cup {"pending"}
      /\ asy[b].thread = t
  BY <1>1, ApcTyped, Zenon DEF SelectResult, Core, Apcs
<1> DEFINE e == Call("async_set_result", b, running[t].result)
           p == <<e, ReleaseOf(b), DequeueOf(t)>>
<1>3. /\ Starts("req", p) /\ UNCHANGED <<asy, qVars, fd, fileVars, apcVars, dead, packets>>
  BY <1>1, Zenon DEF SelectResult, ReleaseOf, DequeueOf
<1>4. e \in CallType /\ e.op = "async_set_result" /\ e.a = b
  BY <1>2, CallTyped, CallParts DEF Ops
<1> HIDE DEF e, p
<1>5. p = <<e, ReleaseOf(b), DequeueOf(t)>>
  BY Zenon DEF p
<1>6. /\ p \in Seq(CallType) /\ p # <<>> /\ p[1] = e /\ p[3] = DequeueOf(t)
      /\ Covered(p) /\ Shaped(p)
      /\ \A i \in DOMAIN p : p[i].op \notin {"clear_apc", "async_terminate", "async_wake_up"}
      /\ Count(p, ReleaseOf(b)) = 1 /\ \A a : a # b => Count(p, ReleaseOf(a)) = 0
      /\ \A a : Count(p, FreeOf(a)) = 0 /\ ~Has(p, FreeOf(a))
      /\ \A u : Has(p, DequeueOf(u)) <=> u = t
  BY <1>2, <1>4, <1>5, ThreeCalls
<1>7. Todo = <<>> /\ Todo' = p /\ work' \in [Ctx -> Seq(CallType)] /\ OneCtx'
  <2>1. "req" \in Ctx
    BY Zenon DEF Ctx
  <2> QED BY <1>3, <1>6, <2>1, Starting, Zenon DEF Core
<1>8. ASSUME NEW a \in Async PROVE Account(a)'
  <2>1. Account(a) /\ SameAccount(a) /\ ~(Posted(a) /\ Runs(a)) /\ asy'[a] = asy[a]
    BY <1>3, Zenon DEF Core, Account, Exclusive, SameAccount
  <2>2. Posted(a)' <=> Posted(a)
    BY <1>3, Zenon DEF Posted, apcVars
  <2>3. CASE a = b
    <3>1. Runs(a)
      BY <1>1, <1>2, <1>7, <2>3, NothingLeft, Zenon DEF Runs
    <3>2. ~Runs(a)'
      BY <1>2, <1>3, <1>6, <1>7, <2>3, Zenon DEF Runs
    <3>3. /\ Heads(Todo', "async_set_result", a)
          /\ ~Heads(Todo', "restart", a) /\ ~Heads(Todo', "async_queue_apc", a)
      BY <1>4, <1>6, <1>7, <2>3, Zenon DEF Heads
    <3> QED BY <1>6, <1>7, <2>1, <2>2, <2>3, <3>1, <3>2, <3>3, Drop, Zenon
  <2>4. CASE a # b
    <3>1. Spares(Todo', a)
      <4>1. ~Has(p, ReleaseOf(a))
        BY <1>6, <2>4, CountType, Zenon
      <4>2. \A op : ~Heads(p, op, a)
        BY <1>4, <1>6, <2>4, Zenon DEF Heads
      <4> QED BY <1>6, <1>7, <4>1, <4>2, Zenon DEF Spares
    <3>2. Runs(a)' <=> Runs(a)
      <4>1. CASE asy[a].thread = t
        BY <1>1, <1>3, <2>4, <4>1, Zenon DEF Runs, apcVars
      <4>2. CASE asy[a].thread # t
        BY <1>3, <1>6, <1>7, <4>2, NothingLeft, Zenon DEF Runs, apcVars
      <4> QED BY <4>1, <4>2, Zenon
    <3> QED BY <1>3, <1>7, <2>1, <2>2, <3>1, <3>2, NothingLeft, Bystander, Zenon
  <2> QED BY <2>3, <2>4, Zenon
<1>9. Calls'
  <2>1. Clears' /\ Terminates' /\ Closes'
    BY <1>6, <1>7, Zenon DEF Clears, Terminates, Closes
  <2>2. Returns'
    BY <1>2, <1>3, <1>4, <1>6, <1>7, Zenon DEF Returns
  <2> QED BY <1>6, <1>7, <2>1, <2>2, Zenon DEF Calls
<1>10. TypeOK'
  BY <1>3, <1>7, Zenon DEF Core, TypeOK, qVars, apcVars, fileVars
<1>11. Queues' /\ Apcs'
  BY <1>3, Zenon DEF Core, Queues, Apcs, qVars, apcVars
<1> QED BY <1>7, <1>8, <1>9, <1>10, <1>11, Zenon DEF Core

LEMMA CoreAsyncTimeout ==
  ASSUME ListFacts, Core, Smp = FALSE, NEW b \in Async, AsyncTimeout(b)
  PROVE  Core'
<1> DEFINE r == [asy[b] EXCEPT !.timeout = FALSE]
           x == Call("async_terminate", b, "timeout")
           p == <<x>>
<1>1. /\ asy[b].timeout /\ asy' = [asy EXCEPT ![b] = r] /\ Starts("req", p)
      /\ UNCHANGED <<qVars, fd, fileVars, apcVars, dead, packets>>
  BY Zenon DEF AsyncTimeout
<1>2. /\ r \in AsyncType /\ r.life = asy[b].life /\ r.thread = asy[b].thread /\ r.ref = asy[b].ref
      /\ r.result = asy[b].result /\ r.status = asy[b].status /\ r.apc = asy[b].apc
      /\ r.type = asy[b].type
  <2>1. asy[b] \in AsyncType
    BY Zenon DEF Core, TypeOK
  <2> QED BY <2>1, Zenon DEF AsyncType
<1> HIDE DEF r
<1>3. /\ asy' \in [Async -> AsyncType] /\ asy'[b] = r
      /\ \A a \in Async : a # b => asy'[a] = asy[a]
  BY <1>1, <1>2, Assigned, Zenon DEF Core
<1>4. x \in CallType /\ x.op = "async_terminate" /\ x.a = b /\ x.s = "timeout" /\ x.s \in Status
  BY CallTyped, CallParts DEF Ops, Status, Ended
<1> HIDE DEF x
<1>5. p \in Seq(CallType) /\ DOMAIN p = {1} /\ Len(p) = 1 /\ p[1] = x /\ 2 .. 1 = {} /\ "req" \in Ctx
  BY <1>4 DEF Ctx
<1> HIDE DEF p
<1>6. Todo = <<>> /\ Todo' = p /\ work' \in [Ctx -> Seq(CallType)] /\ OneCtx'
  BY <1>1, <1>5, Starting, Zenon DEF Core
<1>7. \A a : Spares(Todo', a) /\ ~Has(Todo', DequeueOf(a))
  BY <1>4, <1>5, <1>6, CallOps DEF Spares, Has, Heads, FirstOps
<1>8. asy[b].life = "live" /\ asy[b].ref > 0
  <2>1. Living(b) /\ ~Has(Todo, FreeOf(b)) /\ asy[b].ref \in Nat
    BY <1>6, NothingLeft, AsyFields, Zenon DEF Core, Account, Spares
  <2> QED BY <1>1, <2>1 DEF Living
<1>9. \A a \in Async : SameAccount(a) /\ asy'[a].type = asy[a].type
  BY <1>2, <1>3, <1>8, Zenon DEF SameAccount
<1>10. ASSUME NEW a \in Async PROVE Account(a)'
  <2>1. Account(a) /\ SameAccount(a) /\ ~(Posted(a) /\ Runs(a)) /\ asy'[a].thread = asy[a].thread
    BY <1>9, Zenon DEF Core, Account, Exclusive, SameAccount
  <2>2. Posted(a)' <=> Posted(a)
    BY <1>1, <2>1, Zenon DEF Posted, apcVars
  <2>3. Runs(a)' <=> Runs(a)
    BY <1>1, <1>6, <1>7, <2>1, NothingLeft, Zenon DEF Runs, apcVars
  <2> QED BY <1>1, <1>6, <1>7, <2>1, <2>2, <2>3, NothingLeft, Bystander, Zenon
<1>11. Calls'
  <2>1. Covered(p)
    BY <1>4, <1>5, Zenon DEF Covered, CoveredOps
  <2>2. Shaped(p)
    BY <1>4, <1>5, Zenon DEF Shaped, Fine, CoveredOps
  <2>3. Clears' /\ Closes' /\ Returns'
    BY <1>4, <1>5, <1>6, Zenon DEF Clears, Closes, Returns
  <2>4. Terminates'
    BY <1>2, <1>3, <1>4, <1>5, <1>6, <1>8 DEF Terminates, TermAt
  <2> QED BY <1>6, <2>1, <2>2, <2>3, <2>4, Zenon DEF Calls
<1>12. TypeOK'
  BY <1>1, <1>3, <1>6, Zenon DEF Core, TypeOK, qVars, apcVars, fileVars
<1>13. \A a \in Async : asy'[a].thread = asy[a].thread /\ asy'[a].ref = asy[a].ref /\ asy'[a].type = asy[a].type
  BY <1>9, Zenon DEF SameAccount
<1>14. Queues'
  BY <1>1, <1>13 DEF Core, Queues, qVars
<1>15. Apcs'
  BY <1>1, <1>13, ApcsKept, Zenon DEF Core, apcVars
<1> QED BY <1>6, <1>10, <1>11, <1>12, <1>14, <1>15, Zenon DEF Core

LEMMA ConcatAt ==
  ASSUME NEW S, NEW x \in Seq(S), NEW y \in Seq(S)
  PROVE  /\ x \o y \in Seq(S) /\ Len(x \o y) = Len(x) + Len(y)
         /\ \A i \in 1 .. Len(x) : (x \o y)[i] = x[i]
         /\ \A i \in 1 .. Len(y) : (x \o y)[Len(x) + i] = y[i]
OBVIOUS

\* The calls of register_async.
LEMMA RegisterCalls ==
  ASSUME NEW b \in Async, NEW timed \in BOOLEAN, NEW p,
         p = <<FdCall("rearm", {})>> \o (IF timed THEN <<Call("set_timeout", b, "pending")>> ELSE <<>>) \o
                   <<ReleaseOf(b)>>
  PROVE  /\ p \in Seq(CallType) /\ p # <<>> /\ p[1] = FdCall("rearm", {}) /\ p[Len(p)] = ReleaseOf(b)
         /\ \A i \in DOMAIN p : /\ p[i].op \in {"rearm", "set_timeout", "release"}
                                /\ p[i].op # "rearm" => p[i].a = b
                                /\ p[i].op = "release" => i = Len(p)
<1> DEFINE x == FdCall("rearm", {})
           y == Call("set_timeout", b, "pending")
           z == ReleaseOf(b)
<1>1. /\ x \in CallType /\ y \in CallType /\ z \in CallType
      /\ x.op = "rearm" /\ y.op = "set_timeout" /\ z.op = "release" /\ y.a = b /\ z.a = b
  BY CallTyped, CallParts DEF Ops, ReleaseOf, Event
<1> HIDE DEF x, y, z
<1>2. CASE timed
  <2>1. p = (<<x>> \o <<y>>) \o <<z>>
    BY <1>2, Zenon DEF x, y, z
  <2>2. PICK v : v = <<x>> \o <<y>>
    BY Zenon
  <2>3. v \in Seq(CallType) /\ Len(v) = 2 /\ v[1] = x /\ v[2] = y
    BY <1>1, <2>2
  <2>4. p \in Seq(CallType) /\ Len(p) = 3 /\ p[1] = x /\ p[2] = y /\ p[3] = z
    <3>1. PICK u : u = <<z>>
      BY Zenon
    <3>2. u \in Seq(CallType) /\ Len(u) = 1 /\ u[1] = z
      BY <1>1, <3>1
    <3>3. p = v \o u
      BY <2>1, <2>2, <3>1, Zenon
    <3>4. /\ p \in Seq(CallType) /\ Len(p) = 2 + 1
          /\ \A i \in 1 .. 2 : p[i] = v[i]
          /\ p[3] = u[1]
      <4>1. 1 \in 1 .. Len(u) /\ Len(v) + 1 = 3
        BY <2>3, <3>2
      <4> QED BY <2>3, <3>2, <3>3, <4>1, ConcatAt
    <3> QED BY <2>3, <3>2, <3>4
  <2>5. DOMAIN p = 1 .. 3 /\ 1 .. 3 = {1, 2, 3}
    BY <2>4
  <2>6. p # <<>>
    BY <2>4, <2>5, HeadIn, Zenon
  <2> QED BY <1>1, <2>4, <2>5, <2>6 DEF x, z
<1>3. CASE ~timed
  <2>1. p = (<<x>> \o <<>>) \o <<z>>
    BY <1>3, Zenon DEF x, z
  <2>2. PICK v : v = <<x>> \o <<>>
    BY Zenon
  <2>3. v \in Seq(CallType) /\ Len(v) = 1 /\ v[1] = x
    BY <1>1, <2>2
  <2>4. p \in Seq(CallType) /\ Len(p) = 2 /\ p[1] = x /\ p[2] = z
    <3>1. PICK u : u = <<z>>
      BY Zenon
    <3>2. u \in Seq(CallType) /\ Len(u) = 1 /\ u[1] = z
      BY <1>1, <3>1
    <3>3. p = v \o u
      BY <2>1, <2>2, <3>1, Zenon
    <3> QED BY <2>3, <3>2, <3>3
  <2>5. DOMAIN p = 1 .. 2 /\ 1 .. 2 = {1, 2}
    BY <2>4
  <2>6. p # <<>>
    BY <2>4, <2>5, HeadIn, Zenon
  <2> QED BY <1>1, <2>4, <2>5, <2>6 DEF x, z
<1> QED BY <1>2, <1>3, Zenon

LEMMA CoreRegisterAsync ==
  ASSUME ListFacts, Core, Smp = FALSE, NEW t \in Thread, NEW b \in Async, NEW q \in Queue, NEW timed \in BOOLEAN,
         RegisterAsync(t, b, q, timed)
  PROVE  Core'
<1> DEFINE r == [life |-> "live", type |-> q, thread |-> t, status |-> "pending", apc |-> TRUE,
                 timeout |-> FALSE, ref |-> 2, owed |-> fd.port, result |-> None]
<1>1. PICK p : p = <<FdCall("rearm", {})>> \o
                   (IF timed THEN <<Call("set_timeout", b, "pending")>> ELSE <<>>) \o <<ReleaseOf(b)>>
  BY Zenon
<1>2. /\ running[t] = None /\ asy[b].life = "unused" /\ asy' = [asy EXCEPT ![b] = r]
      /\ queue' = [queue EXCEPT ![q] = Append(queue[q], b)] /\ Starts("req", p)
      /\ UNCHANGED <<qfd, qport, fd, fileVars, apcVars, dead, packets>>
  BY <1>1, Zenon DEF RegisterAsync, ReleaseOf
<1>3. /\ p \in Seq(CallType) /\ p # <<>> /\ p[1] = FdCall("rearm", {}) /\ p[Len(p)] = ReleaseOf(b)
      /\ \A i \in DOMAIN p : /\ p[i].op \in {"rearm", "set_timeout", "release"}
                             /\ p[i].op # "rearm" => p[i].a = b
                             /\ p[i].op = "release" => i = Len(p)
  BY <1>1, RegisterCalls
<1>4. Todo = <<>> /\ Todo' = p /\ work' \in [Ctx -> Seq(CallType)] /\ OneCtx'
  <2>1. "req" \in Ctx
    BY Zenon DEF Ctx
  <2> QED BY <1>2, <1>3, <2>1, Starting, Zenon DEF Core
<1>5. /\ r \in AsyncType /\ r.life = "live" /\ r.type = q /\ r.thread = t /\ r.status = "pending"
      /\ r.apc = TRUE /\ r.ref = 2 /\ r.result = None
  <2>1. fd.port \in BOOLEAN
    BY Zenon DEF Core, TypeOK, FdType
  <2> QED BY <2>1, Zenon DEF AsyncType
<1> HIDE DEF r
<1>6. /\ asy' \in [Async -> AsyncType] /\ asy'[b] = r
      /\ \A a \in Async : a # b => asy'[a] = asy[a]
  BY <1>2, <1>5, Assigned, Zenon DEF Core
<1>7. asy[b].thread = None /\ asy[b].ref = 0 /\ None \notin Thread
  BY <1>2, AsyncIoAssumption, Zenon DEF Core, Account, Living
<1>8. /\ \A u \in Thread : \A i \in DOMAIN sysApc[u] : sysApc[u][i].a # b
      /\ \A u \in Thread : running[u] # None => running[u].a # b
  BY <1>7 DEF Core, Apcs
<1>9. /\ Len(p) \in Nat /\ Len(p) >= 1 /\ DOMAIN p = 1 .. Len(p) /\ Len(p) \in DOMAIN p
      /\ p[1].op = "rearm" /\ 1 \in DOMAIN p
  <2>1. Len(p) \in Nat /\ Len(p) # 0 /\ DOMAIN p = 1 .. Len(p)
    BY <1>3, EmptyLen, Zenon
  <2> QED BY <1>3, <2>1, CallParts
<1>10. /\ \A a, op : op \in FirstOps => ~Heads(p, op, a)
       /\ \A a : ~Has(p, FreeOf(a)) /\ ~Has(p, DequeueOf(a))
       /\ \A a : a # b => ~Has(p, ReleaseOf(a))
  BY <1>3, <1>9, CallOps DEF Heads, Has, FirstOps
<1>11. ASSUME NEW a \in Async PROVE Account(a)'
  <2>1. CASE a = b
    <3>1. Count(p, ReleaseOf(b)) = 1
      <4>1. \A i \in DOMAIN p : p[i] = ReleaseOf(b) => i = Len(p)
        BY <1>3, CallOps, Zenon
      <4> QED BY <1>3, <1>9, <4>1, CountSingle, Zenon
    <3>2. Count(p, FreeOf(b)) = 0
      BY <1>10, CountNone, Zenon
    <3>3. ~Posted(b)' /\ ~Runs(b)'
      BY <1>2, <1>5, <1>6, <1>8 DEF Posted, Runs, apcVars
    <3>4. ~Heads(p, "restart", b) /\ ~Heads(p, "async_queue_apc", b) /\ ~Heads(p, "async_set_result", b)
      BY <1>10, Zenon DEF FirstOps
    <3>5. Pends(b)' /\ Held(b)' /\ ~Resulting(b)' /\ ~Queueing(b)'
      BY <1>4, <1>5, <1>6, <3>4, Zenon DEF Pends, Held, Resulting, Queueing
    <3>6. RefExact(b)'
      BY <1>4, <1>5, <1>6, <3>1, <3>5 DEF RefExact
    <3>7. Exclusive(b)'
      BY <1>4, <1>5, <1>6, <3>3, <3>4, <3>5, Zenon DEF Exclusive
    <3>8. Living(b)'
      BY <1>4, <1>5, <1>6, <1>10, <3>2, Sums, Zenon DEF Living
    <3>9. Owned(b)'
      BY <1>5, <1>6, <3>5, Zenon DEF Owned
    <3> QED BY <2>1, <3>6, <3>7, <3>8, <3>9, Zenon DEF Account
  <2>2. CASE a # b
    <3>1. Account(a) /\ SameAccount(a) /\ ~(Posted(a) /\ Runs(a)) /\ asy'[a] = asy[a]
      BY <1>6, <2>2, Zenon DEF Core, Account, Exclusive, SameAccount
    <3>2. Posted(a)' <=> Posted(a)
      BY <1>2, <3>1, Zenon DEF Posted, apcVars
    <3>3. Runs(a)' <=> Runs(a)
      BY <1>2, <1>4, <1>10, <3>1, NothingLeft, Zenon DEF Runs, apcVars
    <3>4. Spares(Todo', a)
      BY <1>4, <1>10, <2>2, Zenon DEF Spares
    <3> QED BY <1>2, <1>4, <3>1, <3>2, <3>3, <3>4, NothingLeft, Bystander, Zenon
  <2> QED BY <2>1, <2>2, Zenon
<1>12. Calls'
  <2>1. Covered(p)
    <3> SUFFICES ASSUME NEW i \in DOMAIN p, p[i].op \in CoveredOps
                 PROVE  \E j \in i .. Len(p) : p[j] = ReleaseOf(p[i].a) \/ p[j] = FreeOf(p[i].a)
      BY Zenon DEF Covered
    <3>1. p[i].a = b /\ Len(p) \in i .. Len(p)
      BY <1>3, <1>9 DEF CoveredOps
    <3> QED BY <1>3, <3>1, Zenon
  <2>2. Shaped(p)
    <3>1. \A i \in DOMAIN p : Fine(p[i]) /\ p[i].op \notin FirstOps /\ p[i].op # "dequeue_apc"
      BY <1>3, Zenon DEF Fine, FirstOps, CoveredOps
    <3>2. \A i \in 2 .. Len(p) : i \in DOMAIN p
      BY <1>9
    <3> QED BY <1>9, <3>1, <3>2, Zenon DEF Shaped
  <2>3. Clears' /\ Terminates' /\ Closes'
    BY <1>3, <1>4, Zenon DEF Clears, Terminates, Closes
  <2>4. Returns'
    BY <1>4, <1>9, Zenon DEF Returns
  <2> QED BY <1>4, <2>1, <2>2, <2>3, <2>4, Zenon DEF Calls
<1> DEFINE v == Append(queue[q], b)
<1>13. /\ queue[q] \in Seq(Async) /\ v \in Seq(Async)
       /\ DOMAIN v = DOMAIN queue[q] \cup {Len(queue[q]) + 1}
       /\ Len(queue[q]) + 1 \notin DOMAIN queue[q]
       /\ v[Len(queue[q]) + 1] = b
       /\ \A i \in DOMAIN queue[q] : v[i] = queue[q][i]
  <2>1. queue[q] \in Seq(Async)
    BY Zenon DEF Core, TypeOK
  <2> QED BY <2>1, AppendAt
<1>14. \A i \in DOMAIN queue[q] : queue[q][i] # b
  BY <1>7 DEF Core, Queues, Has
<1> HIDE DEF v
<1>15. /\ queue' \in [Queue -> Seq(Async)] /\ queue'[q] = v
       /\ \A x \in Queue : x # q => queue'[x] = queue[x]
  BY <1>2, <1>13, Zenon DEF v, Core, TypeOK
<1>16. TypeOK'
  BY <1>2, <1>4, <1>6, <1>15, Zenon DEF Core, TypeOK, apcVars, fileVars
<1>17. Queues'
  <2>1. ASSUME NEW x \in Queue, NEW i \in DOMAIN queue'[x], NEW j \in DOMAIN queue'[x],
               queue'[x][i] = queue'[x][j]
        PROVE  i = j
    <3>1. CASE x = q
      BY <1>13, <1>14, <1>15, <2>1, <3>1 DEF Core, Queues
    <3>2. CASE x # q
      BY <1>15, <2>1, <3>2, Zenon DEF Core, Queues
    <3> QED BY <3>1, <3>2, Zenon
  <2>2. ASSUME NEW x \in Queue, NEW a \in Async
        PROVE  Has(queue'[x], a) <=> asy'[a].ref > 0 /\ asy'[a].type = x
    <3>1. Has(queue[x], a) <=> asy[a].ref > 0 /\ asy[a].type = x
      BY Zenon DEF Core, Queues
    <3>2. Has(v, a) <=> Has(queue[q], a) \/ a = b
      BY <1>13, Zenon DEF Has
    <3>3. CASE a = b
      BY <1>5, <1>6, <1>7, <1>15, <3>1, <3>2, <3>3
    <3>4. CASE a # b
      BY <1>6, <1>15, <3>1, <3>2, <3>4, Zenon
    <3> QED BY <3>3, <3>4, Zenon
  <2> QED BY <2>1, <2>2, Zenon DEF Queues
<1>18. Apcs'
  <2>1. \A u \in Thread : \A i \in DOMAIN sysApc[u] : asy'[sysApc[u][i].a].thread = u
    BY <1>6, <1>8, ApcTyped DEF Core, Apcs
  <2>2. \A u \in Thread : running[u] # None => asy'[running[u].a].thread = u
    BY <1>6, <1>8, ApcTyped, Zenon DEF Core, Apcs
  <2> QED BY <1>2, <2>1, <2>2 DEF Core, Apcs, apcVars
<1> QED BY <1>4, <1>11, <1>12, <1>16, <1>17, <1>18, Zenon DEF Core

\* Requests that only release operations and make plain calls.
LEMMA ReleaseCalls ==
  ASSUME ListFacts, Todo' \in Seq(CallType),
         \A i \in DOMAIN Todo' : \/ Todo'[i].op \in PlainOps
                                 \/ \E a \in Async : Todo'[i] = ReleaseOf(a)
  PROVE  /\ Calls'
         /\ \A a : /\ ~Has(Todo', FreeOf(a)) /\ Count(Todo', FreeOf(a)) = 0 /\ ~Has(Todo', DequeueOf(a))
                   /\ \A op \in FirstOps : ~Heads(Todo', op, a)
<1>1. PICK p \in Seq(CallType) : p = Todo'
  BY Zenon
<1>2. \A i \in DOMAIN p : \/ p[i].op \in PlainOps
                          \/ p[i].op = "release" /\ p[i].a \in Async /\ p[i] = ReleaseOf(p[i].a)
  BY <1>1, CallOps
<1>3. \A i \in DOMAIN p :
        /\ p[i].op \notin FirstOps \cup {"dequeue_apc", "async_terminate", "async_wake_up", "clear_apc", "free"}
        /\ p[i].op \in CoveredOps => p[i].op = "release"
  BY <1>2, Zenon DEF PlainOps, CoveredOps, FirstOps
<1>4. p # <<>> => 1 \in DOMAIN p
  BY HeadIn, Zenon
<1>5. Covered(p)
  <2> SUFFICES ASSUME NEW i \in DOMAIN p, p[i].op \in CoveredOps
               PROVE  \E j \in i .. Len(p) : p[j] = ReleaseOf(p[i].a) \/ p[j] = FreeOf(p[i].a)
    BY Zenon DEF Covered
  <2>1. p[i].op = "release" /\ i \in i .. Len(p)
    BY <1>3
  <2>2. p[i] = ReleaseOf(p[i].a)
    BY <1>2, <2>1, Zenon DEF PlainOps, CoveredOps
  <2> QED BY <2>1, <2>2, Zenon
<1>6. Shaped(p)
  <2>1. \A i \in 2 .. Len(p) : i \in DOMAIN p
    BY HeadIn, Zenon
  <2>2. \A i \in DOMAIN p : Fine(p[i])
    <3> SUFFICES ASSUME NEW i \in DOMAIN p PROVE Fine(p[i])
      BY Zenon
    <3>1. CASE p[i].op \in PlainOps
      BY <3>1, Zenon DEF Fine, PlainOps, CoveredOps, FirstOps
    <3>2. CASE p[i].op = "release" /\ p[i].a \in Async /\ p[i] = ReleaseOf(p[i].a)
      BY <3>2, Zenon DEF Fine
    <3> QED BY <1>2, <3>1, <3>2, Zenon
  <2>3. "async_set_result" \in FirstOps /\ "restart" \in FirstOps
    BY Zenon DEF FirstOps
  <2> QED BY <1>3, <1>4, <2>1, <2>2, <2>3, Zenon DEF Shaped
<1>7. Clears' /\ Terminates' /\ Closes'
  BY <1>1, <1>3, Zenon DEF Clears, Terminates, Closes
<1>8. Returns'
  BY <1>1, <1>3, <1>4, Zenon DEF Returns, FirstOps
<1>9. \A a : ~Has(p, FreeOf(a)) /\ ~Has(p, DequeueOf(a)) /\ \A op \in FirstOps : ~Heads(p, op, a)
  BY <1>3, <1>4, CallOps, Zenon DEF Has, Heads
<1>10. \A a : Count(p, FreeOf(a)) = 0
  BY <1>9, CountNone, Zenon
<1> QED BY <1>1, <1>5, <1>6, <1>7, <1>8, <1>9, <1>10, Zenon DEF Calls

LEMMA CoreKillThread ==
  ASSUME ListFacts, Core, Smp = FALSE, NEW t \in Thread, KillThread(t)
  PROVE  Core'
<1> DEFINE q == sysApc[t]
<1>1. PICK p : p = [i \in DOMAIN q |-> ReleaseOf(q[i].a)]
  BY Zenon
<1>2. /\ t \notin dead /\ dead' = dead \cup {t} /\ sysApc' = [sysApc EXCEPT ![t] = <<>>]
      /\ Starts("req", p) /\ UNCHANGED <<asy, qVars, fd, fileVars, running, packets>>
  BY <1>1, Zenon DEF KillThread, ReleaseOf
<1>3. /\ q \in Seq([a : Async, s : Status])
      /\ \A i \in DOMAIN q : q[i].a \in Async /\ asy[q[i].a].thread = t
      /\ \A i, j \in DOMAIN q : q[i].a = q[j].a => i = j
  BY ApcTyped, Zenon DEF Core, Apcs
<1>4. DOMAIN q = 1 .. Len(q) /\ Len(q) \in Nat
  BY <1>3
<1> HIDE DEF q
<1>5. /\ p \in Seq(CallType) /\ DOMAIN p = DOMAIN q
      /\ \A i \in DOMAIN p : p[i] = ReleaseOf(q[i].a) /\ q[i].a \in Async
  <2>1. \A i \in DOMAIN q : ReleaseOf(q[i].a) \in CallType
    BY <1>3, CallTyped, Zenon DEF ReleaseOf, Ops
  <2> QED BY <1>1, <1>3, <1>4, <2>1
<1>6. Todo = <<>> /\ Todo' = p /\ work' \in [Ctx -> Seq(CallType)] /\ OneCtx'
  <2>1. "req" \in Ctx
    BY DEF Ctx
  <2> QED BY <1>2, <1>5, <2>1, Starting, Zenon DEF Core
<1>7. /\ Calls'
      /\ \A a : /\ ~Has(Todo', FreeOf(a)) /\ Count(Todo', FreeOf(a)) = 0 /\ ~Has(Todo', DequeueOf(a))
                /\ \A op \in FirstOps : ~Heads(Todo', op, a)
  BY <1>5, <1>6, ReleaseCalls, Zenon
<1>8. /\ sysApc' \in [Thread -> Seq([a : Async, s : Status])] /\ sysApc'[t] = <<>>
      /\ \A u \in Thread : u # t => sysApc'[u] = sysApc[u]
  <2> DEFINE A == [a : Async, s : Status]
  <2>1. sysApc \in [Thread -> Seq(A)]
    BY Zenon DEF Core, TypeOK
  <2> HIDE DEF A
  <2>2. <<>> \in Seq(A)
    OBVIOUS
  <2>3. sysApc' \in [Thread -> Seq(A)]
    BY <1>2, <2>1, <2>2, Zenon
  <2> QED BY <1>2, <2>1, <2>3, Zenon DEF A
<1>9. ASSUME NEW a \in Async PROVE Account(a)'
  <2>1. Account(a) /\ SameAccount(a) /\ ~(Posted(a) /\ Runs(a)) /\ asy'[a] = asy[a]
    BY <1>2, Zenon DEF Core, Account, Exclusive, SameAccount
  <2>2. Runs(a)' <=> Runs(a)
    BY <1>2, <1>6, <1>7, NothingLeft, Zenon DEF Runs
  <2>3. CASE \E i \in DOMAIN q : q[i].a = a
    <3>1. PICK i \in DOMAIN q : q[i].a = a
      BY <2>3, Zenon
    <3>2. asy[a].thread = t /\ Posted(a)
      BY <1>3, <3>1, Zenon DEF Posted, q
    <3>3. ~Posted(a)'
      BY <1>2, <1>8, <3>2 DEF Posted
    <3>4. Count(p, ReleaseOf(a)) = 1
      <4>1. \A j \in DOMAIN p : p[j] = ReleaseOf(a) => j = i
        BY <1>3, <1>5, <3>1, CallOps
      <4> QED BY <1>5, <3>1, <4>1, CountSingle, Zenon
    <3>5. ~Heads(Todo', "restart", a) /\ ~Heads(Todo', "async_queue_apc", a)
      BY <1>7, Zenon DEF FirstOps
    <3> QED BY <1>2, <1>6, <1>7, <2>1, <2>2, <3>2, <3>3, <3>4, <3>5, Drop, Zenon
  <2>4. CASE ~ \E i \in DOMAIN q : q[i].a = a
    <3>1. Posted(a)' <=> Posted(a)
      <4>1. CASE asy[a].thread = t
        BY <1>2, <1>8, <2>4, <4>1 DEF Posted, q
      <4>2. CASE asy[a].thread # t
        BY <1>2, <1>8, <4>2, Zenon DEF Posted
      <4> QED BY <4>1, <4>2
    <3>2. ~Has(p, ReleaseOf(a))
      BY <1>5, <2>4, CallOps DEF Has
    <3>3. Spares(Todo', a) /\ dead \subseteq dead'
      BY <1>2, <1>6, <1>7, <3>2, Zenon DEF Spares
    <3> QED BY <1>6, <2>1, <2>2, <3>1, <3>3, NothingLeft, Bystander, Zenon
  <2> QED BY <2>3, <2>4, Zenon
<1>10. TypeOK'
  BY <1>2, <1>6, <1>8, Zenon DEF Core, TypeOK, qVars, fileVars
<1>11. Queues'
  BY <1>2, Zenon DEF Core, Queues, qVars
<1>12. Apcs'
  <2>1. dead \in SUBSET Thread /\ DOMAIN <<>> = {}
    BY DEF Core, TypeOK
  <2>2. \A u \in Thread : u = t \/ sysApc'[u] = sysApc[u]
    BY <1>8, Zenon
  <2>3. \A u \in dead' : sysApc'[u] = <<>>
    BY <1>2, <1>8, <2>1, <2>2, Zenon DEF Core, Apcs
  <2>4. \A u \in Thread : \A i, j \in DOMAIN sysApc'[u] : sysApc'[u][i].a = sysApc'[u][j].a => i = j
    BY <1>8, <2>1, <2>2, Zenon DEF Core, Apcs
  <2>5. \A u \in Thread : \A i \in DOMAIN sysApc'[u] : asy[sysApc'[u][i].a].thread = u
    BY <1>8, <2>1, <2>2, Zenon DEF Core, Apcs
  <2> QED BY <1>2, <2>3, <2>4, <2>5, Zenon DEF Core, Apcs
<1> QED BY <1>6, <1>7, <1>9, <1>10, <1>11, <1>12, Zenon DEF Core

LEMMA ConcatHas ==
  ASSUME ListFacts, NEW S, NEW x \in Seq(S), NEW y \in Seq(S), NEW e
  PROVE  /\ Has(x \o y, e) <=> Has(x, e) \/ Has(y, e)
         /\ \A i \in DOMAIN x : (\A j \in DOMAIN x : x[j] = e <=> j = i) /\ ~Has(y, e) =>
              Count(x \o y, e) = 1 /\ Count(y \o x, e) = 1
<1>1. ASSUME NEW v \in Seq(S), NEW w \in Seq(S), NEW k \in DOMAIN (v \o w)
      PROVE  \/ k \in DOMAIN v /\ (v \o w)[k] = v[k]
             \/ k - Len(v) \in DOMAIN w /\ (v \o w)[k] = w[k - Len(v)]
  <2>1. /\ v \o w \in Seq(S) /\ Len(v \o w) = Len(v) + Len(w)
        /\ \A i \in 1 .. Len(v) : (v \o w)[i] = v[i]
        /\ \A i \in 1 .. Len(w) : (v \o w)[Len(v) + i] = w[i]
    BY ConcatAt
  <2>2. /\ DOMAIN v = 1 .. Len(v) /\ DOMAIN w = 1 .. Len(w) /\ Len(v) \in Nat /\ Len(w) \in Nat
        /\ k \in 1 .. Len(v) + Len(w)
    BY <2>1, EmptyLen, Zenon
  <2>3. CASE k \in 1 .. Len(v)
    BY <2>1, <2>2, <2>3, Zenon
  <2>4. CASE k \notin 1 .. Len(v)
    <3>1. k - Len(v) \in 1 .. Len(w) /\ Len(v) + (k - Len(v)) = k
      BY <2>2, <2>4
    <3> QED BY <2>1, <2>2, <3>1, Zenon
  <2> QED BY <2>3, <2>4, Zenon
<1>2. ASSUME NEW v \in Seq(S), NEW w \in Seq(S)
      PROVE  /\ \A i \in DOMAIN v : i \in DOMAIN (v \o w) /\ (v \o w)[i] = v[i]
             /\ \A i \in DOMAIN w : Len(v) + i \in DOMAIN (v \o w) /\ (v \o w)[Len(v) + i] = w[i]
  <2>1. /\ v \o w \in Seq(S) /\ Len(v \o w) = Len(v) + Len(w)
        /\ \A i \in 1 .. Len(v) : (v \o w)[i] = v[i]
        /\ \A i \in 1 .. Len(w) : (v \o w)[Len(v) + i] = w[i]
    BY ConcatAt
  <2>2. /\ DOMAIN v = 1 .. Len(v) /\ DOMAIN w = 1 .. Len(w) /\ Len(v) \in Nat /\ Len(w) \in Nat
        /\ DOMAIN (v \o w) = 1 .. Len(v) + Len(w)
    BY <2>1, EmptyLen, Zenon
  <2> QED BY <2>1, <2>2
<1>3. Has(x \o y, e) <=> Has(x, e) \/ Has(y, e)
  <2>1. ASSUME NEW k \in DOMAIN (x \o y), (x \o y)[k] = e PROVE Has(x, e) \/ Has(y, e)
    BY <1>1, <2>1, Zenon DEF Has
  <2>2. ASSUME NEW k \in DOMAIN x, x[k] = e PROVE Has(x \o y, e)
    BY <1>2, <2>2, Zenon DEF Has
  <2>3. ASSUME NEW k \in DOMAIN y, y[k] = e PROVE Has(x \o y, e)
    BY <1>2, <2>3, Zenon DEF Has
  <2> QED BY <2>1, <2>2, <2>3, Zenon DEF Has
<1>4. ASSUME NEW i \in DOMAIN x, \A j \in DOMAIN x : x[j] = e <=> j = i, ~Has(y, e)
      PROVE  Count(x \o y, e) = 1 /\ Count(y \o x, e) = 1
  <2>1. \A j \in DOMAIN (x \o y) : (x \o y)[j] = e => j = i
    BY <1>1, <1>4, Zenon DEF Has
  <2>2. i \in DOMAIN (x \o y) /\ (x \o y)[i] = e
    BY <1>2, <1>4, Zenon
  <2>3. Count(x \o y, e) = 1
    BY <2>1, <2>2, CountSingle, Zenon
  <2>4. ASSUME NEW j \in DOMAIN (y \o x), (y \o x)[j] = e PROVE j = Len(y) + i
    <3>1. j - Len(y) = i
      BY <1>1, <1>4, <2>4, Zenon DEF Has
    <3>2. j \in Int /\ Len(y) \in Int
      <4>1. y \o x \in Seq(S)
        BY ConcatAt, Zenon
      <4> QED BY <4>1, EmptyLen
    <3> QED BY <3>1, <3>2
  <2>5. Len(y) + i \in DOMAIN (y \o x) /\ (y \o x)[Len(y) + i] = e
    BY <1>2, <1>4, Zenon
  <2>6. Count(y \o x, e) = 1
    BY <2>4, <2>5, CountSingle, Zenon
  <2> QED BY <2>3, <2>6, Zenon
<1> QED BY <1>3, <1>4, Zenon

\* The operations of the APCs that were being executed.
Releases(held) == Each(Keep([a \in Async |-> a], held), "release", "pending")

LEMMA Orphans ==
  ASSUME ListFacts, NEW held \in SUBSET Async, NEW x, x = Releases(held)
  PROVE  /\ x \in Seq(CallType)
         /\ \A i \in DOMAIN x : \E a \in held : x[i] = ReleaseOf(a)
         /\ \A a \in held : \E i \in DOMAIN x : \A j \in DOMAIN x : x[j] = ReleaseOf(a) <=> j = i
<1> DEFINE q == [a \in Async |-> a]
           v == Keep(q, held)
<1>1. q \in Seq(Async) /\ DOMAIN q = Async /\ \A a \in Async : q[a] = a
  BY AsyncIoAssumption DEF Async
<1> HIDE DEF q
<1>2. /\ v \in Seq(Async) /\ DOMAIN v = 1 .. Cardinality(held)
      /\ \A k \in held : v[Place(k, held)] = k
      /\ \A i \in 1 .. Cardinality(held) : \E k \in held : Place(k, held) = i /\ v[i] = k
  BY <1>1, KeepAt
<1>3. \A k \in held : Place(k, held) \in 1 .. Cardinality(held)
  BY AsyncIoAssumption, Places, Zenon DEF Async
<1>4. x = Each(v, "release", "pending")
  BY Zenon DEF q, Releases
<1> HIDE DEF v
<1>5. /\ x \in Seq(CallType) /\ DOMAIN x = DOMAIN v
      /\ \A i \in DOMAIN v : x[i] = ReleaseOf(v[i])
  <2>1. "release" \in Ops
    BY Zenon DEF Ops
  <2>2. /\ Each(v, "release", "pending") \in Seq(CallType)
        /\ DOMAIN Each(v, "release", "pending") = DOMAIN v
        /\ \A i \in DOMAIN v : Each(v, "release", "pending")[i] = Call("release", v[i], "pending")
    BY <1>2, <2>1, EachAt, Zenon
  <2> QED BY <1>4, <2>2, Zenon DEF ReleaseOf
<1>6. \A i \in DOMAIN x : \E a \in held : x[i] = ReleaseOf(a)
  BY <1>2, <1>5, Zenon
<1>7. ASSUME NEW a \in held
      PROVE  \E i \in DOMAIN x : \A j \in DOMAIN x : x[j] = ReleaseOf(a) <=> j = i
  <2>1. \A j \in DOMAIN x : x[j] = ReleaseOf(a) <=> v[j] = a
    BY <1>5, CallOps
  <2>2. \A j \in DOMAIN x : v[j] = a => j = Place(a, held)
    BY <1>2, <1>5, Zenon
  <2>3. Place(a, held) \in DOMAIN x /\ v[Place(a, held)] = a
    BY <1>2, <1>3, <1>5, Zenon
  <2> QED BY <2>1, <2>2, <2>3, Zenon
<1> QED BY <1>5, <1>6, <1>7, Zenon

LEMMA CoreProcessExit ==
  ASSUME ListFacts, Core, Smp = FALSE, NEW first \in BOOLEAN, ProcessExit(first)
  PROVE  Core'
<1>1. PICK held : held = {running[t].a : t \in {u \in Thread : running[u] # None}}
  BY Zenon
<1>2. PICK x : x = Releases(held)
  BY Zenon
<1>3. PICK y : y = IF fd.open THEN CloseCalls ELSE <<>>
  BY Zenon
<1>4. PICK p : p = IF first THEN x \o y ELSE y \o x
  BY Zenon
<1>5. /\ dead = Thread /\ fd' = [fd EXCEPT !.open = FALSE] /\ running' = [t \in Thread |-> None]
      /\ Starts("req", p) /\ UNCHANGED <<asy, qVars, fileVars, sysApc, dead, packets>>
  BY <1>1, <1>2, <1>3, <1>4, Zenon DEF ProcessExit, Releases
<1>6. held \in SUBSET Async /\ \A t \in Thread : running[t] # None => running[t].a \in held
  BY <1>1, ApcTyped, Zenon DEF Core
<1>7. /\ x \in Seq(CallType)
      /\ \A i \in DOMAIN x : \E a \in held : x[i] = ReleaseOf(a)
      /\ \A a \in held : \E i \in DOMAIN x : \A j \in DOMAIN x : x[j] = ReleaseOf(a) <=> j = i
  BY <1>2, <1>6, Orphans
<1>8. y \in Seq(CallType) /\ \A i \in DOMAIN y : y[i].op \in PlainOps
  BY <1>3, CloseTyped, EmptyPush, Zenon
<1>9. p \in Seq(CallType) /\ \A e : Has(p, e) <=> Has(x, e) \/ Has(y, e)
  <2>1. x \o y \in Seq(CallType) /\ y \o x \in Seq(CallType)
    BY <1>7, <1>8, ConcatAt, Zenon
  <2>2. \A e : /\ Has(x \o y, e) <=> Has(x, e) \/ Has(y, e)
               /\ Has(y \o x, e) <=> Has(x, e) \/ Has(y, e)
    BY <1>7, <1>8, ConcatHas, Zenon
  <2> QED BY <1>4, <2>1, <2>2, Zenon
<1>10. Todo = <<>> /\ Todo' = p /\ work' \in [Ctx -> Seq(CallType)] /\ OneCtx'
  <2>1. "req" \in Ctx
    BY Zenon DEF Ctx
  <2> QED BY <1>5, <1>9, <2>1, Starting, Zenon DEF Core
<1>11. \A i \in DOMAIN p : p[i].op \in PlainOps \/ \E a \in Async : p[i] = ReleaseOf(a)
  <2> SUFFICES ASSUME NEW i \in DOMAIN p PROVE p[i].op \in PlainOps \/ \E a \in Async : p[i] = ReleaseOf(a)
    BY Zenon
  <2>1. Has(x, p[i]) \/ Has(y, p[i])
    BY <1>9, Zenon DEF Has
  <2> QED BY <1>6, <1>7, <1>8, <2>1 DEF Has
<1>12. /\ Calls'
       /\ \A a : /\ ~Has(Todo', FreeOf(a)) /\ Count(Todo', FreeOf(a)) = 0 /\ ~Has(Todo', DequeueOf(a))
                 /\ \A op \in FirstOps : ~Heads(Todo', op, a)
  BY <1>9, <1>10, <1>11, ReleaseCalls, Zenon
<1>13. \A a : ~Has(y, ReleaseOf(a))
  BY <1>8, CallOps, Zenon DEF Has, PlainOps, CoveredOps
<1>14. ASSUME NEW a \in Async PROVE Account(a)'
  <2>1. Account(a) /\ SameAccount(a) /\ asy'[a] = asy[a]
    BY <1>5, Zenon DEF Core, SameAccount
  <2>2. ~Runs(a)' /\ ~Posted(a) /\ ~Posted(a)'
    <3>1. asy[a].thread \in Thread => sysApc[asy[a].thread] = <<>>
      BY <1>5, Zenon DEF Core, Apcs
    <3>2. DOMAIN <<>> = {}
      OBVIOUS
    <3> QED BY <1>5, <3>1, <3>2, Zenon DEF Runs, Posted
  <2>3. CASE a \in held
    <3>1. PICK t \in Thread : running[t] # None /\ running[t].a = a
      BY <1>1, <2>3, Zenon
    <3>2. asy[a].thread = t
      BY <3>1, Zenon DEF Core, Apcs
    <3>3. Runs(a)
      BY <1>10, <3>1, <3>2, NothingLeft, Zenon DEF Runs
    <3>4. Count(p, ReleaseOf(a)) = 1
      <4>1. PICK i \in DOMAIN x : \A j \in DOMAIN x : x[j] = ReleaseOf(a) <=> j = i
        BY <1>7, <2>3, Zenon
      <4>2. Count(x \o y, ReleaseOf(a)) = 1 /\ Count(y \o x, ReleaseOf(a)) = 1
        BY <1>7, <1>8, <1>13, <4>1, ConcatHas
      <4> QED BY <1>4, <4>2, Zenon
    <3>5. ~Heads(Todo', "restart", a) /\ ~Heads(Todo', "async_queue_apc", a)
      BY <1>12, Zenon DEF FirstOps
    <3>6. asy[a].thread \in dead'
      BY <1>5, <3>2, Zenon
    <3> QED BY <1>10, <1>12, <2>1, <2>2, <3>3, <3>4, <3>5, <3>6, Drop, Zenon
  <2>4. CASE a \notin held
    <3>1. ~Runs(a)
      BY <1>6, <2>4, Zenon DEF Runs
    <3>2. ~Has(p, ReleaseOf(a))
      <4>1. ~Has(x, ReleaseOf(a))
        BY <1>7, <2>4, CallOps DEF Has
      <4> QED BY <1>9, <1>13, <4>1, Zenon
    <3>3. Spares(Todo', a) /\ dead \subseteq dead'
      BY <1>5, <1>10, <1>12, <3>2, Zenon DEF Spares
    <3> QED BY <1>10, <2>1, <2>2, <3>1, <3>3, NothingLeft, Bystander, Zenon
  <2> QED BY <2>3, <2>4, Zenon
<1>15. TypeOK'
  <2>1. fd' \in FdType
    BY <1>5, Zenon DEF Core, TypeOK, FdType
  <2>2. running' \in [Thread -> RunningApc \cup {None}]
    BY <1>5, Zenon
  <2> QED BY <1>5, <1>10, <2>1, <2>2, Zenon DEF Core, TypeOK, qVars, fileVars
<1>16. Queues'
  BY <1>5, Zenon DEF Core, Queues, qVars
<1>17. Apcs'
  BY <1>5, Zenon DEF Core, Apcs
<1> QED BY <1>10, <1>12, <1>14, <1>15, <1>16, <1>17, Zenon DEF Core

-----------------------------------------------------------------------------
(* The invariant holds.                                                    *)

LEMMA CoreInit ==
  ASSUME ListFacts
  PROVE  Init => Core

<1> SUFFICES ASSUME Init PROVE Core
  BY Zenon
<1>1. Todo = <<>>
  <2>1. work["req"] = <<>> /\ work["cb"] = <<>>
    BY Zenon DEF Init, Ctx
  <2>2. <<>> \o <<>> = <<>>
    OBVIOUS
  <2> QED BY <2>1, <2>2, Zenon DEF Todo
<1>2. NoAsync \in AsyncType
  BY Zenon DEF NoAsync, AsyncType, Queue
<1>3. /\ NoAsync.life = "unused" /\ NoAsync.thread = None /\ NoAsync.ref = 0 /\ NoAsync.timeout = FALSE
      /\ NoAsync.result = None
  BY Zenon DEF NoAsync
<1>4. /\ \A a \in Async : asy[a] = NoAsync
      /\ \A q \in Queue : queue[q] = <<>>
      /\ \A t \in Thread : sysApc[t] = <<>> /\ running[t] = None
  BY Zenon DEF Init
<1>5. DOMAIN <<>> = {}
  OBVIOUS
<1>6. TypeOK
  <2>1. asy \in [Async -> AsyncType]
    BY <1>2, Zenon DEF Init
  <2>2. fd \in FdType
    BY Zenon DEF Init, FdType, Event
  <2>3. <<>> \in Seq(Async) /\ <<>> \in Seq(CallType) /\ <<>> \in Seq(Status)
    OBVIOUS
  <2>4. \A S : <<>> \in Seq(S)
    OBVIOUS
  <2>5. sysApc \in [Thread -> Seq([a : Async, s : Status])]
    <3> DEFINE A == [a : Async, s : Status]
    <3> HIDE DEF A
    <3>1. sysApc \in [Thread -> Seq(A)]
      BY <2>4, Zenon DEF Init
    <3> QED BY <3>1, Zenon DEF A
  <2>6. queue \in [Queue -> Seq(Async)] /\ packets \in [Async -> Seq(Status)] /\ work \in [Ctx -> Seq(CallType)]
    BY <2>3, Zenon DEF Init
  <2> QED BY <2>1, <2>2, <2>5, <2>6, Zenon DEF Init, TypeOK
<1>7. OneCtx
  BY Zenon DEF Init, OneCtx, Ctx
<1>8. ASSUME NEW a \in Async PROVE Account(a)
  <2>1. /\ asy[a].life = "unused" /\ asy[a].thread = None /\ asy[a].ref = 0 /\ asy[a].timeout = FALSE
        /\ asy[a].result = None /\ None \notin Thread
    BY <1>3, <1>4, AsyncIoAssumption, Zenon
  <2>2. Spares(Todo, a) /\ ~Resulted(a)
    BY <1>1, NothingLeft, Zenon
  <2>3. /\ Count(Todo, ReleaseOf(a)) = 0 /\ Count(Todo, FreeOf(a)) = 0 /\ ~Has(Todo, FreeOf(a))
        /\ ~Heads(Todo, "restart", a) /\ ~Heads(Todo, "async_queue_apc", a)
        /\ ~Heads(Todo, "async_set_result", a)
    BY <2>2, CountNone, Zenon DEF Spares, FirstOps
  <2>4. ~Pends(a) /\ ~Posted(a) /\ ~Runs(a) /\ ~Held(a)
    BY <2>1, Zenon DEF Pends, Posted, Runs, Held
  <2>5. ~Queueing(a) /\ ~Resulting(a)
    BY <2>3, Zenon DEF Queueing, Resulting
  <2>6. RefExact(a) /\ Exclusive(a)
    BY <2>1, <2>3, <2>4, <2>5 DEF RefExact, Exclusive
  <2>7. Living(a) /\ Owned(a)
    BY <2>1, <2>3 DEF Living, Owned
  <2> QED BY <2>6, <2>7, Zenon DEF Account
<1>9. Queues
  <2>1. \A a \in Async : asy[a].ref = 0
    BY <1>3, <1>4, Zenon
  <2> QED BY <1>4, <1>5, <2>1 DEF Queues, Has
<1>10. Apcs
  BY <1>4, <1>5, Zenon DEF Apcs, Init
<1>11. Calls
  BY <1>1, <1>5, NoCalls, Zenon DEF Calls, Clears, Returns, Terminates, Closes
<1> QED BY <1>6, <1>7, <1>8, <1>9, <1>10, <1>11, Zenon DEF Core

LEMMA CoreStep ==
  ASSUME ListFacts, Core, NEW c \in Ctx, Step(c)
  PROVE  Core'
<1>1. PICK b, s : b = Arg(c).a /\ s = Arg(c).s
  BY Zenon
<1>2. PICK o : o = asy[b].status
  BY Zenon
<1>3. CASE FdStep(c)
  BY <1>3, CoreSetFdEvents, CorePollWake, CoreFdPollEvent, CoreFdEnds, CorePollEvent, CoreRearm,
     CoreReselect, CoreFreeQueue, Zenon DEF FdStep
<1>4. CASE Terminate(c)
  BY <1>1, <1>4, CoreTerminatePending, CoreTerminateEnded, Zenon
<1>5. CASE QueueApc(c)
  BY <1>1, <1>5, CoreQueueApc, Zenon
<1>6. CASE Release(c)
  BY <1>1, <1>6, CoreReleaseOne, CoreReleaseLast, Zenon
<1>7. CASE Free(c)
  BY <1>1, <1>7, CoreFree, Zenon
<1>8. CASE SetResult(c)
  BY <1>1, <1>2, <1>8, CoreSetFinal, CoreSetPending, Zenon
<1>9. CASE Restart(c)
  BY <1>1, <1>9, CoreRestart
<1>10. CASE DequeueApc(c)
  BY <1>1, <1>10, CoreDequeueApc
<1>11. CASE ClearApc(c) \/ WakeUp(c) \/ WakeUpBy(c) \/ SetTimeout(c)
  BY <1>11, CoreClearApc, CoreWakeUp, CoreWakeUpBy, CoreSetTimeout, Zenon
<1> QED BY <1>3, <1>4, <1>5, <1>6, <1>7, <1>8, <1>9, <1>10, <1>11, Zenon DEF Step, AsyncStep

LEMMA CoreNext ==
  ASSUME ListFacts, Core, Smp = FALSE, [Next]_vars
  PROVE  Core'
<1>1. CASE \E c \in Ctx : Step(c)
  BY <1>1, CoreStep, Zenon
<1>2. CASE \E t \in Thread : ThreadRequest(t)
  <2>1. PICK t \in Thread : ThreadRequest(t)
    BY <1>2, Zenon
  <2>2. ASSUME NEW a \in Async, NEW q \in Queue, NEW timed \in Timed, RegisterAsync(t, a, q, timed)
        PROVE  Core'
    BY <2>2, AsyncIoAssumption, CoreRegisterAsync, Zenon
  <2> QED BY <2>1, <2>2, CoreCancelAsync, CoreFdRequests, CoreKillThread, Zenon DEF ThreadRequest
<1>3. CASE \E t \in Thread : Apc(t)
  BY <1>3, CoreSelect, CoreSelectResult, CoreClientIo, Zenon DEF Apc
<1>4. CASE (\E a \in Async : AsyncTimeout(a)) \/ (\E first \in BOOLEAN : ProcessExit(first))
  BY <1>4, CoreAsyncTimeout, CoreProcessExit, Zenon
<1>5. CASE (\E q \in Queue : Arrive(q)) \/ HangUp
  BY <1>5, CoreFile, Zenon
<1>6. CASE UNCHANGED vars
  <2> USE <1>6 DEF vars, qVars, fileVars, apcVars
  <2>1. Todo' = Todo /\ TypeOK' /\ OneCtx'
    BY Zenon DEF Todo, Core, TypeOK, OneCtx
  <2>2. ASSUME NEW a \in Async PROVE Account(a)'
    <3>1. (Pends(a)' <=> Pends(a)) /\ (Posted(a)' <=> Posted(a)) /\ (Runs(a)' <=> Runs(a))
      BY <2>1, Zenon DEF Pends, Posted, Runs
    <3>2. (Queueing(a)' <=> Queueing(a)) /\ (Resulting(a)' <=> Resulting(a)) /\ (Resulted(a)' <=> Resulted(a))
      BY <2>1, Zenon DEF Queueing, Resulting, Resulted
    <3>3. Held(a)' <=> Held(a)
      BY <3>1, Zenon DEF Held
    <3>4. Account(a)
      BY Zenon DEF Core
    <3>5. RefExact(a)'
      BY <2>1, <3>3, <3>4, Zenon DEF Account, RefExact
    <3>6. Exclusive(a)'
      BY <2>1, <3>1, <3>2, <3>3, <3>4, Zenon DEF Account, Exclusive
    <3>7. Living(a)'
      BY <2>1, <3>4, Zenon DEF Account, Living
    <3>8. Owned(a)'
      BY <3>2, <3>3, <3>4, Zenon DEF Account, Owned
    <3> QED BY <3>5, <3>6, <3>7, <3>8, Zenon DEF Account
  <2>3. Queues' /\ Apcs'
    BY Zenon DEF Core, Queues, Apcs
  <2>4. Calls'
    BY <2>1, Zenon DEF Core, Calls, Clears, Returns, Terminates, Closes
  <2> QED BY <2>1, <2>2, <2>3, <2>4, Zenon DEF Core
<1> QED BY <1>1, <1>2, <1>3, <1>4, <1>5, <1>6, Zenon DEF Next
=============================================================================

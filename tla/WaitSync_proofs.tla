-------------------------- MODULE WaitSync_proofs ---------------------------
(***************************************************************************)
(* Proofs about WaitSync, for any number of threads and objects and any    *)
(* select requests: its type invariant and the consistency of the mutexes; *)
(* and, in the second part, what the waits of a thread take and where they *)
(* are queued.  The mark of an abandoned mutex is never lost, and the count*)
(* of a semaphore stays within its limit as long as no SELECT_WAIT_ALL names*)
(* a semaphore twice: both change only when a wait is granted, a semaphore *)
(* is released or a thread dies.  A dead thread is gone once it is cleaned *)
(* up, a suspended one takes nothing, and the queues of the objects agree  *)
(* with the stacks of waits.                                               *)
(***************************************************************************)
EXTENDS WaitSync, FiniteSetTheorems, SequenceTheorems, TLAPS

Checked == {"none", "object", "system_apc", "user_apc", "timeout"}

\* check_wait returns one of the statuses it names.
LEMMA CheckWaitType ==
  ASSUME NEW w, NEW t
  PROVE  CheckWait(w, t) \in Checked
BY Zenon DEF CheckWait, Checked

\* The status of a wait is a status, abandoned or not.
LEMMA ResultType ==
  ASSUME NEW w, NEW t
  PROVE  Result(w, t, CheckWait(w, t)) \in Status
BY CheckWaitType, Zenon DEF Result, Checked, Status

\* What check_wait takes is signaled: an object of the wait that the thread
\* may have.
LEMMA TakenSignaled ==
  ASSUME NEW t \in Thread, NEW w \in WaitType
  PROVE  \A i \in Taken(w, t, CheckWait(w, t)) :
            i \in DOMAIN w.objs /\ Signaled(w.objs[i], w, t)
<1>1. CASE CheckWait(w, t) # "object"
  BY <1>1, Zenon DEF Taken
<1>2. CASE CheckWait(w, t) = "object"
  <2>1. \/ w.op = "all" /\ SignaledIn(w, t) = DOMAIN w.objs
        \/ w.op # "all" /\ SignaledIn(w, t) # {}
    BY <1>2, Zenon DEF CheckWait
  <2>2. Taken(w, t, CheckWait(w, t)) \subseteq SignaledIn(w, t)
    BY <1>2, <2>1, Zenon DEF Taken
  <2> QED BY <2>2, Zenon DEF SignaledIn
<1> QED BY <1>1, <1>2, Zenon

\* The number of entries of a wait on one object is a natural number, and
\* positive exactly when there is one.
LEMMA TimesType ==
  ASSUME NEW t \in Thread, NEW w \in WaitType, NEW o
  PROVE  LET n == Times(w, t, CheckWait(w, t), o) IN
         n \in Nat /\ (n > 0 <=> \E i \in Taken(w, t, CheckWait(w, t)) : w.objs[i] = o)
<1> DEFINE T == Taken(w, t, CheckWait(w, t))
           S == {i \in T : w.objs[i] = o}
<1>1. w.objs \in Seq(Object)
  BY Zenon DEF WaitType
<1>2. IsFiniteSet(DOMAIN w.objs)
  BY <1>1, FS_Interval
<1>3. S \subseteq DOMAIN w.objs
  BY TakenSignaled, Zenon
<1>4. IsFiniteSet(S)
  BY <1>2, <1>3, FS_Subset, Zenon
<1>5. Cardinality(S) \in Nat /\ (Cardinality(S) = 0 <=> S = {})
  BY <1>4, FS_CardinalityType, FS_EmptySet, Zenon
<1>6. Times(w, t, CheckWait(w, t), o) = Cardinality(S)
  BY Zenon DEF Times
<1> HIDE DEF S
<1>7. Cardinality(S) > 0 <=> S # {}
  BY <1>5
<1> QED BY <1>5, <1>6, <1>7, Zenon DEF S

\* The rest of a kill or of a select is about a thread, that of an expiration
\* about a timer.
ContOK == /\ cont.op \in {"kill", "exit", "select"} => cont.arg \in Thread
          /\ cont.op = "timer" => cont.arg \in Timer

\* A thread that kill_thread is done with has no APC left: what a timer that
\* finds its thread dead relies on when it forgets the thread.
DeadNoApc ==
  \A t \in Thread :
    state[t] = "TERMINATED" /\ ~(cont.op \in {"kill", "exit"} /\ cont.arg = t) =>
      userApc[t] = <<>>

IInv == TypeOK /\ ContOK /\ MutexConsistent /\ TimerApcOwned /\ DeadNoApc

(* The type invariant by groups of variables.                               *)

ThreadTypes ==
  /\ state \in [Thread -> {"RUNNING", "TERMINATED"}]
  /\ suspend \in [Thread -> 0 .. MaxSuspend]
  /\ sigusr1 \in [Thread -> BOOLEAN]
  /\ late \in [Thread -> BOOLEAN]

ApcTypes ==
  /\ sysApc \in [Thread -> 0 .. MaxApc]
  /\ userApc \in [Thread -> Seq(Timer \cup {None})]

TimerTypes ==
  timer \in [Timer -> [armed : BOOLEAN, period : BOOLEAN, thread : Thread \cup {None}]]

ApcInv == TimerTypes /\ TimerApcOwned /\ DeadNoApc

ContType == [op : {"none", "pulse", "kill", "exit", "select", "timer"},
             arg : Object \cup {None}]

WaitTypes == waits \in [Thread -> Seq(WaitType)] /\ DOMAIN queue = Object

ReplyTypes == reply \in [Thread -> Status]

ScanType == [obj : Object \cup {None}, max : Nat, pos : Nat \ {0}, cur : Thread \cup {None}]

JobTypes ==
  /\ scan \in ScanType
  /\ cont \in ContType

ObjTypes ==
  /\ signaled \in [Event \cup Timer -> BOOLEAN]
  /\ semCount \in [Semaphore -> 0 .. WrapAt - 1]

MutexTypes ==
  /\ owner \in [Mutex -> Thread \cup {None}]
  /\ count \in [Mutex -> Nat]
  /\ abandoned \in [Mutex -> BOOLEAN]
  /\ mutexList \in [Thread -> SUBSET Mutex]

LEMMA TypeGroups ==
  TypeOK <=> /\ ThreadTypes /\ ApcTypes /\ WaitTypes /\ ReplyTypes
             /\ ObjTypes /\ MutexTypes /\ JobTypes /\ TimerTypes
BY Zenon DEF TypeOK, ThreadTypes, ApcTypes, WaitTypes, ReplyTypes, ObjTypes, MutexTypes,
       JobTypes, ScanType, ContType, TimerTypes

(* The queues of user APCs.                                                 *)

ApcQueue == Seq(Timer \cup {None})

\* No timer has two APCs in the queue.
Distinct(q) == \A i, j \in DOMAIN q : q[i] # None /\ q[i] = q[j] => i = j

\* Everything in the queue c comes from the queue q.
From(c, q) == \A i \in DOMAIN c : \E j \in DOMAIN q : c[i] = q[j]

\* TimerApcOwned of one queue.
LEMMA OwnedQueue ==
  TimerApcOwned <=>
    \A t \in Thread :
      /\ Distinct(userApc[t])
      /\ \A i \in DOMAIN userApc[t] : userApc[t][i] # None => timer[userApc[t][i]].thread = t
BY Zenon DEF TimerApcOwned, Distinct

\* thread_cancel_apc removes the APC of the timer, and nothing else is new.
LEMMA CancelApcQueue ==
  ASSUME NEW q \in ApcQueue, NEW x \in Timer, Distinct(q)
  PROVE  /\ CancelApc(q, x) \in ApcQueue
         /\ Distinct(CancelApc(q, x))
         /\ From(CancelApc(q, x), q)
         /\ \A i \in DOMAIN CancelApc(q, x) : CancelApc(q, x)[i] # x
<1>x. x # None
  BY WaitSyncAssumption, Zenon DEF Object
<1>1. CASE \A i \in DOMAIN q : q[i] # x
  <2>1. CancelApc(q, x) = q
    BY <1>1, Zenon DEF CancelApc
  <2> QED BY <1>1, <2>1, Zenon DEF From
<1>2. CASE \E i \in DOMAIN q : q[i] = x
  <2> DEFINE First(i) == q[i] = x /\ \A j \in DOMAIN q : q[j] = x => i <= j
             k == CHOOSE i \in DOMAIN q : First(i)
             c == [i \in 1 .. Len(q) - 1 |-> q[IF i < k THEN i ELSE i + 1]]
  <2>d. DOMAIN q = 1 .. Len(q) /\ Len(q) \in Nat
    BY DEF ApcQueue
  <2>1. PICK n \in DOMAIN q : q[n] = x
    BY <1>2, Zenon
  <2>2. \A j \in DOMAIN q : q[j] = x => j = n
    BY <2>1, <1>x, Zenon DEF Distinct
  <2>3. First(n)
    BY <2>1, <2>2, <2>d
  <2>4. k \in DOMAIN q /\ First(k)
    BY <2>3, Zenon
  <2>5. k = n
    BY <2>2, <2>4, Zenon
  <2>6. CancelApc(q, x) = c
    BY <1>2, Zenon DEF CancelApc
  <2> HIDE DEF k, First
  <2>7. n \in 1 .. Len(q) /\ Len(q) - 1 \in Nat
    BY <2>1, <2>d
  <2>8. ASSUME NEW i \in 1 .. Len(q) - 1
        PROVE  LET j == IF i < n THEN i ELSE i + 1 IN j \in DOMAIN q /\ j # n /\ c[i] = q[j]
    BY <2>5, <2>7, <2>d
  <2>9. ASSUME NEW i \in 1 .. Len(q) - 1 PROVE c[i] \in Timer \cup {None} /\ c[i] # x
    BY <2>2, <2>8 DEF ApcQueue
  <2>10. c \in ApcQueue
    BY <2>7, <2>9 DEF ApcQueue
  <2>11. DOMAIN c = 1 .. Len(q) - 1
    BY Zenon
  <2> HIDE DEF c
  <2>12. From(c, q)
    BY <2>8, <2>11, Zenon DEF From
  <2>13. Distinct(c)
    <3> SUFFICES ASSUME NEW i \in 1 .. Len(q) - 1, NEW j \in 1 .. Len(q) - 1,
                        c[i] # None, c[i] = c[j]
                 PROVE  i = j
      BY <2>11, Zenon DEF Distinct
    <3> DEFINE up(e) == IF e < n THEN e ELSE e + 1
    <3>1. up(i) \in DOMAIN q /\ up(j) \in DOMAIN q /\ c[i] = q[up(i)] /\ c[j] = q[up(j)]
      BY <2>8, Zenon
    <3>2. up(i) = up(j)
      <4> HIDE DEF up
      <4> QED BY <3>1, Zenon DEF Distinct
    <3> QED BY <3>2, <2>7
  <2> QED BY <2>6, <2>9, <2>10, <2>11, <2>12, <2>13, Zenon
<1> QED BY <1>1, <1>2, Zenon

\* thread_dequeue_apc takes the head of the queue.
LEMMA TailQueue ==
  ASSUME NEW q \in ApcQueue, q # <<>>, Distinct(q)
  PROVE  Tail(q) \in ApcQueue /\ Distinct(Tail(q)) /\ From(Tail(q), q)
<1>1. /\ Tail(q) \in ApcQueue /\ Len(Tail(q)) = Len(q) - 1 /\ Len(q) \in Nat
      /\ \A i \in 1 .. Len(Tail(q)) : Tail(q)[i] = q[i + 1]
  BY HeadTailProperties DEF ApcQueue
<1>2. DOMAIN Tail(q) = 1 .. Len(q) - 1 /\ DOMAIN q = 1 .. Len(q)
  BY <1>1 DEF ApcQueue
<1>3. \A i \in DOMAIN Tail(q) : i \in Nat /\ i + 1 \in DOMAIN q /\ Tail(q)[i] = q[i + 1]
  BY <1>1, <1>2
<1>4. From(Tail(q), q)
  BY <1>3, Zenon DEF From
<1>5. Distinct(Tail(q))
  <2> SUFFICES ASSUME NEW i \in DOMAIN Tail(q), NEW j \in DOMAIN Tail(q),
                      Tail(q)[i] # None, Tail(q)[i] = Tail(q)[j]
               PROVE  i = j
    BY Zenon DEF Distinct
  <2>1. i + 1 = j + 1
    BY <1>3, Zenon DEF Distinct
  <2> QED BY <2>1, <1>3
<1> QED BY <1>1, <1>4, <1>5, Zenon

\* queue_apc adds an APC at the tail.
LEMMA AppendQueue ==
  ASSUME NEW q \in ApcQueue, NEW o \in Timer \cup {None}, Distinct(q),
         o # None => \A i \in DOMAIN q : q[i] # o
  PROVE  /\ Append(q, o) \in ApcQueue /\ Distinct(Append(q, o))
         /\ \A i \in DOMAIN Append(q, o) : Append(q, o)[i] = o \/ \E j \in DOMAIN q : Append(q, o)[i] = q[j]
<1> DEFINE a == Append(q, o)
<1>1. /\ a \in ApcQueue /\ Len(a) = Len(q) + 1 /\ Len(q) \in Nat
      /\ \A i \in 1 .. Len(q) : a[i] = q[i]
      /\ a[Len(q) + 1] = o
  BY AppendProperties DEF ApcQueue
<1>2. DOMAIN a = 1 .. Len(q) + 1 /\ DOMAIN q = 1 .. Len(q)
  BY <1>1 DEF ApcQueue
<1> HIDE DEF a
<1>3. \A i \in DOMAIN a : (i = Len(q) + 1 /\ a[i] = o) \/ (i \in DOMAIN q /\ a[i] = q[i])
  BY <1>1, <1>2
<1>4. Distinct(a)
  BY <1>3, Zenon DEF Distinct
<1> QED BY <1>1, <1>3, <1>4, Zenon DEF a

\* Telling the objects that a wait is satisfied keeps the types and gives each
\* mutex one owner, in whose list it is.
LEMMA SatisfiedTypes ==
  ASSUME TypeOK, NEW t \in Thread, NEW w \in WaitType, Satisfied(w, t, CheckWait(w, t))
  PROVE  ObjTypes' /\ MutexTypes'
<1> DEFINE st == CheckWait(w, t)
           taken == {w.objs[i] : i \in Taken(w, t, st)}
<1>1. signaled' \in [Event \cup Timer -> BOOLEAN]
  BY Zenon DEF Satisfied
<1>2. \A s \in Semaphore : (semCount[s] - Times(w, t, st, s)) % WrapAt \in 0 .. WrapAt - 1
  <2> SUFFICES ASSUME NEW s \in Semaphore
               PROVE  (semCount[s] - Times(w, t, st, s)) % WrapAt \in 0 .. WrapAt - 1
    BY Zenon
  <2>1. Times(w, t, st, s) \in Nat
    BY TimesType, Zenon
  <2>2. semCount[s] - Times(w, t, st, s) \in Int
    BY <2>1 DEF TypeOK
  <2>3. WrapAt \in Nat /\ WrapAt > 0
    BY WaitSyncAssumption
  <2> HIDE DEF st
  <2> QED BY <2>2, <2>3
<1>3. semCount' \in [Semaphore -> 0 .. WrapAt - 1]
  BY <1>2, Zenon DEF Satisfied
<1>4. owner' \in [Mutex -> Thread \cup {None}]
  BY Zenon DEF Satisfied, TypeOK
<1>5. count' \in [Mutex -> Nat]
  <2>1. \A m \in Mutex : count[m] + Times(w, t, st, m) \in Nat
    BY TimesType DEF TypeOK
  <2> QED BY <2>1, Zenon DEF Satisfied
<1>6. abandoned' \in [Mutex -> BOOLEAN]
  BY Zenon DEF Satisfied
<1>7. mutexList' \in [Thread -> SUBSET Mutex]
  BY Zenon DEF Satisfied, TypeOK
<1> QED BY <1>1, <1>3, <1>4, <1>5, <1>6, <1>7, Zenon DEF ObjTypes, MutexTypes

LEMMA SatisfiedMutex ==
  ASSUME TypeOK, MutexConsistent,
         NEW t \in Thread, NEW w \in WaitType, Satisfied(w, t, CheckWait(w, t))
  PROVE  MutexConsistent'
<1> DEFINE st == CheckWait(w, t)
           taken == {w.objs[i] : i \in Taken(w, t, st)}
<1> SUFFICES ASSUME NEW m \in Mutex
             PROVE  /\ count'[m] > 0 <=> owner'[m] # None
                    /\ \A u \in Thread : m \in mutexList'[u] <=> owner'[m] = u
                    /\ abandoned'[m] => count'[m] = 0
  BY Zenon DEF MutexConsistent
<1>a. /\ count[m] > 0 <=> owner[m] # None
      /\ \A u \in Thread : m \in mutexList[u] <=> owner[m] = u
      /\ abandoned[m] => count[m] = 0
  BY Zenon DEF MutexConsistent
<1>b. /\ owner'[m] = IF m \in taken THEN t ELSE owner[m]
      /\ count'[m] = count[m] + Times(w, t, st, m)
  BY Zenon DEF Satisfied, TypeOK
<1>e. abandoned'[m] <=> abandoned[m] /\ m \notin taken
  BY Zenon DEF Satisfied
<1>f. \A u \in Thread : m \in mutexList'[u] <=> m \in mutexList[u] \/ (u = t /\ m \in taken)
  BY Zenon DEF Satisfied, TypeOK
<1>c. Times(w, t, st, m) \in Nat /\ (Times(w, t, st, m) > 0 <=> m \in taken)
  BY TimesType, Zenon
<1>d. count[m] \in Nat /\ owner[m] \in Thread \cup {None} /\ t # None
  BY WaitSyncAssumption, Zenon DEF TypeOK, Object
<1>g. None \notin Thread
  BY WaitSyncAssumption, Zenon DEF Object
<1>1. CASE m \in taken
  <2>1. Signaled(m, w, t)
    BY <1>1, TakenSignaled, Zenon
  <2>2. count[m] = 0 \/ owner[m] = t
    BY <2>1, WaitSyncAssumption, Zenon DEF Signaled
  <2>3. owner[m] \in {None, t}
    BY <2>2, <1>a, <1>d
  <2> HIDE DEF taken, st
  <2>4. \A u \in Thread : m \in mutexList'[u] <=> u = t
    BY <1>1, <1>a, <1>f, <1>g, <2>3, Zenon
  <2>5. count'[m] > 0 /\ owner'[m] = t
    BY <1>1, <1>b, <1>c, <1>d
  <2>6. ~abandoned'[m]
    BY <1>1, <1>e, Zenon
  <2> QED BY <2>4, <2>5, <2>6, <1>d, Zenon
<1>2. CASE m \notin taken
  <2> HIDE DEF taken, st
  <2>1. count'[m] = count[m] /\ owner'[m] = owner[m]
    BY <1>2, <1>b, <1>c, <1>d
  <2>2. /\ \A u \in Thread : m \in mutexList'[u] <=> m \in mutexList[u]
        /\ abandoned'[m] <=> abandoned[m]
    BY <1>2, <1>e, <1>f, Zenon
  <2> QED BY <2>1, <2>2, <1>a, Zenon
<1> QED BY <1>1, <1>2, Zenon

\* The invariant after a step, group by group.
LEMMA Groups ==
  ASSUME ThreadTypes', ApcTypes', WaitTypes', ReplyTypes', ObjTypes', MutexTypes',
         JobTypes', ContOK', MutexConsistent', ApcInv'
  PROVE  IInv'
BY TypeGroups, PTL DEF IInv, ApcInv

LEMMA EndWaitTypes ==
  ASSUME WaitTypes, NEW T, \A u \in T : waits[u] # <<>>, EndWait(T)
  PROVE  WaitTypes'
<1>1. ASSUME NEW u \in Thread
      PROVE  (IF u \in T THEN Tail(waits[u]) ELSE waits[u]) \in Seq(WaitType)
  <2>1. waits[u] \in Seq(WaitType)
    BY Zenon DEF WaitTypes
  <2>2. u \in T => Tail(waits[u]) \in Seq(WaitType)
    BY <2>1
  <2> QED BY <2>1, <2>2, Zenon
<1> QED BY <1>1, Zenon DEF WaitTypes, EndWait

\* The partner of a keyed wait waits.
LEMMA PartnerWaits ==
  ASSUME NEW w, NEW t, NEW status, NEW u \in Partner(w, t, status)
  PROVE  waits[u] # <<>>
BY Zenon DEF Partner, Partners

LEMMA AnswerTypes ==
  ASSUME ReplyTypes, NEW w, NEW t, Answer(w, t, CheckWait(w, t))
  PROVE  ReplyTypes'
BY ResultType, Zenon DEF ReplyTypes, Answer, Status

LEMMA WaitOnTypes ==
  ASSUME WaitTypes, NEW t \in Thread, NEW w \in WaitType, WaitOn(t, w)
  PROVE  WaitTypes'
<1>1. waits[t] \in Seq(WaitType)
  BY Zenon DEF WaitTypes
<1>2. <<w>> \o waits[t] \in Seq(WaitType)
  BY <1>1
<1> QED BY <1>2, Zenon DEF WaitTypes, WaitOn

LEMMA HeadType ==
  ASSUME WaitTypes, NEW t \in Thread, waits[t] # <<>>
  PROVE  Head(waits[t]) \in WaitType
<1>1. waits[t] \in Seq(WaitType)
  BY Zenon DEF WaitTypes
<1> QED BY <1>1

\* One turn of wake_thread.
LEMMA DeliverInv ==
  ASSUME IInv, NEW t \in Thread, waits[t] # <<>>, Deliver(t)
  PROVE  WaitTypes' /\ ReplyTypes' /\ ObjTypes' /\ MutexTypes' /\ MutexConsistent'
<1> DEFINE w == Head(waits[t])
           T == {t} \cup Partner(w, t, CheckWait(w, t))
<1>1. /\ Satisfied(w, t, CheckWait(w, t)) /\ EndWait(T)
      /\ Answer(w, t, CheckWait(w, t))
  BY Zenon DEF Deliver
<1>2. TypeOK /\ MutexConsistent /\ WaitTypes /\ ReplyTypes
  BY TypeGroups, Zenon DEF IInv
<1>3. w \in WaitType
  BY <1>2, HeadType, Zenon
<1>0. \A u \in T : waits[u] # <<>>
  BY PartnerWaits, Zenon
<1>4. WaitTypes'
  <2> HIDE DEF T
  <2> QED BY <1>0, <1>1, <1>2, EndWaitTypes, Zenon
<1> HIDE DEF w
<1>5. ReplyTypes'
  BY <1>1, <1>2, AnswerTypes, Zenon
<1> QED BY <1>1, <1>2, <1>3, <1>4, <1>5, SatisfiedTypes, SatisfiedMutex, Zenon

\* Queues of user APCs change at most by losing their heads.
Popped ==
  \A u \in Thread : \/ userApc'[u] = userApc[u]
                    \/ userApc[u] # <<>> /\ userApc'[u] = Tail(userApc[u])

LEMMA DequeueApcTypes ==
  ASSUME ApcTypes, NEW t \in Thread, NEW w,
         DequeueApc(t, w.alertable, CheckWait(w, t))
  PROVE  ApcTypes' /\ Popped
<1> DEFINE st == CheckWait(w, t)
<1>0. MaxApc \in Nat
  BY WaitSyncAssumption, Zenon
<1>1. CASE st \notin {"system_apc", "user_apc"}
  <2>1. sysApc' = sysApc /\ userApc' = userApc
    BY <1>1, Zenon DEF DequeueApc
  <2>2. Popped
    BY <2>1, Zenon DEF Popped
  <2> QED BY <2>1, <2>2, Zenon DEF ApcTypes
<1>2. CASE st \in {"system_apc", "user_apc"} /\ sysApc[t] > 0
  <2>1. sysApc' = [sysApc EXCEPT ![t] = sysApc[t] - 1] /\ userApc' = userApc
    BY <1>2, Zenon DEF DequeueApc
  <2>2. sysApc[t] - 1 \in 0 .. MaxApc
    BY <1>0, <1>2 DEF ApcTypes
  <2>3. ApcTypes'
    BY <2>1, <2>2, Zenon DEF ApcTypes
  <2>4. Popped
    BY <2>1, Zenon DEF Popped
  <2> QED BY <2>3, <2>4, Zenon
<1>3. CASE st \in {"system_apc", "user_apc"} /\ ~(sysApc[t] > 0)
  <2>1. st # "object" /\ w.alertable /\ userApc[t] # <<>>
    BY <1>3, Zenon DEF CheckWait
  <2>2. userApc' = [userApc EXCEPT ![t] = Tail(userApc[t])] /\ sysApc' = sysApc
    BY <1>3, <2>1, Zenon DEF DequeueApc
  <2>3. Tail(userApc[t]) \in Seq(Timer \cup {None})
    BY <2>1, HeadTailProperties, Zenon DEF ApcTypes
  <2>4. ApcTypes'
    BY <2>2, <2>3, Zenon DEF ApcTypes
  <2>5. \A u \in Thread : userApc'[u] = IF u = t THEN Tail(userApc[t]) ELSE userApc[u]
    BY <2>2, Zenon DEF ApcTypes
  <2>6. Popped
    BY <2>1, <2>5, Zenon DEF Popped
  <2> QED BY <2>4, <2>6
<1> QED BY <1>1, <1>2, <1>3, Zenon

\* select_on without an object to signal.
LEMMA SelectOnInv ==
  ASSUME IInv, NEW t \in Thread, NEW w \in WaitType, SelectOn(t, w)
  PROVE  /\ ApcTypes' /\ WaitTypes' /\ ReplyTypes' /\ ObjTypes' /\ MutexTypes'
         /\ MutexConsistent' /\ Popped
<1>1. /\ TypeOK /\ MutexConsistent /\ ApcTypes /\ WaitTypes /\ ReplyTypes
      /\ ObjTypes /\ MutexTypes
  BY TypeGroups, Zenon DEF IInv
<1>2. ApcTypes' /\ Popped
  BY <1>1, DequeueApcTypes, Zenon DEF SelectOn
<1>3. CASE CheckWait(w, t) # "none"
  <2>1. /\ Satisfied(w, t, CheckWait(w, t)) /\ Answer(w, t, CheckWait(w, t))
        /\ EndWait(Partner(w, t, CheckWait(w, t)))
    BY <1>3, Zenon DEF SelectOn
  <2>2. WaitTypes' /\ ReplyTypes'
    BY <1>1, <2>1, PartnerWaits, EndWaitTypes, AnswerTypes, Zenon
  <2> QED BY <1>1, <1>2, <2>1, <2>2, SatisfiedTypes, SatisfiedMutex, Zenon
<1>4. CASE CheckWait(w, t) = "none"
  <2>1. WaitOn(t, Armed(w)) /\ UNCHANGED <<reply, objVars, mutexVars>>
    BY <1>4, Zenon DEF SelectOn
  <2>2. Armed(w) \in WaitType
    BY Zenon DEF Armed, WaitType
  <2>3. WaitTypes'
    BY <1>1, <2>1, <2>2, WaitOnTypes, Zenon
  <2>4. ReplyTypes' /\ ObjTypes' /\ MutexTypes'
    BY <1>1, <2>1, Zenon DEF ReplyTypes, ObjTypes, MutexTypes, objVars, mutexVars
  <2>5. MutexConsistent'
    BY <1>1, <2>1, Zenon DEF MutexConsistent, mutexVars
  <2> QED BY <1>2, <2>3, <2>4, <2>5, Zenon
<1> QED BY <1>3, <1>4, Zenon

\* mutex->count-- and do_release, by the owner.
LEMMA DropMutexInv ==
  ASSUME IInv, NEW t \in Thread, NEW m \in Mutex, DropMutex(t, m)
  PROVE  MutexTypes' /\ MutexConsistent' /\ scan' \in ScanType
<1>1. MutexTypes /\ MutexConsistent /\ scan \in ScanType
  BY TypeGroups, Zenon DEF IInv, JobTypes
<1>2. /\ owner[m] = t /\ count[m] > 0 /\ count[m] \in Nat
      /\ count' = [count EXCEPT ![m] = count[m] - 1] /\ abandoned' = abandoned
  BY <1>1, Zenon DEF DropMutex, MutexTypes
<1>3. None \notin Thread /\ m \in Object
  BY WaitSyncAssumption, Zenon DEF Object
<1>4. count' \in [Mutex -> Nat]
  BY <1>1, <1>2 DEF MutexTypes
<1>5. CASE count[m] = 1
  <2>1. /\ owner' = [owner EXCEPT ![m] = None]
        /\ mutexList' = [mutexList EXCEPT ![t] = mutexList[t] \ {m}]
        /\ scan' = WakeUp(m, 0)
    BY <1>5, Zenon DEF DropMutex
  <2>2. MutexTypes'
    BY <1>1, <1>2, <1>4, <2>1, Zenon DEF MutexTypes
  <2>3. scan' \in ScanType
    BY <2>1, <1>3 DEF WakeUp, ScanType
  <2>4. ASSUME NEW k \in Mutex
        PROVE  /\ count'[k] > 0 <=> owner'[k] # None
               /\ \A u \in Thread : k \in mutexList'[u] <=> owner'[k] = u
               /\ abandoned'[k] => count'[k] = 0
    <3>1. CASE k = m
      <4>1. count'[k] = 0 /\ owner'[k] = None
        BY <1>1, <1>2, <1>5, <2>1, <3>1 DEF MutexTypes
      <4>2. \A u \in Thread : u # t => k \notin mutexList[u]
        BY <1>1, <1>2, <3>1, Zenon DEF MutexConsistent
      <4>3. \A u \in Thread : k \notin mutexList'[u]
        BY <1>1, <2>1, <3>1, <4>2, Zenon DEF MutexTypes
      <4>4. ~(count'[k] > 0)
        BY <4>1
      <4> QED BY <4>1, <4>3, <4>4, <1>3, Zenon
    <3>2. CASE k # m
      <4>1. count'[k] = count[k] /\ owner'[k] = owner[k] /\ abandoned'[k] = abandoned[k]
        BY <1>1, <1>2, <2>1, <3>2, Zenon DEF MutexTypes
      <4>2. \A u \in Thread : k \in mutexList'[u] <=> k \in mutexList[u]
        BY <1>1, <2>1, <3>2, Zenon DEF MutexTypes
      <4>3. /\ count[k] > 0 <=> owner[k] # None
            /\ \A u \in Thread : k \in mutexList[u] <=> owner[k] = u
            /\ abandoned[k] => count[k] = 0
        BY <1>1, Zenon DEF MutexConsistent
      <4> QED BY <4>1, <4>2, <4>3, Zenon
    <3> QED BY <3>1, <3>2, Zenon
  <2> QED BY <2>2, <2>3, <2>4, Zenon DEF MutexConsistent
<1>6. CASE count[m] # 1
  <2>1. owner' = owner /\ mutexList' = mutexList /\ scan' = NoScan
    BY <1>6, Zenon DEF DropMutex
  <2>2. MutexTypes'
    BY <1>1, <1>2, <1>4, <2>1, Zenon DEF MutexTypes
  <2>3. scan' \in ScanType
    BY <2>1 DEF NoScan, ScanType
  <2>4. ASSUME NEW k \in Mutex
        PROVE  /\ count'[k] > 0 <=> owner'[k] # None
               /\ \A u \in Thread : k \in mutexList'[u] <=> owner'[k] = u
               /\ abandoned'[k] => count'[k] = 0
    <3>1. /\ count[k] > 0 <=> owner[k] # None
          /\ \A u \in Thread : k \in mutexList[u] <=> owner[k] = u
          /\ abandoned[k] => count[k] = 0
      BY <1>1 DEF MutexConsistent
    <3>2. count'[k] > 0 <=> count[k] > 0
      BY <1>1, <1>2, <1>6 DEF MutexTypes
    <3>3. abandoned[k] => k # m
      BY <3>1, <1>2
    <3>4. k # m => count'[k] = count[k]
      BY <1>1, <1>2, Zenon DEF MutexTypes
    <3> QED BY <3>1, <3>2, <3>3, <3>4, <2>1, <1>2, Zenon
  <2> QED BY <2>2, <2>3, <2>4 DEF MutexConsistent
<1> QED BY <1>5, <1>6, Zenon

\* release_semaphore within the limit.
LEMMA ReleaseCountTypes ==
  ASSUME IInv, NEW s \in Semaphore, NEW n \in Nat, ReleaseCount(s, n)
  PROVE  semCount' \in [Semaphore -> 0 .. WrapAt - 1] /\ scan' \in ScanType
<1>1. semCount \in [Semaphore -> 0 .. WrapAt - 1]
  BY Zenon DEF IInv, TypeOK
<1>2. WrapAt \in Nat /\ WrapAt > 0 /\ s \in Object
  BY WaitSyncAssumption DEF Object
<1>3. semCount[s] + n \in Nat
  BY <1>1, <1>2
<1>4. (semCount[s] + n) % WrapAt \in 0 .. WrapAt - 1
  BY <1>2, <1>3
<1>5. semCount' = [semCount EXCEPT ![s] = (semCount[s] + n) % WrapAt]
  BY Zenon DEF ReleaseCount
<1>6. semCount' \in [Semaphore -> 0 .. WrapAt - 1]
  BY <1>1, <1>4, <1>5, Zenon
<1>7. scan' \in {NoScan, WakeUp(s, n)}
  BY Zenon DEF ReleaseCount
<1>8. NoScan \in ScanType /\ WakeUp(s, n) \in ScanType
  BY <1>2 DEF NoScan, WakeUp, ScanType
<1> QED BY <1>6, <1>7, <1>8, Zenon

LEMMA ScanTypes ==
  /\ NoScan \in ScanType
  /\ \A o \in Object, n \in Nat : WakeUp(o, n) \in ScanType
  /\ \A t \in Thread : WakeThread(t) \in ScanType
BY DEF NoScan, WakeUp, WakeThread, ScanType

\* Variables that a step leaves alone.
LEMMA SameThread ==
  ASSUME ThreadTypes, ApcTypes, UNCHANGED threadVars
  PROVE  ThreadTypes' /\ ApcTypes'
BY Zenon DEF ThreadTypes, ApcTypes, threadVars

LEMMA SameRequester ==
  ASSUME ThreadTypes, ApcTypes, NEW t, NoThreadChange(t)
  PROVE  ThreadTypes' /\ ApcTypes'
BY Zenon DEF ThreadTypes, ApcTypes, NoThreadChange

\* A step that takes at most heads of the APC queues and leaves the timers alone
\* keeps what is known of them, unless it ends a kill_thread.
ApcFrame == /\ Popped /\ timer' = timer /\ state' = state
            /\ cont' = cont \/ cont.op \notin {"kill", "exit"}

LEMMA SameApc ==
  ASSUME ApcInv, ApcTypes, ApcFrame
  PROVE  ApcInv'
<1>1. TimerTypes'
  BY Zenon DEF ApcInv, TimerTypes, ApcFrame
<1>2. TimerApcOwned'
  <2>1. ASSUME NEW u \in Thread
        PROVE  /\ Distinct(userApc'[u])
               /\ \A i \in DOMAIN userApc'[u] :
                    userApc'[u][i] # None => timer'[userApc'[u][i]].thread = u
    <3>1. /\ userApc[u] \in ApcQueue /\ Distinct(userApc[u])
          /\ \A i \in DOMAIN userApc[u] : userApc[u][i] # None => timer[userApc[u][i]].thread = u
      BY OwnedQueue, Zenon DEF ApcInv, ApcTypes, ApcQueue
    <3>2. timer' = timer
      BY Zenon DEF ApcFrame
    <3>3. CASE userApc'[u] = userApc[u]
      BY <3>1, <3>2, <3>3, Zenon
    <3>4. CASE userApc[u] # <<>> /\ userApc'[u] = Tail(userApc[u])
      <4>1. Distinct(Tail(userApc[u])) /\ From(Tail(userApc[u]), userApc[u])
        BY <3>1, <3>4, TailQueue, Zenon
      <4> QED BY <3>1, <3>2, <3>4, <4>1 DEF From
    <3> QED BY <3>3, <3>4, Zenon DEF ApcFrame, Popped
  <2> QED BY <2>1, Zenon DEF TimerApcOwned, Distinct
<1>3. DeadNoApc'
  <2> SUFFICES ASSUME NEW u \in Thread, state'[u] = "TERMINATED",
                      ~(cont'.op \in {"kill", "exit"} /\ cont'.arg = u)
               PROVE  userApc'[u] = <<>>
    BY Zenon DEF DeadNoApc
  <2>1. state[u] = "TERMINATED" /\ ~(cont.op \in {"kill", "exit"} /\ cont.arg = u)
    BY Zenon DEF ApcFrame
  <2>2. userApc[u] = <<>>
    BY <2>1, Zenon DEF ApcInv, DeadNoApc
  <2> QED BY <2>2, Zenon DEF ApcFrame, Popped
<1> QED BY <1>1, <1>2, <1>3, Zenon DEF ApcInv

LEMMA FrameSame ==
  ASSUME userApc' = userApc, timer' = timer, state' = state,
         cont' = cont \/ cont.op \notin {"kill", "exit"}
  PROVE  ApcFrame
<1>1. Popped
  BY Zenon DEF Popped
<1> QED BY <1>1, Zenon DEF ApcFrame

LEMMA OwnedStep ==
  ASSUME \A u \in Thread :
           /\ Distinct(userApc'[u])
           /\ \A i \in DOMAIN userApc'[u] :
                userApc'[u][i] # None => timer'[userApc'[u][i]].thread = u
  PROVE  TimerApcOwned'
BY Zenon DEF TimerApcOwned, Distinct

LEMMA IdleCont ==
  ASSUME Idle
  PROVE  cont.op \notin {"kill", "exit"}
BY Zenon DEF Idle, NoCont

LEMMA SameWait ==
  ASSUME WaitTypes, UNCHANGED waitVars
  PROVE  WaitTypes'
BY Zenon DEF WaitTypes, waitVars

LEMMA SameReply ==
  ASSUME ReplyTypes, UNCHANGED reply
  PROVE  ReplyTypes'
BY Zenon DEF ReplyTypes

LEMMA SameObj ==
  ASSUME ObjTypes, UNCHANGED objVars
  PROVE  ObjTypes'
BY Zenon DEF ObjTypes, objVars

LEMMA SameMutex ==
  ASSUME MutexTypes, MutexConsistent, UNCHANGED mutexVars
  PROVE  MutexTypes' /\ MutexConsistent'
<1>1. MutexTypes'
  BY Zenon DEF MutexTypes, mutexVars
<1>2. MutexConsistent'
  BY Zenon DEF MutexConsistent, mutexVars
<1> QED BY <1>1, <1>2, Zenon

LEMMA SameJob ==
  ASSUME JobTypes, ContOK, UNCHANGED cont, scan' \in ScanType
  PROVE  JobTypes' /\ ContOK'
BY Zenon DEF JobTypes, ContOK

\* The invariant by groups, for the steps below.
LEMMA Have ==
  ASSUME IInv
  PROVE  /\ ThreadTypes /\ ApcTypes /\ WaitTypes /\ ReplyTypes /\ ObjTypes
         /\ MutexTypes /\ JobTypes /\ ContOK /\ MutexConsistent /\ ApcInv
BY TypeGroups, Zenon DEF IInv, ApcInv

\* The loops of uk_wake_up and wake_thread.
LEMMA ScanInv ==
  ASSUME IInv, ScanWake \/ ScanSkip \/ ScanAgain \/ ScanNext \/ ScanEnd
  PROVE  IInv'
<1>h. /\ ThreadTypes /\ ApcTypes /\ WaitTypes /\ ReplyTypes /\ ObjTypes
      /\ MutexTypes /\ JobTypes /\ ContOK /\ MutexConsistent /\ ApcInv /\ scan \in ScanType
  BY Have, Zenon DEF JobTypes
<1>q. ApcInv'
  <2>1. userApc' = userApc /\ timer' = timer /\ state' = state /\ cont' = cont
    BY Zenon DEF ScanWake, ScanSkip, ScanAgain, ScanNext, ScanEnd, threadVars
  <2> QED BY <1>h, <2>1, FrameSame, SameApc, Zenon
<1>1. CASE ScanWake
  <2>1. PICK t \in Thread : Wakeable(t) /\ Deliver(t) /\ scan' = [scan EXCEPT !.cur = t]
    BY <1>1, Zenon DEF ScanWake
  <2>2. WaitTypes' /\ ReplyTypes' /\ ObjTypes' /\ MutexTypes' /\ MutexConsistent'
    BY <2>1, DeliverInv, Zenon DEF Wakeable
  <2>3. scan' \in ScanType
    BY <1>h, <2>1, Zenon DEF ScanType
  <2>4. UNCHANGED threadVars /\ UNCHANGED cont
    BY <1>1, Zenon DEF ScanWake
  <2> QED BY <1>h, <1>q, <2>2, <2>3, <2>4, SameThread, SameJob, Groups, Zenon
<1>2. CASE ScanAgain
  <2>1. scan.cur \in Thread
    BY <1>2, <1>h, Zenon DEF ScanAgain, ScanType
  <2>2. WaitTypes' /\ ReplyTypes' /\ ObjTypes' /\ MutexTypes' /\ MutexConsistent'
    BY <1>2, <2>1, DeliverInv, Zenon DEF ScanAgain, Wakeable
  <2>3. UNCHANGED threadVars /\ UNCHANGED cont /\ scan' \in ScanType
    BY <1>2, <1>h, Zenon DEF ScanAgain
  <2> QED BY <1>h, <1>q, <2>2, <2>3, SameThread, SameJob, Groups, Zenon
<1>3. CASE ScanSkip \/ ScanNext \/ ScanEnd
  <2>1. /\ UNCHANGED threadVars /\ UNCHANGED waitVars /\ UNCHANGED reply
        /\ UNCHANGED objVars /\ UNCHANGED mutexVars /\ UNCHANGED cont
    BY <1>3, Zenon DEF ScanSkip, ScanNext, ScanEnd
  <2>2. scan' \in ScanType
    <3>1. CASE ScanSkip
      BY <3>1, <1>h DEF ScanSkip, ScanType
    <3>2. CASE ScanNext
      <4>1. \/ scan' = NoScan
            \/ scan' = [scan EXCEPT !.cur = None, !.pos = 1,
                                    !.max = IF scan.max = 0 THEN 0 ELSE scan.max - 1]
        BY <3>2, Zenon DEF ScanNext
      <4> DEFINE n == IF scan.max = 0 THEN 0 ELSE scan.max - 1
      <4>2. n \in Nat
        BY <1>h DEF ScanType
      <4>3. 1 \in Nat \ {0}
        OBVIOUS
      <4> HIDE DEF n
      <4>4. [scan EXCEPT !.cur = None, !.pos = 1, !.max = n] \in ScanType
        BY <1>h, <4>2, <4>3, Zenon DEF ScanType
      <4> QED BY <4>1, <4>4, ScanTypes, Zenon DEF n
    <3>3. CASE ScanEnd
      BY <3>3, ScanTypes, Zenon DEF ScanEnd
    <3> QED BY <1>3, <3>1, <3>2, <3>3, Zenon
  <2> QED BY <1>h, <1>q, <2>1, <2>2, SameThread, SameWait, SameReply, SameObj, SameMutex,
             SameJob, Groups, Zenon
<1> QED BY <1>1, <1>2, <1>3, Zenon

\* What a request does after its wake-ups.
LEMMA RestInv ==
  ASSUME IInv, \/ PulseEnd \/ SelectRest \/ TimerSignal \/ KillSignal \/ KillCleanup
               \/ \E m \in Mutex : KillAbandon(m)
  PROVE  IInv'
<1>h. /\ ThreadTypes /\ ApcTypes /\ WaitTypes /\ ReplyTypes /\ ObjTypes
      /\ MutexTypes /\ JobTypes /\ ContOK /\ MutexConsistent /\ ApcInv /\ scan \in ScanType
  BY Have, Zenon DEF JobTypes
<1>n. NoCont \in ContType /\ NoCont.op = "none"
  BY Zenon DEF NoCont, ContType
<1>1. CASE PulseEnd
  <2>1. /\ UNCHANGED threadVars /\ UNCHANGED waitVars /\ UNCHANGED reply
        /\ UNCHANGED mutexVars /\ scan' = scan /\ cont' = NoCont
        /\ semCount' = semCount /\ signaled' = [signaled EXCEPT ![cont.arg] = FALSE]
    BY <1>1, Zenon DEF PulseEnd
  <2>q. ApcInv'
    <3>1. userApc' = userApc /\ timer' = timer /\ state' = state /\ cont.op \notin {"kill", "exit"}
      BY <1>1, Zenon DEF PulseEnd, threadVars
    <3> QED BY <1>h, <3>1, FrameSame, SameApc, Zenon
  <2>2. ObjTypes'
    BY <1>h, <2>1, Zenon DEF ObjTypes
  <2>3. JobTypes' /\ ContOK'
    BY <1>h, <1>n, <2>1, Zenon DEF JobTypes, ContOK
  <2> QED BY <1>h, <2>1, <2>2, <2>3, <2>q, SameThread, SameWait, SameReply, SameMutex, Groups, Zenon
<1>2. CASE SelectRest
  <2> DEFINE t == cont.arg
             w == Head(waits[t])
             st == CheckWait(w, t)
  <2>1. t \in Thread
    BY <1>2, <1>h, Zenon DEF SelectRest, ContOK
  <2>2. /\ cont' = NoCont /\ scan' = scan
        /\ UNCHANGED <<state, suspend, sigusr1, late>>
    BY <1>2, Zenon DEF SelectRest
  <2>q. ASSUME Popped PROVE ApcInv'
    <3>1. timer' = timer /\ state' = state /\ cont.op \notin {"kill", "exit"}
      BY <1>2, Zenon DEF SelectRest
    <3> QED BY <1>h, <2>q, <3>1, SameApc, Zenon DEF ApcFrame
  <2>3. ThreadTypes' /\ JobTypes' /\ ContOK'
    BY <1>h, <1>n, <2>2, Zenon DEF ThreadTypes, JobTypes, ContOK
  <2>4. CASE waits[t] = <<>> /\ UNCHANGED <<sysApc, userApc, waitVars, reply, objVars, mutexVars>>
    <3>1. ApcTypes'
      BY <1>h, <2>4, Zenon DEF ApcTypes
    <3>2. Popped
      BY <2>4, Zenon DEF Popped
    <3> QED BY <1>h, <2>3, <2>4, <2>q, <3>1, <3>2, SameWait, SameReply, SameObj, SameMutex, Groups, Zenon
  <2>5. CASE waits[t] # <<>> /\ Deliver(t) /\ DequeueApc(t, w.alertable, st)
    <3>2. WaitTypes' /\ ReplyTypes' /\ ObjTypes' /\ MutexTypes' /\ MutexConsistent'
      BY <2>1, <2>5, DeliverInv, Zenon
    <3>3. ApcTypes' /\ Popped
      BY <1>h, <2>1, <2>5, DequeueApcTypes, Zenon
    <3> QED BY <2>3, <2>q, <3>2, <3>3, Groups, Zenon
  <2>6. CASE /\ waits[t] # <<>>
             /\ waits' = [waits EXCEPT ![t] = <<Armed(w)>> \o Tail(waits[t])]
             /\ UNCHANGED <<sysApc, userApc, queue, reply, objVars, mutexVars>>
    <3>1. w \in WaitType /\ waits[t] \in Seq(WaitType)
      BY <1>h, <2>1, <2>6, HeadType, Zenon DEF WaitTypes
    <3>2. Armed(w) \in WaitType
      BY <3>1, Zenon DEF Armed, WaitType
    <3>3. <<Armed(w)>> \o Tail(waits[t]) \in Seq(WaitType)
      BY <3>1, <3>2, <2>6
    <3>4. WaitTypes'
      BY <1>h, <2>6, <3>3, Zenon DEF WaitTypes
    <3>5. ApcTypes'
      BY <1>h, <2>6, Zenon DEF ApcTypes
    <3>6. Popped
      BY <2>6, Zenon DEF Popped
    <3> QED BY <1>h, <2>3, <2>6, <2>q, <3>4, <3>5, <3>6, SameReply, SameObj, SameMutex, Groups, Zenon
  <2> QED BY <1>2, <2>4, <2>5, <2>6, Zenon DEF SelectRest
<1>3. CASE KillSignal
  <2>1. cont.op = "kill" /\ cont.arg \in Thread
    BY <1>3, <1>h, Zenon DEF KillSignal, ContOK
  <2>2. /\ UNCHANGED threadVars /\ UNCHANGED waitVars /\ UNCHANGED reply
        /\ UNCHANGED objVars /\ UNCHANGED mutexVars
        /\ scan' = WakeUp(cont.arg, 0) /\ cont' = [cont EXCEPT !.op = "exit"]
    BY <1>3, Zenon DEF KillSignal
  <2>3. JobTypes'
    BY <1>h, <2>1, <2>2, ScanTypes, Zenon DEF JobTypes, Object, ContType
  <2>4. ContOK'
    BY <1>h, <2>1, <2>2, Zenon DEF JobTypes, ContOK, ContType
  <2>5. userApc' = userApc /\ timer' = timer /\ state' = state
    BY <1>3, Zenon DEF KillSignal, threadVars
  <2>6. cont.op = "kill" /\ cont'.op = "exit" /\ cont'.arg = cont.arg
    BY <1>h, <2>1, <2>2, Zenon DEF JobTypes, ContType
  <2>7. DeadNoApc'
    BY <1>h, <2>5, <2>6, Zenon DEF ApcInv, DeadNoApc
  <2>8. TimerTypes' /\ TimerApcOwned'
    BY <1>h, <2>5, Zenon DEF ApcInv, TimerTypes, TimerApcOwned
  <2>q. ApcInv'
    BY <2>7, <2>8, Zenon DEF ApcInv
  <2> QED BY <1>h, <2>2, <2>3, <2>4, <2>q, SameThread, SameWait, SameReply, SameObj, SameMutex,
             Groups, Zenon
<1>4. CASE KillCleanup
  <2>1. /\ UNCHANGED <<state, suspend, sigusr1, late>> /\ UNCHANGED waitVars
        /\ UNCHANGED reply /\ UNCHANGED objVars /\ UNCHANGED mutexVars
        /\ scan' = scan /\ cont' = NoCont
        /\ sysApc' = [sysApc EXCEPT ![cont.arg] = 0]
        /\ userApc' = [userApc EXCEPT ![cont.arg] = <<>>] /\ timer' = timer
    BY <1>4, Zenon DEF KillCleanup
  <2>2. 0 \in 0 .. MaxApc
    BY WaitSyncAssumption
  <2>3. ThreadTypes' /\ JobTypes' /\ ContOK'
    BY <1>h, <1>n, <2>1, Zenon DEF ThreadTypes, JobTypes, ContOK
  <2>4. ApcTypes'
    <3>1. sysApc' \in [Thread -> 0 .. MaxApc]
      BY <1>h, <2>1, <2>2, Zenon DEF ApcTypes
    <3>2. userApc' \in [Thread -> ApcQueue]
      <4>1. userApc \in [Thread -> ApcQueue] /\ <<>> \in ApcQueue
        BY <1>h DEF ApcTypes, ApcQueue
      <4> HIDE DEF ApcQueue
      <4> QED BY <2>1, <4>1, Zenon
    <3> QED BY <3>1, <3>2, Zenon DEF ApcTypes, ApcQueue
  <2>5. /\ cont.arg \in Thread /\ state' = state
        /\ \A u \in Thread : userApc'[u] = IF u = cont.arg THEN <<>> ELSE userApc[u]
    BY <1>4, <1>h, <2>1, Zenon DEF KillCleanup, ContOK, ApcTypes
  <2>6. TimerApcOwned'
    BY <1>h, <2>1, <2>5 DEF ApcInv, TimerApcOwned
  <2>7. DeadNoApc'
    BY <1>h, <2>5, Zenon DEF ApcInv, DeadNoApc
  <2>8. TimerTypes'
    BY <1>h, <2>1, Zenon DEF ApcInv, TimerTypes
  <2>q. ApcInv'
    BY <2>6, <2>7, <2>8, Zenon DEF ApcInv
  <2> QED BY <1>h, <2>1, <2>3, <2>4, <2>q, SameWait, SameReply, SameObj, SameMutex, Groups, Zenon
<1>5. ASSUME NEW m \in Mutex, KillAbandon(m) PROVE IInv'
  <2>1. cont.arg \in Thread /\ m \in mutexList[cont.arg] /\ m \in Object /\ None \notin Thread
    BY <1>5, <1>h, WaitSyncAssumption, Zenon DEF KillAbandon, ContOK, Object
  <2>2. /\ count' = [count EXCEPT ![m] = 0]
        /\ abandoned' = [abandoned EXCEPT ![m] = TRUE]
        /\ owner' = [owner EXCEPT ![m] = None]
        /\ mutexList' = [mutexList EXCEPT ![cont.arg] = mutexList[cont.arg] \ {m}]
        /\ scan' = WakeUp(m, 0) /\ cont' = cont
        /\ UNCHANGED threadVars /\ UNCHANGED waitVars /\ UNCHANGED reply /\ UNCHANGED objVars
    BY <1>5, Zenon DEF KillAbandon
  <2>3. MutexTypes'
    BY <1>h, <2>2, Zenon DEF MutexTypes
  <2>4. ASSUME NEW k \in Mutex
        PROVE  /\ count'[k] > 0 <=> owner'[k] # None
               /\ \A u \in Thread : k \in mutexList'[u] <=> owner'[k] = u
               /\ abandoned'[k] => count'[k] = 0
    <3>0. /\ count[k] > 0 <=> owner[k] # None
          /\ \A u \in Thread : k \in mutexList[u] <=> owner[k] = u
          /\ abandoned[k] => count[k] = 0
      BY <1>h, Zenon DEF MutexConsistent
    <3>1. CASE k = m
      <4>1. count'[k] = 0 /\ owner'[k] = None /\ ~(count'[k] > 0)
        BY <1>h, <2>2, <3>1 DEF MutexTypes
      <4>2. owner[k] = cont.arg
        BY <2>1, <3>0, <3>1, Zenon
      <4>3. \A u \in Thread : k \notin mutexList'[u]
        BY <1>h, <2>1, <2>2, <3>0, <3>1, <4>2, Zenon DEF MutexTypes
      <4> QED BY <4>1, <4>3, <2>1, Zenon
    <3>2. CASE k # m
      <4>1. count'[k] = count[k] /\ owner'[k] = owner[k] /\ abandoned'[k] = abandoned[k]
        BY <1>h, <2>2, <3>2, Zenon DEF MutexTypes
      <4>2. \A u \in Thread : k \in mutexList'[u] <=> k \in mutexList[u]
        BY <1>h, <2>1, <2>2, <3>2, Zenon DEF MutexTypes
      <4> QED BY <3>0, <4>1, <4>2, Zenon
    <3> QED BY <3>1, <3>2, Zenon
  <2>5. MutexConsistent'
    BY <2>4, Zenon DEF MutexConsistent
  <2>6. scan' \in ScanType
    BY <2>1, <2>2, ScanTypes, Zenon
  <2>q. ApcInv'
    <3>1. userApc' = userApc /\ timer' = timer /\ state' = state /\ cont' = cont
      BY <1>5, Zenon DEF KillAbandon, threadVars
    <3> QED BY <1>h, <3>1, FrameSame, SameApc, Zenon
  <2> QED BY <1>h, <2>2, <2>3, <2>5, <2>6, <2>q, SameThread, SameWait, SameReply, SameObj,
             SameJob, Groups, Zenon
<1>6. CASE TimerSignal
  <2> DEFINE x == cont.arg
  <2>1. /\ UNCHANGED threadVars /\ UNCHANGED waitVars /\ UNCHANGED reply
        /\ UNCHANGED mutexVars /\ semCount' = semCount /\ cont' = NoCont
        /\ timer' = [timer EXCEPT ![x].armed = timer[x].period]
        /\ signaled' = [signaled EXCEPT ![x] = TRUE] /\ scan' = WakeUp(x, 0)
        /\ cont.op = "timer"
    BY <1>6, Zenon DEF TimerSignal
  <2>2. x \in Timer /\ x \in Object
    BY <1>h, <2>1, Zenon DEF ContOK, Object
  <2>3. ObjTypes'
    BY <1>h, <2>1, Zenon DEF ObjTypes
  <2>4. JobTypes' /\ ContOK'
    <3>1. scan' \in ScanType
      BY <2>1, <2>2, ScanTypes, Zenon
    <3> QED BY <1>n, <2>1, <3>1, Zenon DEF JobTypes, ContOK
  <2>5. TimerTypes' /\ \A y \in Timer : timer'[y].thread = timer[y].thread
    BY <1>h, <2>1, <2>2, Zenon DEF ApcInv, TimerTypes
  <2>6. userApc' = userApc /\ state' = state
    BY <2>1, Zenon DEF threadVars
  <2>7. TimerApcOwned'
    <3>1. ASSUME NEW u \in Thread, NEW i \in DOMAIN userApc[u] PROVE userApc[u][i] \in Timer \cup {None}
      BY <1>h DEF ApcTypes
    <3> QED BY <1>h, <2>5, <2>6, <3>1 DEF ApcInv, TimerApcOwned
  <2>8. DeadNoApc'
    BY <1>h, <2>1, <2>6, Zenon DEF ApcInv, DeadNoApc
  <2>q. ApcInv'
    BY <2>5, <2>7, <2>8, Zenon DEF ApcInv
  <2> QED BY <1>h, <2>1, <2>3, <2>4, <2>q, SameThread, SameWait, SameReply, SameMutex, Groups, Zenon
<1> QED BY <1>1, <1>2, <1>3, <1>4, <1>5, <1>6, Zenon

\* The requests on events, semaphores and mutexes.
LEMMA ObjectRequestInv ==
  ASSUME IInv, NEW t \in Thread,
         \/ \E e \in Event : SetEvent(t, e) \/ PulseEvent(t, e) \/ ResetEvent(t, e)
         \/ \E s \in Semaphore, n \in Counts : ReleaseSemaphore(t, s, n)
         \/ \E m \in Mutex : ReleaseMutex(t, m)
  PROVE  IInv'
<1>h. /\ ThreadTypes /\ ApcTypes /\ WaitTypes /\ ReplyTypes /\ ObjTypes
      /\ MutexTypes /\ JobTypes /\ ContOK /\ MutexConsistent /\ ApcInv /\ scan \in ScanType
  BY Have, Zenon DEF JobTypes
<1>q. ApcInv'
  <2>1. Idle
    BY Zenon DEF SetEvent, PulseEvent, ResetEvent, ReleaseSemaphore, ReleaseMutex, Request
  <2>2. userApc' = userApc /\ timer' = timer /\ state' = state
    BY Zenon DEF SetEvent, PulseEvent, ResetEvent, ReleaseSemaphore, ReleaseMutex, NoThreadChange
  <2> QED BY <1>h, <2>1, <2>2, IdleCont, FrameSame, SameApc, Zenon
<1>1. ASSUME NEW e \in Event, SetEvent(t, e) \/ PulseEvent(t, e) \/ ResetEvent(t, e)
      PROVE  IInv'
  <2>1. /\ NoThreadChange(t) /\ UNCHANGED waitVars /\ UNCHANGED reply
        /\ UNCHANGED mutexVars /\ semCount' = semCount
    BY <1>1, Zenon DEF SetEvent, PulseEvent, ResetEvent
  <2>2. \/ signaled' = [signaled EXCEPT ![e] = TRUE]
        \/ signaled' = [signaled EXCEPT ![e] = FALSE]
    BY <1>1, Zenon DEF SetEvent, PulseEvent, ResetEvent
  <2>3. ObjTypes'
    BY <1>h, <2>1, <2>2, Zenon DEF ObjTypes
  <2>4. scan' \in {scan, WakeUp(e, 0), WakeUp(e, 1)}
    BY <1>1, Zenon DEF SetEvent, PulseEvent, ResetEvent, jobVars
  <2>5. scan' \in ScanType
    BY <1>h, <2>4, ScanTypes, Zenon DEF Object
  <2>6. cont' = cont \/ cont' = [op |-> "pulse", arg |-> e]
    BY <1>1, Zenon DEF SetEvent, PulseEvent, ResetEvent, jobVars
  <2>7. JobTypes' /\ ContOK'
    BY <1>h, <2>5, <2>6 DEF JobTypes, ContOK, ContType, Object
  <2> QED BY <1>h, <1>q, <2>1, <2>3, <2>7, SameRequester, SameWait, SameReply, SameMutex, Groups, Zenon
<1>2. ASSUME NEW s \in Semaphore, NEW n \in Counts, ReleaseSemaphore(t, s, n)
      PROVE  IInv'
  <2>1. /\ NoThreadChange(t) /\ UNCHANGED waitVars /\ UNCHANGED reply
        /\ UNCHANGED mutexVars /\ signaled' = signaled /\ cont' = cont
        /\ ReleaseCount(s, n)
    BY <1>2, Zenon DEF ReleaseSemaphore
  <2>2. n \in Nat
    <3>1. Counts \subseteq 1 .. WrapAt - 1 /\ WrapAt \in Nat
      BY WaitSyncAssumption, Zenon
    <3>2. n \in 1 .. WrapAt - 1
      BY <3>1, Zenon
    <3> QED BY <3>1, <3>2
  <2>3. semCount' \in [Semaphore -> 0 .. WrapAt - 1] /\ scan' \in ScanType
    BY <2>1, <2>2, ReleaseCountTypes, Zenon
  <2>4. ObjTypes'
    BY <1>h, <2>1, <2>3, Zenon DEF ObjTypes
  <2> QED BY <1>h, <1>q, <2>1, <2>3, <2>4, SameRequester, SameWait, SameReply, SameMutex,
             SameJob, Groups, Zenon
<1>3. ASSUME NEW m \in Mutex, ReleaseMutex(t, m)
      PROVE  IInv'
  <2>1. /\ NoThreadChange(t) /\ UNCHANGED waitVars /\ UNCHANGED reply
        /\ UNCHANGED objVars /\ cont' = cont /\ DropMutex(t, m)
    BY <1>3, Zenon DEF ReleaseMutex
  <2>2. MutexTypes' /\ MutexConsistent' /\ scan' \in ScanType
    BY <2>1, DropMutexInv, Zenon
  <2> QED BY <1>h, <1>q, <2>1, <2>2, SameRequester, SameWait, SameReply, SameObj, SameJob, Groups, Zenon
<1> QED BY <1>1, <1>2, <1>3, Zenon

LEMMA WaitOfType ==
  ASSUME NEW sel \in Selects
  PROVE  WaitOf(sel) \in WaitType
<1>1. sel \in SelectType
  BY WaitSyncAssumption, Zenon
<1> QED BY <1>1, Zenon DEF SelectType, WaitOf, WaitType

\* select_on, with and without an object to signal, and wait_suspend.
LEMMA SelectInv ==
  ASSUME IInv, NEW t \in Thread,
         \/ SignalHandler(t)
         \/ \E sel \in Selects : Select(t, sel) \/ SignalAndWait(t, sel)
  PROVE  IInv'
<1>h. /\ ThreadTypes /\ ApcTypes /\ WaitTypes /\ ReplyTypes /\ ObjTypes
      /\ MutexTypes /\ JobTypes /\ ContOK /\ MutexConsistent /\ ApcInv /\ scan \in ScanType
  BY Have, Zenon DEF JobTypes
<1>1. ASSUME NEW sel \in Selects, Select(t, sel) PROVE IInv'
  <2>1. /\ SelectOn(t, WaitOf(sel)) /\ late' = [late EXCEPT ![t] = FALSE]
        /\ UNCHANGED <<state, suspend, sigusr1>> /\ UNCHANGED jobVars /\ timer' = timer
    BY <1>1, Zenon DEF Select
  <2>2. /\ ApcTypes' /\ WaitTypes' /\ ReplyTypes' /\ ObjTypes' /\ MutexTypes'
        /\ MutexConsistent' /\ Popped
    BY <2>1, WaitOfType, SelectOnInv, Zenon
  <2>3. ThreadTypes' /\ JobTypes' /\ ContOK'
    BY <1>h, <2>1, Zenon DEF ThreadTypes, JobTypes, ContOK, jobVars
  <2>q. ApcInv'
    BY <1>h, <2>1, <2>2, SameApc, Zenon DEF ApcFrame, jobVars
  <2> QED BY <2>2, <2>3, <2>q, Groups, Zenon
<1>2. CASE SignalHandler(t)
  <2>1. /\ SelectOn(t, HandlerWait) /\ sigusr1' = [sigusr1 EXCEPT ![t] = FALSE]
        /\ UNCHANGED <<state, suspend, late>> /\ UNCHANGED jobVars /\ timer' = timer
    BY <1>2, Zenon DEF SignalHandler
  <2>2. HandlerWait \in WaitType
    BY DEF HandlerWait, WaitType
  <2>3. /\ ApcTypes' /\ WaitTypes' /\ ReplyTypes' /\ ObjTypes' /\ MutexTypes'
        /\ MutexConsistent' /\ Popped
    BY <2>1, <2>2, SelectOnInv, Zenon
  <2>4. ThreadTypes' /\ JobTypes' /\ ContOK'
    BY <1>h, <2>1, Zenon DEF ThreadTypes, JobTypes, ContOK, jobVars
  <2>q. ApcInv'
    BY <1>h, <2>1, <2>3, SameApc, Zenon DEF ApcFrame, jobVars
  <2> QED BY <2>3, <2>4, <2>q, Groups, Zenon
<1>3. ASSUME NEW sel \in Selects, SignalAndWait(t, sel) PROVE IInv'
  <2>1. /\ WaitOn(t, WaitOf(sel)) /\ SignalObject(t, sel.signal)
        /\ cont' = [op |-> "select", arg |-> t] /\ NoThreadChange(t) /\ UNCHANGED reply
        /\ timer' = timer /\ Idle
    BY <1>3, Zenon DEF SignalAndWait, Request
  <2>q. ApcInv'
    <3>1. userApc' = userApc /\ state' = state
      BY <2>1, Zenon DEF NoThreadChange
    <3> QED BY <1>h, <2>1, <3>1, IdleCont, FrameSame, SameApc, Zenon
  <2>2. WaitTypes'
    BY <1>h, <2>1, WaitOfType, WaitOnTypes, Zenon
  <2>3. ContOK' /\ cont' \in ContType
    BY <2>1, Zenon DEF ContOK, ContType, Object
  <2>4. ObjTypes' /\ MutexTypes' /\ MutexConsistent' /\ scan' \in ScanType
    <3> DEFINE o == sel.signal
    <3>1. CASE /\ o \in Event /\ signaled' = [signaled EXCEPT ![o] = TRUE]
               /\ scan' = WakeUp(o, IF o \in ManualReset THEN 0 ELSE 1)
               /\ UNCHANGED <<semCount, mutexVars>>
      <4>1. ObjTypes'
        BY <1>h, <3>1, Zenon DEF ObjTypes
      <4>2. scan' \in ScanType
        BY <3>1, ScanTypes, Zenon DEF Object
      <4> QED BY <1>h, <3>1, <4>1, <4>2, SameMutex, Zenon
    <3>2. CASE o \in Semaphore /\ ReleaseCount(o, 1) /\ UNCHANGED <<signaled, mutexVars>>
      <4>1. semCount' \in [Semaphore -> 0 .. WrapAt - 1] /\ scan' \in ScanType
        BY <3>2, ReleaseCountTypes, Zenon
      <4>2. ObjTypes'
        BY <1>h, <3>2, <4>1, Zenon DEF ObjTypes
      <4> QED BY <1>h, <3>2, <4>1, <4>2, SameMutex, Zenon
    <3>3. CASE o \in Mutex /\ DropMutex(t, o) /\ UNCHANGED objVars
      BY <1>h, <3>3, DropMutexInv, SameObj, Zenon
    <3> QED BY <2>1, <3>1, <3>2, <3>3, Zenon DEF SignalObject
  <2>5. JobTypes'
    BY <2>3, <2>4, Zenon DEF JobTypes, ContType
  <2> QED BY <1>h, <2>1, <2>2, <2>3, <2>4, <2>5, <2>q, SameRequester, SameReply, Groups, Zenon
<1> QED BY <1>1, <1>2, <1>3, Zenon

\* Suspension, APCs and termination.
LEMMA ThreadRequestInv ==
  ASSUME IInv, NEW t \in Thread, NEW u \in Thread,
         \/ SuspendThread(t, u) \/ ResumeThread(t, u)
         \/ QueueUserApc(t, u) \/ QueueSystemApc(t, u)
  PROVE  IInv'
<1>h. /\ ThreadTypes /\ ApcTypes /\ WaitTypes /\ ReplyTypes /\ ObjTypes
      /\ MutexTypes /\ JobTypes /\ ContOK /\ MutexConsistent /\ ApcInv /\ scan \in ScanType
  BY Have, Zenon DEF JobTypes
<1>m. MaxSuspend \in Nat /\ MaxApc \in Nat
  BY WaitSyncAssumption, Zenon
<1>u. /\ UNCHANGED waitVars /\ UNCHANGED reply /\ UNCHANGED objVars /\ UNCHANGED mutexVars
      /\ cont' = cont /\ state' = state /\ late' = [late EXCEPT ![t] = FALSE]
      /\ scan' \in {scan, NoScan, WakeThread(u)}
  BY Zenon DEF SuspendThread, ResumeThread, QueueUserApc, QueueSystemApc, jobVars
<1>s. scan' \in ScanType
  BY <1>h, <1>u, ScanTypes, Zenon
<1>g. sigusr1' \in [Thread -> BOOLEAN]
  BY <1>h, Zenon DEF SuspendThread, ResumeThread, QueueUserApc, QueueSystemApc, ThreadTypes
<1>q. ASSUME ~QueueUserApc(t, u) PROVE ApcInv'
  <2>1. userApc' = userApc /\ timer' = timer
    BY <1>q, Zenon DEF SuspendThread, ResumeThread, QueueSystemApc
  <2> QED BY <1>h, <1>u, <2>1, FrameSame, SameApc, Zenon
<1>1. CASE SuspendThread(t, u) /\ ~QueueUserApc(t, u)
  <2>1. /\ suspend[u] < MaxSuspend /\ sysApc' = sysApc /\ userApc' = userApc
        /\ suspend' = [suspend EXCEPT ![u] = suspend[u] + 1]
    BY <1>1, Zenon DEF SuspendThread
  <2>2. suspend[u] + 1 \in 0 .. MaxSuspend
    BY <1>h, <1>m, <2>1 DEF ThreadTypes
  <2>3. ThreadTypes'
    BY <1>h, <1>u, <1>g, <2>1, <2>2, Zenon DEF ThreadTypes
  <2>4. ApcTypes'
    BY <1>h, <2>1, Zenon DEF ApcTypes
  <2> QED BY <1>h, <1>q, <1>u, <1>s, <1>1, <2>3, <2>4, SameWait, SameReply, SameObj, SameMutex, SameJob,
             Groups, Zenon
<1>2. CASE ResumeThread(t, u) /\ ~QueueUserApc(t, u)
  <2>1. /\ suspend[u] > 0 /\ sysApc' = sysApc /\ userApc' = userApc
        /\ suspend' = [suspend EXCEPT ![u] = suspend[u] - 1]
    BY <1>2, Zenon DEF ResumeThread
  <2>2. suspend[u] - 1 \in 0 .. MaxSuspend
    BY <1>h, <1>m, <2>1 DEF ThreadTypes
  <2>3. ThreadTypes'
    BY <1>h, <1>u, <1>g, <2>1, <2>2, Zenon DEF ThreadTypes
  <2>4. ApcTypes'
    BY <1>h, <2>1, Zenon DEF ApcTypes
  <2> QED BY <1>h, <1>q, <1>u, <1>s, <1>2, <2>3, <2>4, SameWait, SameReply, SameObj, SameMutex, SameJob,
             Groups, Zenon
<1>3. CASE QueueUserApc(t, u)
  <2>1. /\ sysApc' = sysApc /\ suspend' = suspend /\ timer' = timer /\ state[u] = "RUNNING"
        /\ userApc' = [userApc EXCEPT ![u] = Append(userApc[u], None)]
    BY <1>3, Zenon DEF QueueUserApc
  <2>2. userApc[u] \in ApcQueue /\ TimerApcOwned /\ Distinct(userApc[u])
    BY <1>h, OwnedQueue, Zenon DEF ApcTypes, ApcInv, ApcQueue
  <2> DEFINE a == Append(userApc[u], None)
  <2>3. /\ a \in ApcQueue /\ Distinct(a)
        /\ \A i \in DOMAIN a : a[i] = None \/ \E j \in DOMAIN userApc[u] : a[i] = userApc[u][j]
    BY <2>2, AppendQueue
  <2> HIDE DEF a
  <2>4. \A v \in Thread : userApc'[v] = IF v = u THEN a ELSE userApc[v]
    BY <1>h, <2>1, Zenon DEF ApcTypes, a
  <2>5. ThreadTypes'
    BY <1>h, <1>u, <1>g, <2>1, Zenon DEF ThreadTypes
  <2>6. ApcTypes'
    <3>1. userApc' = [userApc EXCEPT ![u] = a]
      BY <2>1, Zenon DEF a
    <3> QED BY <1>h, <2>1, <2>3, <3>1, Zenon DEF ApcTypes, ApcQueue
  <2>7. TimerApcOwned'
    <3>1. ASSUME NEW v \in Thread
          PROVE  /\ Distinct(userApc'[v])
                 /\ \A i \in DOMAIN userApc'[v] :
                      userApc'[v][i] # None => timer'[userApc'[v][i]].thread = v
      <4>1. /\ Distinct(userApc[v])
            /\ \A i \in DOMAIN userApc[v] : userApc[v][i] # None => timer[userApc[v][i]].thread = v
        BY <2>2, OwnedQueue, Zenon
      <4> QED BY <2>1, <2>3, <2>4, <4>1
    <3> QED BY <3>1, OwnedStep, Zenon
  <2>8. DeadNoApc'
    BY <1>h, <1>u, <2>1, <2>4, Zenon DEF ApcInv, DeadNoApc
  <2>9. ApcInv'
    BY <1>h, <2>1, <2>7, <2>8, Zenon DEF ApcInv, TimerTypes
  <2> QED BY <1>h, <1>u, <1>s, <2>5, <2>6, <2>9, SameWait, SameReply, SameObj, SameMutex,
             SameJob, Groups, Zenon
<1>4. CASE QueueSystemApc(t, u) /\ ~QueueUserApc(t, u)
  <2>1. /\ sysApc[u] < MaxApc /\ userApc' = userApc /\ suspend' = suspend
        /\ sysApc' = [sysApc EXCEPT ![u] = sysApc[u] + 1]
    BY <1>4, Zenon DEF QueueSystemApc
  <2>2. sysApc[u] + 1 \in 0 .. MaxApc
    BY <1>h, <1>m, <2>1 DEF ApcTypes
  <2>3. ThreadTypes'
    BY <1>h, <1>u, <1>g, <2>1, Zenon DEF ThreadTypes
  <2>4. ApcTypes'
    BY <1>h, <2>1, <2>2, Zenon DEF ApcTypes
  <2> QED BY <1>h, <1>q, <1>u, <1>s, <1>4, <2>3, <2>4, SameWait, SameReply, SameObj, SameMutex, SameJob,
             Groups, Zenon
<1> QED BY <1>1, <1>2, <1>3, <1>4, Zenon

LEMMA KillInv ==
  ASSUME IInv, NEW t \in Thread,
         \/ ExitThread(t)
         \/ \E u \in Thread, inside \in {FALSE, Smp} : TerminateThread(t, u, inside)
  PROVE  IInv'
<1>h. /\ ThreadTypes /\ ApcTypes /\ WaitTypes /\ ReplyTypes /\ ObjTypes
      /\ MutexTypes /\ JobTypes /\ ContOK /\ MutexConsistent /\ ApcInv /\ scan \in ScanType
  BY Have, Zenon DEF JobTypes
<1>1. PICK u \in Thread : \E inside \in {FALSE, Smp} : Kill(u, inside)
  BY Zenon DEF ExitThread, TerminateThread
<1>2. /\ UNCHANGED <<suspend, sysApc, userApc, sigusr1>> /\ UNCHANGED objVars
      /\ UNCHANGED mutexVars /\ scan' = scan
  BY Zenon DEF ExitThread, TerminateThread
<1>3. late' \in [Thread -> BOOLEAN]
  <2>1. {FALSE, Smp} \subseteq BOOLEAN
    BY WaitSyncAssumption, Zenon
  <2> QED BY <1>h, <2>1, Zenon DEF ExitThread, TerminateThread, ThreadTypes
<1>4. /\ state' = [state EXCEPT ![u] = "TERMINATED"]
      /\ waits' = [waits EXCEPT ![u] = <<>>]
      /\ DOMAIN queue' = Object
      /\ reply' = [reply EXCEPT ![u] = IF waits[u] # <<>> THEN "killed" ELSE reply[u]]
      /\ cont' = [op |-> "kill", arg |-> u]
  BY <1>1, Zenon DEF Kill
<1>q. ApcInv'
  <2>1. /\ userApc' = userApc /\ timer' = timer
        /\ cont.op \notin {"kill", "exit"}
    BY <1>2, IdleCont, Zenon DEF ExitThread, TerminateThread, Request
  <2>2. \A v \in Thread : v # u => state'[v] = state[v]
    BY <1>h, <1>4, Zenon DEF ThreadTypes
  <2>3. DeadNoApc'
    BY <1>h, <1>4, <2>1, <2>2, Zenon DEF ApcInv, DeadNoApc
  <2>4. TimerTypes' /\ TimerApcOwned'
    BY <1>h, <2>1 DEF ApcInv, TimerTypes, TimerApcOwned
  <2> QED BY <2>3, <2>4, Zenon DEF ApcInv
<1>5. ThreadTypes' /\ ApcTypes'
  BY <1>h, <1>2, <1>3, <1>4, Zenon DEF ThreadTypes, ApcTypes
<1>6. WaitTypes'
  <2>1. waits' = [waits EXCEPT ![u] = <<>>] /\ DOMAIN queue' = Object
    BY <1>4, Zenon
  <2>2. waits \in [Thread -> Seq(WaitType)] /\ <<>> \in Seq(WaitType)
    BY <1>h DEF WaitTypes
  <2>3. waits' \in [Thread -> Seq(WaitType)]
    BY <2>1, <2>2, Zenon
  <2> QED BY <2>1, <2>3, Zenon DEF WaitTypes
<1>7. ReplyTypes'
  BY <1>h, <1>4, Zenon DEF ReplyTypes, Status
<1>8. JobTypes' /\ ContOK'
  BY <1>h, <1>2, <1>4, Zenon DEF JobTypes, ContOK, ContType, Object
<1> QED BY <1>h, <1>2, <1>5, <1>6, <1>7, <1>8, <1>q, SameObj, SameMutex, Groups, Zenon

\* Replacing an entry of a stack of waits.
LEMMA ReplaceWait ==
  ASSUME NEW s \in Seq(WaitType), NEW i \in DOMAIN s, NEW e \in WaitType
  PROVE  [s EXCEPT ![i] = e] \in Seq(WaitType)
<1>1. i \in 1 .. Len(s)
  OBVIOUS
<1> QED BY <1>1, ExceptSeq, Zenon

LEMMA TimeInv ==
  ASSUME IInv, NEW t \in Thread, NEW i \in 1 .. 2, Expire(t, i) \/ ThreadTimeout(t, i)
  PROVE  IInv'
<1>h. /\ ThreadTypes /\ ApcTypes /\ WaitTypes /\ ReplyTypes /\ ObjTypes
      /\ MutexTypes /\ JobTypes /\ ContOK /\ MutexConsistent /\ ApcInv /\ scan \in ScanType
  BY Have, Zenon DEF JobTypes
<1>w. waits[t] \in Seq(WaitType)
  BY <1>h, Zenon DEF WaitTypes
<1>q. ApcInv'
  <2>1. userApc' = userApc /\ timer' = timer /\ state' = state /\ cont' = cont
    BY Zenon DEF Expire, ThreadTimeout, threadVars, jobVars
  <2> QED BY <1>h, <2>1, FrameSame, SameApc, Zenon
<1>1. CASE Expire(t, i)
  <2>1. /\ i \in DOMAIN waits[t]
        /\ waits' = [waits EXCEPT ![t] = [waits[t] EXCEPT ![i] = [waits[t][i] EXCEPT !.timeout = "past"]]]
        /\ UNCHANGED threadVars /\ queue' = queue /\ UNCHANGED reply /\ UNCHANGED objVars
        /\ UNCHANGED mutexVars /\ scan' = scan /\ cont' = cont
    BY <1>1, Zenon DEF Expire, jobVars
  <2>0. waits[t][i] \in WaitType
    BY <1>w, <2>1, ElementOfSeq
  <2>2. [waits[t][i] EXCEPT !.timeout = "past"] \in WaitType
    BY <2>0, Zenon DEF WaitType
  <2>3. [waits[t] EXCEPT ![i] = [waits[t][i] EXCEPT !.timeout = "past"]] \in Seq(WaitType)
    BY <1>w, <2>1, <2>2, ReplaceWait, Zenon
  <2>4. WaitTypes'
    BY <1>h, <2>1, <2>3, Zenon DEF WaitTypes
  <2> QED BY <1>h, <1>q, <2>1, <2>4, SameThread, SameReply, SameObj, SameMutex, SameJob, Groups, Zenon
<1>2. CASE ThreadTimeout(t, i)
  <2>1. /\ i \in DOMAIN waits[t] /\ UNCHANGED threadVars /\ UNCHANGED objVars
        /\ UNCHANGED mutexVars /\ cont' = cont
    BY <1>2, Zenon DEF ThreadTimeout
  <2>2. CASE /\ EndWait({t}) /\ reply' = [reply EXCEPT ![t] = "timeout"]
             /\ scan' = WakeThread(t)
    <3>1. waits[t] # <<>>
      BY <1>w, <2>1
    <3>2. WaitTypes'
      <4>1. \A u \in {t} : waits[u] # <<>>
        BY <3>1, Zenon
      <4> QED BY <1>h, <2>2, <4>1, EndWaitTypes, Zenon
    <3>3. ReplyTypes'
      BY <1>h, <2>2, Zenon DEF ReplyTypes, Status
    <3>4. scan' \in ScanType
      BY <2>2, ScanTypes, Zenon
    <3> QED BY <1>h, <1>q, <2>1, <3>2, <3>3, <3>4, SameThread, SameObj, SameMutex, SameJob, Groups, Zenon
  <2>3. CASE /\ waits' = [waits EXCEPT ![t] = [waits[t] EXCEPT ![i] = [waits[t][i] EXCEPT !.armed = FALSE]]]
             /\ queue' = queue /\ reply' = reply /\ scan' = scan
    <3>0. waits[t][i] \in WaitType
      BY <1>w, <2>1, ElementOfSeq
    <3>1. [waits[t][i] EXCEPT !.armed = FALSE] \in WaitType
      BY <3>0, Zenon DEF WaitType
    <3>2. [waits[t] EXCEPT ![i] = [waits[t][i] EXCEPT !.armed = FALSE]] \in Seq(WaitType)
      BY <1>w, <2>1, <3>1, ReplaceWait, Zenon
    <3>3. WaitTypes'
      BY <1>h, <2>3, <3>2, Zenon DEF WaitTypes
    <3> QED BY <1>h, <1>q, <2>1, <2>3, <3>3, SameThread, SameReply, SameObj, SameMutex, SameJob,
               Groups, Zenon
  <2> QED BY <1>2, <2>2, <2>3, Zenon DEF ThreadTimeout
<1> QED BY <1>1, <1>2, Zenon

\* cancel_timer leaves no APC of the timer in any queue.
LEMMA CancelledQueues ==
  ASSUME ApcInv, ApcTypes, NEW x \in Timer
  PROVE  /\ Cancelled(x) \in [Thread -> ApcQueue]
         /\ \A u \in Thread :
              /\ Distinct(Cancelled(x)[u])
              /\ From(Cancelled(x)[u], userApc[u])
              /\ \A i \in DOMAIN Cancelled(x)[u] : Cancelled(x)[u][i] # x
              /\ userApc[u] = <<>> => Cancelled(x)[u] = <<>>
<1> DEFINE h == timer[x].thread
<1>1. /\ h \in Thread \cup {None} /\ x # None /\ None \notin Thread
      /\ userApc \in [Thread -> ApcQueue]
  BY WaitSyncAssumption, Zenon DEF ApcInv, TimerTypes, ApcTypes, ApcQueue, Object
<1>2. ASSUME NEW u \in Thread
      PROVE  /\ Distinct(userApc[u]) /\ From(userApc[u], userApc[u])
             /\ u # h => \A i \in DOMAIN userApc[u] : userApc[u][i] # x
  BY <1>1, OwnedQueue, Zenon DEF ApcInv, From
<1>3. CASE h = None
  <2>1. Cancelled(x) = userApc
    BY <1>3, Zenon DEF Cancelled
  <2>2. \A u \in Thread : u # h
    BY <1>1, <1>3, Zenon
  <2> QED BY <1>1, <1>2, <2>1, <2>2, Zenon
<1>4. CASE h \in Thread
  <2> DEFINE c == CancelApc(userApc[h], x)
  <2>1. Cancelled(x) = [userApc EXCEPT ![h] = c]
    BY <1>1, <1>4, Zenon DEF Cancelled
  <2>2. /\ c \in ApcQueue /\ Distinct(c) /\ From(c, userApc[h])
        /\ \A i \in DOMAIN c : c[i] # x
    BY <1>1, <1>2, <1>4, CancelApcQueue, Zenon
  <2>3. userApc[h] = <<>> => c = <<>>
    BY DEF CancelApc
  <2> HIDE DEF c, h, ApcQueue
  <2>4. Cancelled(x) \in [Thread -> ApcQueue]
    BY <1>1, <2>1, <2>2, Zenon
  <2>5. \A u \in Thread : Cancelled(x)[u] = IF u = h THEN c ELSE userApc[u]
    BY <1>1, <1>4, <2>1, Zenon
  <2> QED BY <1>2, <2>2, <2>3, <2>4, <2>5, Zenon
<1> QED BY <1>1, <1>3, <1>4, Zenon

\* set_timer and cancel_timer.
LEMMA TimerRequestInv ==
  ASSUME IInv, NEW t \in Thread, NEW x \in Timer,
         CancelTimer(t, x) \/ \E set \in TimerSets : SetTimer(t, x, set)
  PROVE  IInv'
<1>h. /\ ThreadTypes /\ ApcTypes /\ WaitTypes /\ ReplyTypes /\ ObjTypes
      /\ MutexTypes /\ JobTypes /\ ContOK /\ MutexConsistent /\ ApcInv /\ scan \in ScanType
  BY Have, Zenon DEF JobTypes
<1>1. /\ userApc' = Cancelled(x) /\ late' = [late EXCEPT ![t] = FALSE]
      /\ UNCHANGED <<state, suspend, sysApc, sigusr1>> /\ UNCHANGED waitVars /\ UNCHANGED reply
      /\ UNCHANGED mutexVars /\ UNCHANGED jobVars /\ semCount' = semCount
  BY Zenon DEF CancelTimer, SetTimer, objVars
<1>2. ThreadTypes'
  BY <1>h, <1>1, Zenon DEF ThreadTypes
<1>3. ObjTypes'
  BY <1>h, <1>1, Zenon DEF ObjTypes, CancelTimer, SetTimer, objVars
<1>4. TimerTypes' /\ \A y \in Timer : y # x => timer'[y] = timer[y]
  <2>1. timer \in [Timer -> [armed : BOOLEAN, period : BOOLEAN, thread : Thread \cup {None}]]
    BY <1>h, Zenon DEF ApcInv, TimerTypes
  <2>2. CASE CancelTimer(t, x)
    BY <2>1, <2>2, Zenon DEF CancelTimer, TimerTypes
  <2>3. ASSUME NEW set \in TimerSets, SetTimer(t, x, set)
        PROVE  TimerTypes' /\ \A y \in Timer : y # x => timer'[y] = timer[y]
    <3>1. set.period \in BOOLEAN /\ set.callback \in BOOLEAN
      BY WaitSyncAssumption, Zenon
    <3> DEFINE new == [armed |-> TRUE, period |-> set.period /\ x \notin ManualReset,
                       thread |-> IF set.callback THEN t ELSE None]
    <3>2. new \in [armed : BOOLEAN, period : BOOLEAN, thread : Thread \cup {None}]
      BY <3>1, Zenon
    <3>3. timer' = [timer EXCEPT ![x] = new]
      BY <2>3, Zenon DEF SetTimer
    <3> HIDE DEF new
    <3> QED BY <2>1, <3>2, <3>3, Zenon DEF TimerTypes
  <2> QED BY <2>2, <2>3, Zenon
<1>5. /\ userApc' \in [Thread -> ApcQueue]
      /\ \A u \in Thread :
           /\ Distinct(userApc'[u])
           /\ From(userApc'[u], userApc[u])
           /\ \A i \in DOMAIN userApc'[u] : userApc'[u][i] # x
           /\ userApc[u] = <<>> => userApc'[u] = <<>>
  BY <1>h, <1>1, CancelledQueues, Zenon
<1>6. ApcTypes'
  BY <1>h, <1>1, <1>5, Zenon DEF ApcTypes, ApcQueue
<1>7. TimerApcOwned'
  <2>1. ASSUME NEW u \in Thread, NEW i \in DOMAIN userApc'[u], userApc'[u][i] # None
        PROVE  timer'[userApc'[u][i]].thread = u
    <3>1. PICK j \in DOMAIN userApc[u] : userApc'[u][i] = userApc[u][j]
      BY <1>5, Zenon DEF From
    <3>2. timer[userApc[u][j]].thread = u
      BY <1>h, <2>1, <3>1, OwnedQueue, Zenon DEF ApcInv
    <3>3. userApc[u][j] \in Timer /\ userApc[u][j] # x
      <4>1. userApc[u] \in Seq(Timer \cup {None})
        BY <1>h, Zenon DEF ApcTypes
      <4>2. userApc[u][j] \in Timer \cup {None}
        BY <4>1, ElementOfSeq
      <4> QED BY <1>5, <2>1, <3>1, <4>2, Zenon
    <3> QED BY <1>4, <3>1, <3>2, <3>3, Zenon
  <2> QED BY <1>5, <2>1, OwnedStep, Zenon
<1>8. DeadNoApc'
  BY <1>h, <1>1, <1>5, Zenon DEF ApcInv, DeadNoApc, jobVars
<1>9. JobTypes' /\ ContOK'
  BY <1>h, <1>1, SameJob, Zenon DEF jobVars
<1>10. ApcInv'
  BY <1>4, <1>7, <1>8, Zenon DEF ApcInv
<1> QED BY <1>h, <1>1, <1>2, <1>3, <1>6, <1>9, <1>10, SameWait, SameReply, SameMutex, Groups, Zenon

\* timer_callback: the APC of the timer moves to the tail of the queue of the
\* thread that set the timer; a thread that has ended has no APC and is
\* forgotten.
LEMMA TimerCallbackInv ==
  ASSUME IInv, NEW x \in Timer, TimerCallback(x)
  PROVE  IInv'
<1> DEFINE t == timer[x].thread
<1>h. /\ ThreadTypes /\ ApcTypes /\ WaitTypes /\ ReplyTypes /\ ObjTypes
      /\ MutexTypes /\ JobTypes /\ ContOK /\ MutexConsistent /\ ApcInv /\ scan \in ScanType
  BY Have, Zenon DEF JobTypes
<1>0. /\ t \in Thread \cup {None} /\ x # None /\ None \notin Thread /\ x \in Object
      /\ userApc \in [Thread -> ApcQueue] /\ TimerTypes /\ TimerApcOwned
  BY <1>h, WaitSyncAssumption, Zenon DEF ApcInv, TimerTypes, ApcTypes, ApcQueue, Object
<1>1. /\ cont' = [op |-> "timer", arg |-> x] /\ cont.op \notin {"kill", "exit"}
      /\ UNCHANGED <<state, suspend, sysApc, sigusr1, late>> /\ UNCHANGED waitVars
      /\ UNCHANGED reply /\ UNCHANGED objVars /\ UNCHANGED mutexVars
  BY IdleCont, Zenon DEF TimerCallback
<1>2. ThreadTypes' /\ cont' \in ContType /\ ContOK'
  BY <1>h, <1>0, <1>1, Zenon DEF ThreadTypes, ContType, ContOK
<1>o. ASSUME NEW u \in Thread
      PROVE  /\ Distinct(userApc[u])
             /\ \A i \in DOMAIN userApc[u] : userApc[u][i] # None => timer[userApc[u][i]].thread = u
  BY <1>0, OwnedQueue, Zenon
<1>3. CASE t # None /\ state[t] = "RUNNING"
  <2> DEFINE c == CancelApc(userApc[t], x)
             a == Append(c, x)
  <2>1. /\ userApc' = [userApc EXCEPT ![t] = a] /\ timer' = timer
        /\ scan' \in {NoScan, WakeThread(t)}
    BY <1>3, Zenon DEF TimerCallback
  <2>2. t \in Thread
    BY <1>0, <1>3, Zenon
  <2>3. /\ c \in ApcQueue /\ Distinct(c) /\ From(c, userApc[t])
        /\ \A i \in DOMAIN c : c[i] # x
    BY <1>0, <1>o, <2>2, CancelApcQueue, Zenon
  <2> HIDE DEF c
  <2>4. /\ a \in ApcQueue /\ Distinct(a)
        /\ \A i \in DOMAIN a : a[i] = x \/ \E j \in DOMAIN c : a[i] = c[j]
    BY <2>3, AppendQueue
  <2> HIDE DEF a, t
  <2>5. \A u \in Thread : userApc'[u] = IF u = t THEN a ELSE userApc[u]
    <3> HIDE DEF ApcQueue
    <3> QED BY <1>0, <2>1, Zenon
  <2>6. userApc' \in [Thread -> ApcQueue]
    <3> HIDE DEF ApcQueue
    <3> QED BY <1>0, <2>1, <2>4, Zenon
  <2>7. ApcTypes'
    BY <1>h, <1>1, <2>6, Zenon DEF ApcTypes, ApcQueue
  <2>8. \A i \in DOMAIN a : a[i] # None => timer[a[i]].thread = t
    BY <1>o, <2>2, <2>3, <2>4 DEF From, t
  <2>9. TimerApcOwned'
    <3>1. ASSUME NEW u \in Thread
          PROVE  /\ Distinct(userApc'[u])
                 /\ \A i \in DOMAIN userApc'[u] :
                      userApc'[u][i] # None => timer'[userApc'[u][i]].thread = u
      BY <1>o, <2>1, <2>4, <2>5, <2>8
    <3> QED BY <3>1, OwnedStep, Zenon
  <2>10. DeadNoApc'
    BY <1>h, <1>1, <1>3, <2>5, Zenon DEF ApcInv, DeadNoApc, t
  <2>11. ApcInv'
    BY <1>0, <2>1, <2>9, <2>10, Zenon DEF ApcInv, TimerTypes
  <2>12. scan' \in ScanType
    BY <2>1, <2>2, ScanTypes, Zenon
  <2>13. JobTypes'
    BY <1>2, <2>12, Zenon DEF JobTypes
  <2> QED BY <1>h, <1>1, <1>2, <2>7, <2>11, <2>13, SameWait, SameReply, SameObj, SameMutex,
             Groups, Zenon
<1>4. CASE ~(t # None /\ state[t] = "RUNNING")
  <2>1. userApc' = userApc /\ timer' = [timer EXCEPT ![x].thread = None] /\ scan' = scan
    BY <1>4, Zenon DEF TimerCallback
  <2>2. TimerTypes' /\ \A y \in Timer : y # x => timer'[y] = timer[y]
    BY <1>0, <2>1, Zenon DEF TimerTypes
  <2>3. ASSUME NEW u \in Thread
        PROVE  \A i \in DOMAIN userApc[u] : userApc[u][i] # x
    <3>1. CASE u # t
      BY <1>0, <1>o, <3>1, Zenon
    <3>2. CASE u = t
      <4>1. state[u] = "TERMINATED"
        BY <1>h, <1>0, <1>4, <3>2, Zenon DEF ThreadTypes
      <4>2. userApc[u] = <<>>
        BY <1>h, <1>1, <4>1, Zenon DEF ApcInv, DeadNoApc
      <4> QED BY <4>2
    <3> QED BY <3>1, <3>2, Zenon
  <2>4. TimerApcOwned'
    <3>1. ASSUME NEW u \in Thread, NEW i \in DOMAIN userApc'[u], userApc'[u][i] # None
          PROVE  timer'[userApc'[u][i]].thread = u
      <4>1. userApc[u] \in Seq(Timer \cup {None}) /\ i \in DOMAIN userApc[u]
        BY <1>h, <2>1, <3>1, Zenon DEF ApcTypes
      <4>2. userApc[u][i] \in Timer \cup {None}
        BY <4>1, ElementOfSeq
      <4>3. userApc[u][i] \in Timer /\ userApc[u][i] # x
        BY <2>1, <2>3, <3>1, <4>1, <4>2, Zenon
      <4> QED BY <1>o, <2>1, <2>2, <3>1, <4>1, <4>3
    <3>2. \A u \in Thread : Distinct(userApc'[u])
      BY <1>o, <2>1, Zenon
    <3> QED BY <3>1, <3>2, OwnedStep, Zenon
  <2>5. DeadNoApc'
    BY <1>h, <1>1, <2>1, Zenon DEF ApcInv, DeadNoApc
  <2>6. ApcInv'
    BY <2>2, <2>4, <2>5, Zenon DEF ApcInv
  <2>7. ApcTypes' /\ JobTypes'
    BY <1>h, <1>1, <1>2, <2>1, Zenon DEF ApcTypes, JobTypes
  <2> QED BY <1>h, <1>1, <1>2, <2>6, <2>7, SameWait, SameReply, SameObj, SameMutex, Groups, Zenon
<1> QED BY <1>3, <1>4, Zenon

LEMMA InitIInv == Init => IInv
<1> SUFFICES ASSUME Init PROVE IInv
  BY Zenon
<1>0. /\ MaxSuspend \in Nat /\ MaxApc \in Nat /\ WrapAt \in Nat \ {0} /\ None \notin Thread
  BY WaitSyncAssumption, Zenon DEF Object
<1>1. ThreadTypes /\ ApcTypes /\ ReplyTypes
  BY <1>0 DEF Init, ThreadTypes, ApcTypes, ReplyTypes, Status
<1>6. TimerTypes
  BY Zenon DEF Init, TimerTypes
<1>7. TimerApcOwned /\ DeadNoApc
  BY DEF Init, TimerApcOwned, DeadNoApc
<1>2. WaitTypes
  BY DEF Init, WaitTypes
<1>3. ObjTypes /\ MutexTypes
  BY <1>0 DEF Init, ObjTypes, MutexTypes
<1>4. JobTypes /\ ContOK
  BY ScanTypes, Zenon DEF Init, JobTypes, ContOK, ContType, NoCont
<1>5. MutexConsistent
  BY <1>0 DEF Init, MutexConsistent
<1> QED BY <1>1, <1>2, <1>3, <1>4, <1>5, <1>6, <1>7, TypeGroups, Zenon DEF IInv

LEMMA NextIInv ==
  ASSUME IInv, [Next]_vars
  PROVE  IInv'
<1>1. CASE Step
  BY <1>1, ScanInv, RestInv, Zenon DEF Step
<1>2. ASSUME NEW t \in Thread, NewRequest(t) PROVE IInv'
  BY <1>2, ObjectRequestInv, SelectInv, ThreadRequestInv, KillInv, TimerRequestInv, Zenon DEF NewRequest
<1>3. ASSUME NEW t \in Thread,
             SignalHandler(t) \/ Timers(t) \/ \E i \in 1 .. 2 : Expire(t, i)
      PROVE  IInv'
  BY <1>3, SelectInv, TimeInv, Zenon DEF Timers
<1>4. CASE UNCHANGED vars
  <2>1. /\ UNCHANGED threadVars /\ UNCHANGED waitVars /\ UNCHANGED reply
        /\ UNCHANGED objVars /\ UNCHANGED mutexVars /\ scan' = scan /\ cont' = cont
        /\ timer' = timer /\ userApc' = userApc /\ state' = state
    BY <1>4, Zenon DEF vars, jobVars, threadVars
  <2>2. ApcInv'
    BY <2>1, Have, FrameSame, SameApc, Zenon
  <2> QED BY <2>1, <2>2, Have, SameThread, SameWait, SameReply, SameObj, SameMutex, SameJob,
             Groups, Zenon DEF JobTypes
<1>5. ASSUME NEW x \in Timer, TimerCallback(x) PROVE IInv'
  BY <1>5, TimerCallbackInv, Zenon
<1> QED BY <1>1, <1>2, <1>3, <1>4, <1>5, Zenon DEF Next

\* The type invariant, and the consistency of the mutexes: whatever requests
\* the threads make, whoever is killed and whenever the clock advances, a mutex
\* has an owner exactly while its count is positive, is in the list of its owner
\* and of nobody else (so that kill_thread finds it), and is free when marked
\* abandoned.
THEOREM MutexesConsistent == Spec => [](TypeOK /\ MutexConsistent)
<1>1. IInv => TypeOK /\ MutexConsistent
  BY Zenon DEF IInv
<1> QED BY InitIInv, NextIInv, <1>1, PTL DEF Spec

\* Whatever threads set, cancel and re-set timers, die or run APCs, the APC of a
\* timer is queued at most once and only to the thread that set the timer last:
\* timer_callback may forget a thread that has ended because kill_thread has
\* cleared its APC queue by then.
THEOREM TimerApcsOwned == Spec => []TimerApcOwned
<1>1. IInv => TimerApcOwned
  BY Zenon DEF IInv
<1> QED BY InitIInv, NextIInv, <1>1, PTL DEF Spec

-----------------------------------------------------------------------------
(* What Keep leaves of a list: the elements at the positions it is given,  *)
(* each as often, in their order.                                          *)

\* How often the list q has the element e.
Count(q, e) == Cardinality({k \in DOMAIN q : q[k] = e})

\* The places of the positions K are 1 .. Cardinality(K), in the same order.
LEMMA Places ==
  ASSUME NEW n \in Nat, NEW K \in SUBSET (1 .. n)
  PROVE  /\ IsFiniteSet(K) /\ Cardinality(K) \in Nat
         /\ \A k \in K : Place(k, K) \in 1 .. Cardinality(K)
         /\ \A j, k \in K : j < k => Place(j, K) < Place(k, K)
         /\ \A i \in 1 .. Cardinality(K) : \E k \in K : Place(k, K) = i
<1> DEFINE Upto(k) == {j \in K : j <= k}
           f == [k \in K |-> Cardinality(Upto(k))]
           m == Cardinality(K)
<1>0. IsFiniteSet(1 .. n) /\ \A k \in K : k \in Int
  BY FS_Interval
<1>1. IsFiniteSet(K) /\ m \in Nat
  BY <1>0, FS_Subset, FS_CardinalityType, Zenon
<1>2. \A k \in K : IsFiniteSet(Upto(k)) /\ Cardinality(Upto(k)) \in Nat /\ Cardinality(Upto(k)) <= m
  <2> SUFFICES ASSUME NEW k \in K
               PROVE  IsFiniteSet(Upto(k)) /\ Cardinality(Upto(k)) \in Nat /\ Cardinality(Upto(k)) <= m
    BY Zenon
  <2>1. Upto(k) \in SUBSET K
    BY Zenon
  <2> HIDE DEF Upto
  <2> QED BY <1>1, <2>1, FS_Subset, FS_CardinalityType, Zenon
<1>3. \A k \in K : Cardinality(Upto(k)) >= 1
  <2> SUFFICES ASSUME NEW k \in K PROVE Cardinality(Upto(k)) >= 1
    BY Zenon
  <2>1. k \in Upto(k)
    OBVIOUS
  <2> HIDE DEF Upto
  <2>2. Cardinality(Upto(k)) # 0
    BY <1>2, <2>1, FS_EmptySet, Zenon
  <2> QED BY <1>2, <2>2
<1>4. ASSUME NEW j \in K, NEW k \in K, j < k
      PROVE  Cardinality(Upto(j)) < Cardinality(Upto(k))
  <2>1. Upto(j) \in SUBSET Upto(k) /\ k \in Upto(k) /\ k \notin Upto(j)
    <3>1. j \in Int /\ k \in Int /\ k <= k /\ ~(k <= j)
      BY <1>0, <1>4
    <3>2. \A i \in K : i <= j => i <= k
      BY <1>0, <1>4, <3>1
    <3> QED BY <3>1, <3>2, Zenon
  <2> HIDE DEF Upto
  <2>2. Cardinality(Upto(j)) <= Cardinality(Upto(k)) /\ Cardinality(Upto(k)) # Cardinality(Upto(j))
    BY <1>2, <2>1, FS_Subset, Zenon
  <2> QED BY <1>2, <2>2
<1>5. \A k \in K : Place(k, K) = Cardinality(Upto(k))
  BY Zenon DEF Place
<1> HIDE DEF Upto
<1>6. f \in [K -> 1 .. m]
  BY <1>1, <1>2, <1>3
<1>7. \A j, k \in K : f[j] = f[k] => j = k
  <2> SUFFICES ASSUME NEW j \in K, NEW k \in K, j # k PROVE f[j] # f[k]
    BY Zenon
  <2>1. j < k \/ k < j
    OBVIOUS
  <2> QED BY <1>2, <1>4, <2>1
<1> HIDE DEF f
<1>8. f \in Injection(K, 1 .. m)
  BY <1>6, <1>7, Zenon DEF Injection, IsInjective
<1>9. IsFiniteSet(1 .. m) /\ Cardinality(1 .. m) = m
  BY <1>1, FS_Interval
<1>10. f \in Surjection(K, 1 .. m)
  BY <1>8, <1>9, FS_Injection, Zenon
<1>11. \A i \in 1 .. m : \E k \in K : f[k] = i
  BY <1>10, Zenon DEF Surjection
<1>12. \A k \in K : f[k] = Place(k, K)
  BY <1>5, Zenon DEF f
<1> QED BY <1>1, <1>2, <1>3, <1>4, <1>5, <1>11, <1>12

\* The i-th element left is the one at the position with that place.
LEMMA KeepAt ==
  ASSUME NEW S, NEW q \in Seq(S), NEW K \in SUBSET DOMAIN q
  PROVE  /\ Keep(q, K) \in Seq(S)
         /\ DOMAIN Keep(q, K) = 1 .. Cardinality(K)
         /\ \A k \in K : Keep(q, K)[Place(k, K)] = q[k]
         /\ \A i \in 1 .. Cardinality(K) :
              \E k \in K : Place(k, K) = i /\ Keep(q, K)[i] = q[k]
<1> DEFINE m == Cardinality(K)
           at(i) == CHOOSE k \in K : Place(k, K) = i
<1>1. DOMAIN q = 1 .. Len(q) /\ Len(q) \in Nat
  OBVIOUS
<1>2. /\ m \in Nat
      /\ \A k \in K : Place(k, K) \in 1 .. m
      /\ \A j, k \in K : j < k => Place(j, K) < Place(k, K)
      /\ \A i \in 1 .. m : \E k \in K : Place(k, K) = i
  BY <1>1, Places, Zenon
<1>3. \A i \in 1 .. m : at(i) \in K /\ Place(at(i), K) = i
  BY <1>2, Zenon
<1>4. \A j, k \in K : Place(j, K) = Place(k, K) => j = k
  <2> SUFFICES ASSUME NEW j \in K, NEW k \in K, j # k PROVE Place(j, K) # Place(k, K)
    BY Zenon
  <2>1. j < k \/ k < j
    BY <1>1
  <2> QED BY <1>2, <2>1
<1> HIDE DEF at
<1>5. Keep(q, K) = [i \in 1 .. m |-> q[at(i)]]
  BY Zenon DEF Keep, at
<1>6. \A i \in 1 .. m : q[at(i)] \in S
  BY <1>3
<1>7. \A k \in K : at(Place(k, K)) = k
  BY <1>2, <1>3, <1>4, Zenon
<1> QED BY <1>2, <1>3, <1>5, <1>6, <1>7

LEMMA KeepCount ==
  ASSUME NEW S, NEW q \in Seq(S), NEW K \in SUBSET DOMAIN q, NEW e
  PROVE  Count(Keep(q, K), e) = Cardinality({k \in K : q[k] = e})
<1> DEFINE A == {k \in K : q[k] = e}
           B == {i \in 1 .. Cardinality(K) : Keep(q, K)[i] = e}
           f == [k \in A |-> Place(k, K)]
<1>1. DOMAIN q = 1 .. Len(q) /\ Len(q) \in Nat
  OBVIOUS
<1>2. /\ IsFiniteSet(K)
      /\ \A k \in K : Place(k, K) \in 1 .. Cardinality(K)
      /\ \A j, k \in K : j < k => Place(j, K) < Place(k, K)
  BY <1>1, Places, Zenon
<1>3. IsFiniteSet(A)
  BY <1>2, FS_Subset, Zenon
<1>4. f \in [A -> B]
  BY <1>2, KeepAt
<1>5. \A j, k \in A : f[j] = f[k] => j = k
  <2> SUFFICES ASSUME NEW j \in A, NEW k \in A, j # k PROVE f[j] # f[k]
    BY Zenon
  <2>1. j < k \/ k < j
    BY <1>1
  <2> QED BY <1>2, <2>1
<1>6. \A i \in B : \E k \in A : f[k] = i
  BY KeepAt
<1> HIDE DEF A, B, f
<1>7. f \in Bijection(A, B)
  BY <1>4, <1>5, <1>6, Zenon DEF Bijection, Injection, Surjection, IsInjective
<1>8. Cardinality(B) = Cardinality(A)
  BY <1>3, <1>7, FS_Bijection, Zenon DEF ExistsBijection
<1>9. Count(Keep(q, K), e) = Cardinality(B)
  BY KeepAt, Zenon DEF Count, B
<1> QED BY <1>8, <1>9, Zenon DEF A

-----------------------------------------------------------------------------
(* What a grant takes.                                                     *)

\* Where the wait that check_wait looks at comes from.
Origin(w, t) ==
  \/ waits[t] # <<>> /\ w = Head(waits[t])
  \/ \E sel \in Selects : w = WaitOf(sel)
  \/ w = HandlerWait

Grant(w, t) ==
  /\ Origin(w, t)
  /\ Satisfied(w, t, CheckWait(w, t))
  /\ Answer(w, t, CheckWait(w, t))

\* The four things a step can do to semaphores and abandoned mutexes.
Granted == \E t \in Thread, w \in WaitType : Grant(w, t)

Released == /\ \E s \in Semaphore, n \in Counts \cup {1} : ReleaseCount(s, n)
            /\ abandoned' = abandoned

Abandons == /\ semCount' = semCount
            /\ \A m \in Mutex : abandoned[m] => abandoned'[m]

LEMMA DeliverGrants ==
  ASSUME TypeOK, NEW t \in Thread, waits[t] # <<>>, Deliver(t)
  PROVE  Granted
<1>1. Head(waits[t]) \in WaitType
  BY HeadType, TypeGroups, Zenon
<1> QED
  BY <1>1, Zenon DEF Deliver, Granted, Grant, Origin

LEMMA SelectGrants ==
  ASSUME TypeOK, NEW t \in Thread, NEW w \in WaitType, Origin(w, t), SelectOn(t, w)
  PROVE  Granted \/ Abandons
BY Zenon DEF SelectOn, Granted, Grant, Abandons, objVars, mutexVars

LEMMA HandlerWaitType == HandlerWait \in WaitType
BY DEF HandlerWait, WaitType, Keyed

LEMMA NextGrants ==
  ASSUME IInv, [Next]_vars
  PROVE  Granted \/ Released \/ Abandons
<1>0. TypeOK
  BY Zenon DEF IInv
<1>q. ASSUME UNCHANGED <<objVars, mutexVars>> PROVE Abandons
  BY <1>q, Zenon DEF Abandons, objVars, mutexVars
<1>r. ASSUME semCount' = semCount, UNCHANGED mutexVars PROVE Abandons
  BY <1>r, Zenon DEF Abandons, mutexVars
<1>1. CASE Step
  <2>1. CASE ScanWake
    BY <1>0, <2>1, DeliverGrants, Zenon DEF ScanWake, Wakeable
  <2>2. CASE ScanAgain
    <3>1. scan.cur \in Thread
      BY <1>0, <2>2, Zenon DEF ScanAgain, TypeOK
    <3> QED
      BY <1>0, <2>2, <3>1, DeliverGrants, Zenon DEF ScanAgain, Wakeable
  <2>3. CASE ScanSkip \/ ScanNext \/ ScanEnd \/ KillSignal \/ KillCleanup
    BY <1>q, <2>3, Zenon DEF ScanSkip, ScanNext, ScanEnd, KillSignal, KillCleanup
  <2>4. CASE PulseEnd \/ TimerSignal
    BY <1>r, <2>4, Zenon DEF PulseEnd, TimerSignal
  <2>5. CASE SelectRest
    <3>1. cont.arg \in Thread
      BY <2>5, Zenon DEF SelectRest, IInv, ContOK
    <3> QED
      BY <1>0, <1>q, <2>5, <3>1, DeliverGrants, Zenon DEF SelectRest
  <2>6. ASSUME NEW m \in Mutex, KillAbandon(m) PROVE Abandons
    <3>1. abandoned' = [abandoned EXCEPT ![m] = TRUE] /\ semCount' = semCount
      BY <2>6, Zenon DEF KillAbandon, objVars
    <3> QED
      BY <1>0, <3>1, Zenon DEF Abandons, TypeOK
  <2> QED
    BY <1>1, <2>1, <2>2, <2>3, <2>4, <2>5, <2>6, Zenon DEF Step
<1>2. ASSUME NEW t \in Thread, NewRequest(t) PROVE Granted \/ Released \/ Abandons
  <2>1. ASSUME NEW e \in Event, SetEvent(t, e) \/ PulseEvent(t, e) \/ ResetEvent(t, e)
        PROVE  Abandons
    BY <1>r, <2>1, Zenon DEF SetEvent, PulseEvent, ResetEvent
  <2>2. ASSUME NEW s \in Semaphore, NEW n \in Counts, ReleaseSemaphore(t, s, n) PROVE Released
    BY <2>2, Zenon DEF ReleaseSemaphore, Released, mutexVars
  <2>3. ASSUME NEW m \in Mutex, ReleaseMutex(t, m) PROVE Abandons
    BY <2>3, Zenon DEF ReleaseMutex, DropMutex, Abandons, objVars
  <2>4. ASSUME NEW x \in Timer, CancelTimer(t, x) \/ \E set \in TimerSets : SetTimer(t, x, set)
        PROVE  Abandons
    BY <1>r, <2>4, Zenon DEF CancelTimer, SetTimer, objVars
  <2>5. ASSUME NEW sel \in Selects, Select(t, sel) PROVE Granted \/ Abandons
    BY <1>0, <2>5, WaitOfType, SelectGrants, Zenon DEF Select, Origin
  <2>6. ASSUME NEW sel \in Selects, SignalAndWait(t, sel) PROVE Released \/ Abandons
    <3>1. SignalObject(t, sel.signal)
      BY <2>6, Zenon DEF SignalAndWait
    <3> QED
      BY <3>1, Zenon DEF SignalObject, DropMutex, Released, Abandons, objVars, mutexVars
  <2>7. ASSUME NEW u \in Thread,
               \/ SuspendThread(t, u) \/ ResumeThread(t, u)
               \/ QueueUserApc(t, u) \/ QueueSystemApc(t, u)
               \/ \E inside \in {FALSE, Smp} : TerminateThread(t, u, inside)
        PROVE  Abandons
    BY <1>q, <2>7, Zenon DEF SuspendThread, ResumeThread, QueueUserApc, QueueSystemApc, TerminateThread
  <2>8. CASE ExitThread(t)
    BY <1>q, <2>8, Zenon DEF ExitThread
  <2> QED
    BY <1>2, <2>1, <2>2, <2>3, <2>4, <2>5, <2>6, <2>7, <2>8, Zenon DEF NewRequest
<1>3. ASSUME NEW t \in Thread, SignalHandler(t) PROVE Granted \/ Abandons
  BY <1>0, <1>3, HandlerWaitType, SelectGrants, Zenon DEF SignalHandler, Origin
<1>4. ASSUME NEW t \in Thread, Timers(t) \/ \E i \in 1 .. 2 : Expire(t, i) PROVE Abandons
  BY <1>q, <1>4, Zenon DEF Timers, ThreadTimeout, Expire
<1>5. ASSUME NEW x \in Timer, TimerCallback(x) PROVE Abandons
  BY <1>q, <1>5, Zenon DEF TimerCallback
<1>6. CASE UNCHANGED vars
  BY <1>q, <1>6, Zenon DEF vars
<1> QED
  BY <1>1, <1>2, <1>3, <1>4, <1>5, <1>6, Zenon DEF Next

\* Whatever the threads do: an abandoned mutex loses its mark only to a thread
\* that gets it and is told STATUS_ABANDONED (make_wait_abandoned).
THEOREM AbandonedMutexReported == Spec => AbandonedReported
<1> DEFINE Reported == \A m \in Mutex : abandoned[m] /\ ~abandoned'[m] =>
                         \E t \in Thread : owner'[m] = t /\ reply'[t] = "abandoned"
<1>1. IInv /\ [Next]_vars => [Reported]_vars
  <2> SUFFICES ASSUME IInv, [Next]_vars, NEW m \in Mutex, abandoned[m], ~abandoned'[m]
               PROVE  \E t \in Thread : owner'[m] = t /\ reply'[t] = "abandoned"
    BY Zenon
  <2>1. PICK t \in Thread, w \in WaitType : Grant(w, t)
    BY NextGrants, Zenon DEF Granted, Released, Abandons
  <2> DEFINE st == CheckWait(w, t)
  <2>2. \E i \in Taken(w, t, st) : w.objs[i] = m
    BY <2>1, Zenon DEF Grant, Satisfied
  <2>3. owner'[m] = t
    BY <2>1, <2>2, Zenon DEF Grant, Satisfied
  <2>4. reply'[t] = Result(w, t, st)
    BY <2>1, Zenon DEF Grant, Answer
  <2>5. Result(w, t, st) = "abandoned"
    BY <2>2, Zenon DEF Result
  <2> QED
    BY <2>3, <2>4, <2>5, Zenon
<1> QED
  BY InitIInv, NextIInv, <1>1, PTL DEF Spec, AbandonedReported

-----------------------------------------------------------------------------
(* The semaphores.                                                          *)

\* A wait for all of its objects names no semaphore twice.
OncePerSemaphore(w) ==
  w.op = "all" => \A i, j \in DOMAIN w.objs :
                    w.objs[i] \in Semaphore /\ w.objs[i] = w.objs[j] => i = j

WaitsOnce == \A t \in Thread : \A l \in DOMAIN waits[t] : OncePerSemaphore(waits[t][l])

SelectsOnce == \A sel \in Selects : OncePerSemaphore(WaitOf(sel))

SemInv == IInv /\ WaitsOnce /\ SemaphoreInBounds

LEMMA OriginOnce ==
  ASSUME SelectsOnce, TypeOK, WaitsOnce, NEW t \in Thread, NEW w, Origin(w, t)
  PROVE  OncePerSemaphore(w)
<1>1. CASE waits[t] # <<>> /\ w = Head(waits[t])
  <2>1. waits[t] \in Seq(WaitType)
    BY Zenon DEF TypeOK
  <2>2. 1 \in DOMAIN waits[t] /\ w = waits[t][1]
    BY <1>1, <2>1
  <2> QED
    BY <2>2, Zenon DEF WaitsOnce
<1>2. CASE w = HandlerWait
  BY <1>2, Zenon DEF HandlerWait, OncePerSemaphore
<1> QED
  BY <1>1, <1>2, Zenon DEF Origin, SelectsOnce

\* A granted wait takes at most one from each semaphore, and only one that is
\* there: assert( sem->count ) in semaphore_satisfied.
LEMMA GrantBounds ==
  ASSUME TypeOK, NEW t \in Thread, NEW w \in WaitType, OncePerSemaphore(w), NEW s \in Semaphore
  PROVE  Times(w, t, CheckWait(w, t), s) \in 0 .. semCount[s]
<1> DEFINE st == CheckWait(w, t)
           T == {i \in Taken(w, t, st) : w.objs[i] = s}
           n == Times(w, t, st, s)
<1> SUFFICES n \in 0 .. semCount[s]
  BY Zenon
<1>0. semCount[s] \in Nat
  BY DEF TypeOK
<1>1. CASE T = {}
  <2>1. n \in Nat /\ ~(n > 0)
    BY <1>1, TimesType
  <2> HIDE DEF n
  <2> QED
    BY <1>0, <2>1
<1>2. CASE T # {}
  <2>1. PICK i \in T : TRUE
    BY <1>2, Zenon
  <2>2. Signaled(s, w, t)
    BY <2>1, TakenSignaled, Zenon
  <2>3. semCount[s] > 0
    <3>1. s \notin Event \cup Timer /\ s \notin Mutex /\ s \notin Thread /\ s \notin KeyedEvent
      BY WaitSyncAssumption, Zenon
    <3> QED
      BY <2>2, <3>1, Zenon DEF Signaled
  <2>4. T = {i}
    <3>1. CASE w.op = "all"
      BY <2>1, <3>1, TakenSignaled, Zenon DEF OncePerSemaphore
    <3>2. CASE w.op # "all"
      <4>1. \A j \in T : j \in SignaledIn(w, t) /\ i <= j /\ j <= i
        BY <2>1, <3>2, Zenon DEF Taken
      <4>2. \A j \in T : j \in DOMAIN w.objs
        BY TakenSignaled, Zenon
      <4>3. \A j \in T : j \in Nat
        BY <4>2 DEF WaitType
      <4>4. \A j \in T : j = i
        <5> SUFFICES ASSUME NEW j \in T PROVE j = i
          BY Zenon
        <5>1. i \in Nat /\ j \in Nat /\ i <= j /\ j <= i
          BY <2>1, <4>1, <4>3, Zenon
        <5> HIDE DEF T
        <5> QED
          BY <5>1
      <4> QED
        BY <2>1, <4>4, Zenon
    <3> QED
      BY <3>1, <3>2, Zenon
  <2>5. Cardinality(T) = 1
    BY <2>4, FS_Singleton, Zenon
  <2>6. n = 1
    BY <2>5, Zenon DEF Times
  <2> HIDE DEF n
  <2> QED
    BY <1>0, <2>3, <2>6
<1> QED
  BY <1>1, <1>2, Zenon

LEMMA SemStep ==
  ASSUME SelectsOnce, SemInv, [Next]_vars
  PROVE  SemaphoreInBounds'
<1> SUFFICES ASSUME NEW s \in Semaphore PROVE semCount'[s] <= SemMax[s]
  BY Zenon DEF SemaphoreInBounds
<1>0. /\ semCount[s] \in 0 .. WrapAt - 1 /\ WrapAt \in Nat /\ SemMax[s] \in Nat
      /\ semCount[s] <= SemMax[s]
  BY WaitSyncAssumption DEF SemInv, IInv, TypeOK, SemaphoreInBounds
<1>1. CASE Granted
  <2>1. PICK t \in Thread, w \in WaitType : Grant(w, t)
    BY <1>1, Zenon DEF Granted
  <2> DEFINE n == Times(w, t, CheckWait(w, t), s)
  <2>2. OncePerSemaphore(w)
    BY <2>1, OriginOnce, Zenon DEF Grant, SemInv, IInv
  <2>3. n \in 0 .. semCount[s]
    BY <2>2, GrantBounds, Zenon DEF SemInv, IInv
  <2>4. semCount'[s] = (semCount[s] - n) % WrapAt
    BY <2>1, Zenon DEF Grant, Satisfied
  <2> HIDE DEF n
  <2>5. semCount[s] - n \in 0 .. WrapAt - 1
    BY <1>0, <2>3
  <2>6. (semCount[s] - n) % WrapAt = semCount[s] - n
    BY <1>0, <2>5
  <2> QED
    BY <1>0, <2>3, <2>4, <2>6
<1>2. CASE Released
  BY <1>0, <1>2, Zenon DEF Released, ReleaseCount, SemInv, IInv, TypeOK
<1>3. CASE Abandons
  BY <1>0, <1>3, Zenon DEF Abandons
<1> QED
  BY <1>1, <1>2, <1>3, NextGrants, Zenon DEF SemInv

\* A wait on a stack is one that was there before, perhaps with its timeout
\* passed or set, or the one of the request.
Kept(w, t) == \E l \in DOMAIN waits[t] : w.op = waits[t][l].op /\ w.objs = waits[t][l].objs

New(w) == \/ \E sel \in Selects : w.op = WaitOf(sel).op /\ w.objs = WaitOf(sel).objs
          \/ w.op = "any"

WaitsFrom == \A t \in Thread : \A l \in DOMAIN waits'[t] : Kept(waits'[t][l], t) \/ New(waits'[t][l])

LEMMA FromOnce ==
  ASSUME SelectsOnce, WaitsOnce, WaitsFrom
  PROVE  WaitsOnce'
<1> SUFFICES ASSUME NEW t \in Thread, NEW l \in DOMAIN waits'[t]
             PROVE  OncePerSemaphore(waits'[t][l])
  BY Zenon DEF WaitsOnce
<1>1. Kept(waits'[t][l], t) \/ New(waits'[t][l])
  BY Zenon DEF WaitsFrom
<1> QED
  BY <1>1, Zenon DEF Kept, New, OncePerSemaphore, WaitsOnce, SelectsOnce

LEMMA SameFrom ==
  ASSUME waits' = waits
  PROVE  WaitsFrom
BY Zenon DEF WaitsFrom, Kept

LEMMA EndWaitFrom ==
  ASSUME TypeOK, NEW T, EndWait(T)
  PROVE  WaitsFrom
<1> SUFFICES ASSUME NEW t \in Thread, NEW l \in DOMAIN waits'[t] PROVE Kept(waits'[t][l], t)
  BY Zenon DEF WaitsFrom
<1>1. waits[t] \in Seq(WaitType)
  BY Zenon DEF TypeOK
<1>2. CASE t \notin T
  BY <1>2, Zenon DEF EndWait, Kept
<1>3. CASE t \in T /\ waits[t] # <<>>
  <2>1. waits'[t] = Tail(waits[t])
    BY <1>3, Zenon DEF EndWait
  <2>2. l + 1 \in DOMAIN waits[t] /\ waits'[t][l] = waits[t][l + 1]
    BY <1>1, <1>3, <2>1
  <2> QED
    BY <2>2, Zenon DEF Kept
<1>4. CASE t \in T /\ waits[t] = <<>>
  <2>1. waits'[t] = Tail(<<>>)
    BY <1>4, Zenon DEF EndWait
  <2> QED
    BY <2>1
<1> QED
  BY <1>2, <1>3, <1>4, Zenon

LEMMA WaitOnFrom ==
  ASSUME TypeOK, NEW t \in Thread, NEW w \in WaitType, New(w), WaitOn(t, w)
  PROVE  WaitsFrom
<1> SUFFICES ASSUME NEW u \in Thread, NEW l \in DOMAIN waits'[u]
             PROVE  Kept(waits'[u][l], u) \/ New(waits'[u][l])
  BY Zenon DEF WaitsFrom
<1>1. waits[u] \in Seq(WaitType) /\ waits \in [Thread -> Seq(WaitType)]
  BY Zenon DEF TypeOK
<1>2. CASE u # t
  BY <1>1, <1>2, Zenon DEF WaitOn, Kept
<1>3. CASE u = t
  <2>1. waits'[u] = <<w>> \o waits[u] /\ <<w>> \in Seq(WaitType)
    BY <1>1, <1>3 DEF WaitOn
  <2>2. CASE l = 1
    <3>1. waits'[u][l] = w
      BY <1>1, <2>1, <2>2
    <3> QED BY <3>1, Zenon
  <2>3. CASE l # 1
    <3>1. l - 1 \in DOMAIN waits[u] /\ waits'[u][l] = waits[u][l - 1]
      BY <1>1, <2>1, <2>3
    <3> QED BY <3>1, Zenon DEF Kept
  <2> QED BY <2>2, <2>3, Zenon
<1> QED BY <1>2, <1>3, Zenon

\* One wait of a stack gets another timeout.
LEMMA ReplaceFrom ==
  ASSUME TypeOK, NEW t \in Thread, NEW i \in DOMAIN waits[t], NEW w,
         w.op = waits[t][i].op, w.objs = waits[t][i].objs,
         waits' = [waits EXCEPT ![t] = [waits[t] EXCEPT ![i] = w]]
  PROVE  WaitsFrom
<1> SUFFICES ASSUME NEW u \in Thread, NEW l \in DOMAIN waits'[u] PROVE Kept(waits'[u][l], u)
  BY Zenon DEF WaitsFrom
<1>1. CASE u # t
  BY <1>1, Zenon DEF TypeOK, Kept
<1>2. CASE u = t
  <2>1. waits'[u] = [waits[u] EXCEPT ![i] = w]
    BY <1>2, Zenon DEF TypeOK
  <2>2. l \in DOMAIN waits[u]
    BY <2>1, Zenon
  <2>3. CASE l = i
    BY <1>2, <2>1, <2>2, <2>3, Zenon DEF Kept
  <2>4. CASE l # i
    BY <1>2, <2>1, <2>2, <2>4, Zenon DEF Kept
  <2> QED BY <2>3, <2>4, Zenon
<1> QED BY <1>1, <1>2, Zenon

LEMMA ArmedSame ==
  ASSUME NEW w \in WaitType
  PROVE  Armed(w) \in WaitType /\ Armed(w).op = w.op /\ Armed(w).objs = w.objs
BY ZenonT(30) DEF Armed, WaitType

LEMMA SelectOnFrom ==
  ASSUME TypeOK, NEW t \in Thread, NEW w \in WaitType, New(w), SelectOn(t, w)
  PROVE  WaitsFrom
<1>1. Armed(w) \in WaitType /\ New(Armed(w))
  BY ArmedSame, Zenon DEF New
<1> QED
  BY <1>1, EndWaitFrom, WaitOnFrom, Zenon DEF SelectOn

LEMMA NextFrom ==
  ASSUME IInv, [Next]_vars
  PROVE  WaitsFrom
<1>0. TypeOK
  BY DEF IInv
<1>d. ASSUME NEW t \in Thread, Deliver(t) PROVE WaitsFrom
  BY <1>0, <1>d, EndWaitFrom, Zenon DEF Deliver
<1>q. ASSUME UNCHANGED waitVars PROVE WaitsFrom
  BY <1>q, SameFrom, Zenon DEF waitVars
<1>k. ASSUME NEW t \in Thread, NEW inside, Kill(t, inside) PROVE WaitsFrom
  <2>1. waits' = [waits EXCEPT ![t] = <<>>]
    BY <1>k, Zenon DEF Kill
  <2> SUFFICES ASSUME NEW u \in Thread, NEW l \in DOMAIN waits'[u] PROVE Kept(waits'[u][l], u)
    BY Zenon DEF WaitsFrom
  <2>2. CASE u # t
    BY <1>0, <2>1, <2>2, Zenon DEF TypeOK, Kept
  <2>3. CASE u = t
    BY <1>0, <2>1, <2>3 DEF TypeOK
  <2> QED BY <2>2, <2>3, Zenon
<1>1. CASE Step
  <2>1. CASE ScanWake
    BY <1>d, <2>1, Zenon DEF ScanWake
  <2>2. CASE ScanAgain
    <3>1. scan.cur \in Thread
      BY <1>0, <2>2 DEF ScanAgain, TypeOK
    <3> QED
      BY <1>d, <2>2, <3>1, Zenon DEF ScanAgain
  <2>3. CASE \/ ScanSkip \/ ScanNext \/ ScanEnd \/ KillSignal \/ KillCleanup
             \/ PulseEnd \/ TimerSignal \/ \E m \in Mutex : KillAbandon(m)
    BY <1>q, <2>3, Zenon DEF ScanSkip, ScanNext, ScanEnd, KillSignal, KillCleanup, PulseEnd, TimerSignal,
                      KillAbandon
  <2>4. CASE SelectRest
    <3> DEFINE t == cont.arg
    <3>1. t \in Thread
      BY <2>4, Zenon DEF SelectRest, IInv, ContOK
    <3>2. CASE UNCHANGED waitVars
      BY <1>q, <3>2, Zenon
    <3>3. CASE Deliver(t)
      BY <1>d, <3>1, <3>3, Zenon
    <3>4. CASE /\ waits[t] # <<>>
               /\ waits' = [waits EXCEPT ![t] = <<Armed(Head(@))>> \o Tail(@)]
      <4> HIDE DEF t
      <4>1. /\ waits[t] \in Seq(WaitType) /\ Head(waits[t]) \in WaitType
            /\ 1 \in DOMAIN waits[t] /\ Head(waits[t]) = waits[t][1]
        BY <1>0, <3>1, <3>4 DEF TypeOK
      <4>2. /\ Armed(Head(waits[t])) \in WaitType
            /\ Armed(Head(waits[t])).op = waits[t][1].op
            /\ Armed(Head(waits[t])).objs = waits[t][1].objs
        BY <4>1, ArmedSame, Zenon
      <4>3. <<Armed(Head(waits[t]))>> \o Tail(waits[t])
              = [waits[t] EXCEPT ![1] = Armed(Head(waits[t]))]
        BY <3>4, <4>1, <4>2
      <4>4. waits' = [waits EXCEPT ![t] = [waits[t] EXCEPT ![1] = Armed(Head(waits[t]))]]
        BY <1>0, <3>1, <3>4, <4>3, Zenon DEF TypeOK
      <4> QED
        BY <1>0, <3>1, <4>1, <4>2, <4>4, ReplaceFrom, Zenon
    <3> QED
      BY <2>4, <3>2, <3>3, <3>4, Zenon DEF SelectRest
  <2> QED
    BY <1>1, <2>1, <2>2, <2>3, <2>4, Zenon DEF Step
<1>2. ASSUME NEW t \in Thread, NewRequest(t) PROVE WaitsFrom
  <2>1. ASSUME NEW e \in Event, SetEvent(t, e) \/ PulseEvent(t, e) \/ ResetEvent(t, e)
        PROVE  WaitsFrom
    BY <1>q, <2>1, Zenon DEF SetEvent, PulseEvent, ResetEvent
  <2>2. CASE \E s \in Semaphore, n \in Counts : ReleaseSemaphore(t, s, n)
    BY <1>q, <2>2, Zenon DEF ReleaseSemaphore
  <2>3. CASE \E m \in Mutex : ReleaseMutex(t, m)
    BY <1>q, <2>3, Zenon DEF ReleaseMutex
  <2>4. CASE \E x \in Timer : CancelTimer(t, x) \/ \E set \in TimerSets : SetTimer(t, x, set)
    BY <1>q, <2>4, Zenon DEF CancelTimer, SetTimer
  <2>5. ASSUME NEW sel \in Selects, Select(t, sel) \/ SignalAndWait(t, sel) PROVE WaitsFrom
    <3>1. New(WaitOf(sel)) /\ WaitOf(sel) \in WaitType
      BY WaitOfType, Zenon DEF New
    <3> QED
      BY <1>0, <2>5, <3>1, SelectOnFrom, WaitOnFrom, Zenon DEF Select, SignalAndWait
  <2>6. ASSUME NEW u \in Thread,
               \/ SuspendThread(t, u) \/ ResumeThread(t, u)
               \/ QueueUserApc(t, u) \/ QueueSystemApc(t, u)
        PROVE  WaitsFrom
    BY <1>q, <2>6, Zenon DEF SuspendThread, ResumeThread, QueueUserApc, QueueSystemApc
  <2>7. ASSUME NEW u \in Thread, NEW inside, TerminateThread(t, u, inside) PROVE WaitsFrom
    BY <1>k, <2>7, Zenon DEF TerminateThread
  <2>8. CASE ExitThread(t)
    BY <1>k, <2>8, Zenon DEF ExitThread
  <2> QED
    BY <1>2, <2>1, <2>2, <2>3, <2>4, <2>5, <2>6, <2>7, <2>8, Zenon DEF NewRequest
<1>3. ASSUME NEW t \in Thread, SignalHandler(t) PROVE WaitsFrom
  <2>1. New(HandlerWait)
    BY Zenon DEF New, HandlerWait
  <2> QED
    BY <1>0, <1>3, <2>1, HandlerWaitType, SelectOnFrom, Zenon DEF SignalHandler
<1>4. ASSUME NEW t \in Thread, NEW i, Expire(t, i) PROVE WaitsFrom
  <2>1. i \in DOMAIN waits[t] /\ waits[t][i] \in WaitType
    BY <1>0, <1>4 DEF Expire, TypeOK
  <2>2. /\ [waits[t][i] EXCEPT !.timeout = "past"].op = waits[t][i].op
        /\ [waits[t][i] EXCEPT !.timeout = "past"].objs = waits[t][i].objs
    BY <2>1, Zenon DEF WaitType
  <2>3. waits' = [waits EXCEPT ![t] = [waits[t] EXCEPT ![i] =
                                        [waits[t][i] EXCEPT !.timeout = "past"]]]
    BY <1>4, Zenon DEF Expire
  <2> QED
    BY <1>0, <2>1, <2>2, <2>3, ReplaceFrom, Zenon
<1>5. ASSUME NEW t \in Thread, NEW i, ThreadTimeout(t, i) PROVE WaitsFrom
  <2>1. CASE EndWait({t})
    BY <1>0, <2>1, EndWaitFrom, Zenon
  <2>2. CASE waits' = [waits EXCEPT ![t] = [waits[t] EXCEPT ![i] =
                                             [waits[t][i] EXCEPT !.armed = FALSE]]]
    <3>1. i \in DOMAIN waits[t] /\ waits[t][i] \in WaitType
      BY <1>0, <1>5 DEF ThreadTimeout, TypeOK
    <3>2. /\ [waits[t][i] EXCEPT !.armed = FALSE].op = waits[t][i].op
          /\ [waits[t][i] EXCEPT !.armed = FALSE].objs = waits[t][i].objs
      BY <3>1, Zenon DEF WaitType
    <3> QED
      BY <1>0, <2>2, <3>1, <3>2, ReplaceFrom, Zenon
  <2> QED
    BY <1>5, <2>1, <2>2, Zenon DEF ThreadTimeout
<1>6. ASSUME NEW x \in Timer, TimerCallback(x) PROVE WaitsFrom
  BY <1>q, <1>6, Zenon DEF TimerCallback
<1>7. CASE UNCHANGED vars
  BY <1>q, <1>7, Zenon DEF vars
<1> QED
  BY <1>1, <1>2, <1>3, <1>4, <1>5, <1>6, <1>7, Zenon DEF Next, Timers

\* For any limits, counts and requests in which no SELECT_WAIT_ALL names a
\* semaphore twice: release_semaphore and semaphore_satisfied keep the count of
\* a semaphore within its limit, and it never wraps below 0.
THEOREM SemaphoresInBounds ==
  ASSUME SelectsOnce
  PROVE  Spec => []SemaphoreInBounds
<1>1. Init => SemInv
  <2> SUFFICES ASSUME Init PROVE WaitsOnce /\ SemaphoreInBounds
    BY InitIInv, Zenon DEF SemInv
  <2>1. WaitsOnce
    BY DEF Init, WaitsOnce
  <2>2. SemaphoreInBounds
    BY WaitSyncAssumption DEF Init, SemaphoreInBounds
  <2> QED BY <2>1, <2>2, Zenon
<1>2. SemInv /\ [Next]_vars => SemInv'
  BY NextIInv, NextFrom, FromOnce, SemStep, Zenon DEF SemInv
<1>3. SemInv => SemaphoreInBounds
  BY Zenon DEF SemInv
<1> QED
  BY <1>1, <1>2, <1>3, PTL DEF Spec

-----------------------------------------------------------------------------
(* The end of a thread.                                                     *)

\* What DeadThreadGone needs: between the steps of kill_thread the mutexes and
\* then the APCs of the thread may still be there, its waits never are, and
\* without the semaphore of uk_lock no request of a killed thread is under way.
DeadThread(u) ==
  /\ waits[u] = <<>>
  /\ mutexList[u] = {} \/ (cont.op = "kill" /\ cont.arg = u)
  /\ sysApc[u] = 0 \/ (cont.op \in {"kill", "exit"} /\ cont.arg = u)

DeadInv ==
  \A u \in Thread : ~late[u] /\ (state[u] = "TERMINATED" => DeadThread(u))

\* A step that leaves the threads that have ended alone.
DeadKept(u) ==
  /\ waits'[u] = waits[u]
  /\ mutexList'[u] \subseteq mutexList[u]
  /\ sysApc'[u] = sysApc[u]

DeadFrame ==
  /\ state' = state
  /\ \A u \in Thread : late'[u] => late[u]
  /\ cont' = cont \/ cont.op \notin {"kill", "exit"}
  /\ \A u \in Thread : state[u] = "TERMINATED" => DeadKept(u)

LEMMA DeadFrameInv ==
  ASSUME DeadInv, DeadFrame
  PROVE  DeadInv'
<1> SUFFICES ASSUME NEW u \in Thread
             PROVE  ~late'[u] /\ (state'[u] = "TERMINATED" => DeadThread(u)')
  BY Zenon DEF DeadInv
<1>1. ~late'[u]
  BY Zenon DEF DeadInv, DeadFrame
<1>2. ASSUME state[u] = "TERMINATED" PROVE DeadThread(u)'
  <2>1. DeadThread(u) /\ DeadKept(u)
    BY <1>2, Zenon DEF DeadInv, DeadFrame
  <2> QED
    BY <2>1, Zenon DEF DeadThread, DeadKept, DeadFrame
<1> QED
  BY <1>1, <1>2, SMTT(30) DEF DeadFrame

\* end_wait concerns the threads it is called for, do_grab the thread that
\* takes an object.
LEMMA EndWaitOthers ==
  ASSUME NEW T, EndWait(T), NEW u \in Thread, u \notin T
  PROVE  waits'[u] = waits[u]
BY Zenon DEF EndWait

LEMMA GrabOthers ==
  ASSUME TypeOK, NEW t \in Thread, NEW w, NEW st, Satisfied(w, t, st), NEW u \in Thread,
         u # t \/ st # "object"
  PROVE  mutexList'[u] = mutexList[u]
<1> DEFINE grabbed == {w.objs[i] : i \in Taken(w, t, st)} \cap Mutex
<1>0. st # "object" => grabbed = {}
  BY Zenon DEF Taken
<1>1. mutexList' = [mutexList EXCEPT ![t] = @ \cup grabbed]
  BY Zenon DEF Satisfied
<1> HIDE DEF grabbed
<1>2. CASE u # t
  BY <1>1, <1>2, Zenon DEF TypeOK
<1>3. CASE u = t /\ st # "object"
  <2>1. mutexList'[u] = mutexList[u] \cup grabbed
    BY <1>1, <1>3, Zenon DEF TypeOK
  <2> QED
    BY <1>0, <1>3, <2>1, Zenon
<1> QED
  BY <1>2, <1>3, Zenon

LEMMA DropSubset ==
  ASSUME TypeOK, NEW t \in Thread, NEW m, DropMutex(t, m), NEW u \in Thread
  PROVE  mutexList'[u] \subseteq mutexList[u]
<1>1. \/ mutexList' = mutexList
      \/ mutexList' = [mutexList EXCEPT ![t] = mutexList[t] \ {m}]
  BY Zenon DEF DropMutex
<1>2. CASE mutexList' = mutexList
  BY <1>2, Zenon
<1>3. CASE mutexList' = [mutexList EXCEPT ![t] = mutexList[t] \ {m}]
  <2>1. mutexList'[u] = IF u = t THEN mutexList[t] \ {m} ELSE mutexList[u]
    BY <1>3, SMTT(30) DEF TypeOK
  <2> QED
    BY <2>1, Zenon
<1> QED
  BY <1>1, <1>2, <1>3, Zenon

LEMMA DeliverDead ==
  ASSUME TypeOK, DeadInv, NEW t \in Thread, waits[t] # <<>>, Deliver(t),
         NEW u \in Thread, state[u] = "TERMINATED"
  PROVE  waits'[u] = waits[u] /\ mutexList'[u] = mutexList[u]
<1> DEFINE w == Head(waits[t])
           T == {t} \cup Partner(w, t, CheckWait(w, t))
<1>1. Satisfied(w, t, CheckWait(w, t)) /\ EndWait(T)
  BY Zenon DEF Deliver
<1>2. \A v \in T : waits[v] # <<>>
  BY PartnerWaits, Zenon
<1>3. waits[u] = <<>>
  BY Zenon DEF DeadInv, DeadThread
<1>4. u \notin T /\ u # t
  BY <1>2, <1>3, Zenon
<1> HIDE DEF T, w
<1> QED
  BY <1>1, <1>4, EndWaitOthers, GrabOthers, Zenon

LEMMA SelectOnDead ==
  ASSUME TypeOK, DeadInv, NEW t \in Thread, state[t] = "RUNNING", NEW w, SelectOn(t, w),
         NEW u \in Thread, state[u] = "TERMINATED"
  PROVE  DeadKept(u)
<1>0. u # t
  BY Zenon
<1>1. sysApc'[u] = sysApc[u]
  <2>1. DequeueApc(t, w.alertable, CheckWait(w, t))
    BY SMTT(30) DEF SelectOn
  <2> QED
    BY <1>0, <2>1, Zenon DEF DequeueApc, TypeOK
<1>2. CASE CheckWait(w, t) # "none"
  <2>1. Satisfied(w, t, CheckWait(w, t)) /\ EndWait(Partner(w, t, CheckWait(w, t)))
    BY <1>2, Zenon DEF SelectOn
  <2>2. waits[u] = <<>>
    BY Zenon DEF DeadInv, DeadThread
  <2>3. u \notin Partner(w, t, CheckWait(w, t))
    BY <2>2, PartnerWaits, Zenon
  <2>4. waits'[u] = waits[u] /\ mutexList'[u] = mutexList[u]
    BY <1>0, <2>1, <2>3, EndWaitOthers, GrabOthers, Zenon
  <2> QED
    BY <1>1, <2>4, Zenon DEF DeadKept
<1>3. CASE CheckWait(w, t) = "none"
  <2>1. WaitOn(t, Armed(w)) /\ mutexList' = mutexList
    BY <1>3, Zenon DEF SelectOn, mutexVars
  <2>2. waits'[u] = waits[u]
    BY <1>0, <2>1, Zenon DEF WaitOn, TypeOK
  <2> QED
    BY <1>1, <2>1, <2>2, Zenon DEF DeadKept
<1> QED
  BY <1>2, <1>3, Zenon

LEMMA NextDead ==
  ASSUME Smp = FALSE, IInv, DeadInv, [Next]_vars
  PROVE  DeadInv'
<1>0. TypeOK
  BY Zenon DEF IInv
<1>f. ASSUME DeadFrame PROVE DeadInv'
  BY <1>f, DeadFrameInv, SMTT(30)
<1>q. ASSUME state' = state, \A u \in Thread : late'[u] => late[u], waits' = waits,
             \A u \in Thread : state[u] = "TERMINATED" => mutexList'[u] \subseteq mutexList[u],
             \A u \in Thread : state[u] = "TERMINATED" => sysApc'[u] = sysApc[u],
             cont' = cont \/ cont.op \notin {"kill", "exit"}
      PROVE  DeadInv'
  BY <1>q, <1>f, Zenon DEF DeadFrame, DeadKept
<1>t. ASSUME NEW t \in Thread, late' = [late EXCEPT ![t] = FALSE]
      PROVE  \A u \in Thread : late'[u] => late[u]
  BY <1>0, <1>t, Zenon DEF TypeOK
<1>i. Idle => cont.op \notin {"kill", "exit"}
  BY DEF Idle, NoCont
<1>k. ASSUME NEW t \in Thread, Kill(t, FALSE), \A u \in Thread : ~late'[u], Idle,
             UNCHANGED <<sysApc, mutexList>>
      PROVE  DeadInv'
  <2> SUFFICES ASSUME NEW u \in Thread, state'[u] = "TERMINATED" PROVE DeadThread(u)'
    BY <1>k, Zenon DEF DeadInv
  <2>1. /\ state' = [state EXCEPT ![t] = "TERMINATED"]
        /\ waits' = [waits EXCEPT ![t] = <<>>]
        /\ cont' = [op |-> "kill", arg |-> t]
    BY <1>k, Zenon DEF Kill
  <2>2. CASE u = t
    BY <1>0, <2>1, <2>2, SMTT(30) DEF DeadThread, TypeOK
  <2>3. CASE u # t
    <3>1. state[u] = "TERMINATED" /\ waits'[u] = waits[u]
      BY <1>0, <2>1, <2>3, Zenon DEF TypeOK
    <3>2. DeadThread(u)
      BY <3>1, Zenon DEF DeadInv
    <3> QED
      BY <1>i, <1>k, <3>1, <3>2, Zenon DEF DeadThread
  <2> QED
    BY <2>2, <2>3, Zenon
<1>d. ASSUME NEW t \in Thread, waits[t] # <<>>, Deliver(t), state' = state, late' = late,
             cont' = cont \/ cont.op \notin {"kill", "exit"},
             \A u \in Thread : state[u] = "TERMINATED" => sysApc'[u] = sysApc[u]
      PROVE  DeadInv'
  <2>1. \A u \in Thread : state[u] = "TERMINATED" => DeadKept(u)
    BY <1>0, <1>d, DeliverDead, Zenon DEF DeadKept
  <2> QED
    BY <1>d, <1>f, <2>1, Zenon DEF DeadFrame
<1>1. CASE Step
  <2>1. CASE ScanWake
    BY <1>d, <2>1, Zenon DEF ScanWake, Wakeable, threadVars
  <2>2. CASE ScanAgain
    <3>1. scan.cur \in Thread
      BY <1>0, <2>2, Zenon DEF ScanAgain, TypeOK
    <3> QED
      BY <1>d, <2>2, <3>1, Zenon DEF ScanAgain, Wakeable, threadVars
  <2>3. CASE ScanSkip \/ ScanNext \/ ScanEnd
    BY <1>q, <2>3, Zenon DEF ScanSkip, ScanNext, ScanEnd, threadVars, waitVars, mutexVars
  <2>4. CASE PulseEnd \/ TimerSignal
    BY <1>q, <2>4, SMTT(30) DEF PulseEnd, TimerSignal, threadVars, waitVars, mutexVars
  <2>5. CASE SelectRest
    <3> DEFINE t == cont.arg
    <3>1. t \in Thread /\ cont.op \notin {"kill", "exit"} /\ UNCHANGED <<state, late>>
      BY <2>5, Zenon DEF SelectRest, IInv, ContOK
    <3>2. CASE UNCHANGED <<sysApc, waitVars, mutexVars>>
      BY <1>q, <3>1, <3>2, Zenon DEF waitVars, mutexVars
    <3>3. CASE /\ waits[t] # <<>> /\ Deliver(t)
               /\ DequeueApc(t, Head(waits[t]).alertable, CheckWait(Head(waits[t]), t))
      <4>1. \A u \in Thread : state[u] = "TERMINATED" => u # t
        BY <3>3, Zenon DEF DeadInv, DeadThread
      <4>2. \A u \in Thread : u # t => sysApc'[u] = sysApc[u]
        <5> HIDE DEF t
        <5> QED
          BY <1>0, <3>1, <3>3, Zenon DEF DequeueApc, TypeOK
      <4> QED
        BY <1>d, <3>1, <3>3, <4>1, <4>2, Zenon
    <3>4. CASE /\ waits[t] # <<>> /\ UNCHANGED <<sysApc, mutexVars>>
               /\ waits' = [waits EXCEPT ![t] = <<Armed(Head(waits[t]))>> \o Tail(@)]
      <4>1. \A u \in Thread : state[u] = "TERMINATED" => u # t
        BY <3>4, Zenon DEF DeadInv, DeadThread
      <4>2. \A u \in Thread : u # t => waits'[u] = waits[u]
        <5> HIDE DEF t
        <5> QED
          BY <1>0, <3>1, <3>4, SMTT(30) DEF TypeOK
      <4>3. \A u \in Thread : state[u] = "TERMINATED" => DeadKept(u)
        BY <3>4, <4>1, <4>2, Zenon DEF DeadKept, mutexVars
      <4> QED
        BY <1>f, <3>1, <4>3, Zenon DEF DeadFrame
    <3> QED
      BY <2>5, <3>2, <3>3, <3>4, Zenon DEF SelectRest
  <2>6. ASSUME NEW m \in Mutex, KillAbandon(m) PROVE DeadInv'
    <3>1. cont.arg \in Thread
      BY <2>6, Zenon DEF KillAbandon, IInv, ContOK
    <3>2. \A u \in Thread : mutexList'[u] \subseteq mutexList[u]
      BY <1>0, <2>6, <3>1, Zenon DEF KillAbandon, TypeOK
    <3> QED
      BY <1>q, <2>6, <3>2, Zenon DEF KillAbandon, threadVars, waitVars
  <2>7. CASE KillSignal
    <3>1. /\ cont.op = "kill" /\ mutexList[cont.arg] = {}
          /\ cont' = [cont EXCEPT !.op = "exit"]
          /\ UNCHANGED <<state, late, sysApc, waits, mutexList>>
      BY <2>7, Zenon DEF KillSignal, threadVars, waitVars, mutexVars
    <3>2. cont'.op = "exit" /\ cont'.arg = cont.arg
      BY <1>0, <3>1, SMTT(30) DEF TypeOK
    <3> QED
      BY <3>1, <3>2, Zenon DEF DeadInv, DeadThread
  <2>8. CASE KillCleanup
    <3>1. /\ cont.op = "exit" /\ sysApc' = [sysApc EXCEPT ![cont.arg] = 0]
          /\ UNCHANGED <<state, late, waits, mutexList>>
      BY <2>8, Zenon DEF KillCleanup, waitVars, mutexVars
    <3>2. \A u \in Thread : sysApc'[u] = IF u = cont.arg THEN 0 ELSE sysApc[u]
      BY <1>0, <3>1, Zenon DEF TypeOK
    <3> QED
      BY <3>1, <3>2, Zenon DEF DeadInv, DeadThread
  <2> QED
    BY <1>1, <2>1, <2>2, <2>3, <2>4, <2>5, <2>6, <2>7, <2>8, Zenon DEF Step
<1>2. ASSUME NEW t \in Thread, NewRequest(t) PROVE DeadInv'
  <2>0. Request(t) => state[t] = "RUNNING" /\ cont.op \notin {"kill", "exit"}
    BY <1>i, Zenon DEF Request, DeadInv
  <2>n. ASSUME Request(t), NoThreadChange(t), waits' = waits, mutexList' = mutexList
        PROVE  DeadInv'
    BY <1>q, <1>t, <2>0, <2>n, ZenonT(30) DEF NoThreadChange
  <2>m. ASSUME NEW m, DropMutex(t, m)
        PROVE  \A u \in Thread : mutexList'[u] \subseteq mutexList[u]
    BY <1>0, <2>m, DropSubset, Zenon
  <2>1. ASSUME NEW e \in Event, SetEvent(t, e) \/ PulseEvent(t, e) \/ ResetEvent(t, e)
        PROVE  DeadInv'
    BY <2>n, <2>1, Zenon DEF SetEvent, PulseEvent, ResetEvent, waitVars, mutexVars
  <2>2. CASE \E s \in Semaphore, n \in Counts : ReleaseSemaphore(t, s, n)
    BY <2>n, <2>2, SMTT(30) DEF ReleaseSemaphore, waitVars, mutexVars
  <2>3. ASSUME NEW m \in Mutex, ReleaseMutex(t, m) PROVE DeadInv'
    BY <1>q, <1>t, <2>0, <2>m, <2>3, Zenon DEF ReleaseMutex, NoThreadChange, waitVars
  <2>4. CASE \E x \in Timer : CancelTimer(t, x) \/ \E set \in TimerSets : SetTimer(t, x, set)
    BY <1>q, <1>t, <2>0, <2>4, Zenon DEF CancelTimer, SetTimer, waitVars, mutexVars, jobVars
  <2>5. ASSUME NEW sel \in Selects, Select(t, sel) PROVE DeadInv'
    <3>1. \A u \in Thread : state[u] = "TERMINATED" => DeadKept(u)
      BY <1>0, <2>0, <2>5, SelectOnDead, Zenon DEF Select
    <3> QED
      BY <1>f, <1>t, <2>5, <3>1, Zenon DEF Select, DeadFrame, jobVars
  <2>6. ASSUME NEW sel \in Selects, SignalAndWait(t, sel) PROVE DeadInv'
    <3>1. /\ Request(t) /\ WaitOn(t, WaitOf(sel)) /\ SignalObject(t, sel.signal)
          /\ NoThreadChange(t)
      BY <2>6, Zenon DEF SignalAndWait
    <3>2. \A u \in Thread : u # t => waits'[u] = waits[u]
      BY <1>0, <3>1, SMTT(30) DEF WaitOn, TypeOK
    <3>3. \A u \in Thread : mutexList'[u] \subseteq mutexList[u]
      BY <2>m, <3>1, SMTT(30) DEF SignalObject, mutexVars
    <3>4. \A u \in Thread : state[u] = "TERMINATED" => DeadKept(u)
      BY <2>0, <3>1, <3>2, <3>3, ZenonT(30) DEF DeadKept, NoThreadChange
    <3> QED
      BY <1>f, <1>t, <2>0, <3>1, <3>4, Zenon DEF DeadFrame, NoThreadChange
  <2>7. ASSUME NEW u \in Thread, SuspendThread(t, u) \/ ResumeThread(t, u) \/ QueueUserApc(t, u)
        PROVE  DeadInv'
    BY <1>q, <1>t, <2>0, <2>7, ZenonT(30)
       DEF SuspendThread, ResumeThread, QueueUserApc, waitVars, mutexVars, jobVars
  <2>8. ASSUME NEW u \in Thread, QueueSystemApc(t, u) PROVE DeadInv'
    <3>1. \A v \in Thread : v # u => sysApc'[v] = sysApc[v]
      BY <1>0, <2>8, Zenon DEF QueueSystemApc, TypeOK
    <3>2. \A v \in Thread : state[v] = "TERMINATED" => v # u
      BY <2>8, SMTT(30) DEF QueueSystemApc
    <3> QED
      BY <1>q, <1>t, <2>0, <2>8, <3>1, <3>2, ZenonT(30) DEF QueueSystemApc, waitVars, mutexVars
  <2>9. ASSUME NEW u \in Thread, NEW inside \in {FALSE, Smp}, TerminateThread(t, u, inside)
        PROVE  DeadInv'
    <3>1. inside = FALSE
      BY Zenon
    <3>2. late' = [late EXCEPT ![t] = FALSE, ![u] = FALSE]
      BY <2>9, <3>1, Zenon DEF TerminateThread
    <3>3. \A v \in Thread : ~late'[v]
      BY <1>0, <3>2, ZenonT(30) DEF DeadInv, TypeOK
    <3> QED
      BY <1>k, <2>9, <3>1, <3>3, Zenon DEF TerminateThread, Request, mutexVars
  <2>10. CASE ExitThread(t)
    BY <1>k, <2>10, Zenon DEF ExitThread, mutexVars, DeadInv
  <2> QED
    BY <1>2, <2>1, <2>2, <2>3, <2>4, <2>5, <2>6, <2>7, <2>8, <2>9, <2>10, ZenonT(30) DEF NewRequest
<1>3. ASSUME NEW t \in Thread, SignalHandler(t) PROVE DeadInv'
  <2>1. \A u \in Thread : state[u] = "TERMINATED" => DeadKept(u)
    BY <1>0, <1>3, SelectOnDead, Zenon DEF SignalHandler
  <2> QED
    BY <1>3, <1>f, <2>1, Zenon DEF SignalHandler, DeadFrame, jobVars
<1>4. ASSUME NEW t \in Thread, NEW i, ThreadTimeout(t, i) \/ Expire(t, i) PROVE DeadInv'
  <2>1. i \in DOMAIN waits[t]
    BY <1>4, Zenon DEF ThreadTimeout, Expire
  <2>2. \A u \in Thread : state[u] = "TERMINATED" => u # t
    BY <2>1 DEF DeadInv, DeadThread
  <2>3. \A u \in Thread : u # t => waits'[u] = waits[u]
    <3>1. CASE Expire(t, i)
      BY <1>0, <3>1, Zenon DEF Expire, TypeOK
    <3>2. CASE ThreadTimeout(t, i) /\ EndWait({t})
      BY <3>2, EndWaitOthers
    <3>3. CASE ThreadTimeout(t, i) /\ waits' = [waits EXCEPT ![t][i].armed = FALSE]
      BY <1>0, <3>3, Zenon DEF TypeOK
    <3> QED
      BY <1>4, <3>1, <3>2, <3>3, Zenon DEF ThreadTimeout
  <2>4. UNCHANGED <<state, late, sysApc, mutexList, cont>>
    BY <1>4, Zenon DEF ThreadTimeout, Expire, threadVars, mutexVars, jobVars
  <2>5. \A u \in Thread : state[u] = "TERMINATED" => DeadKept(u)
    BY <2>2, <2>3, <2>4, Zenon DEF DeadKept
  <2> QED
    BY <1>f, <2>4, <2>5, Zenon DEF DeadFrame
<1>5. ASSUME NEW x \in Timer, TimerCallback(x) PROVE DeadInv'
  BY <1>5, <1>i, <1>q, Zenon DEF TimerCallback, waitVars, mutexVars
<1>6. CASE UNCHANGED vars
  BY <1>6, <1>q, Zenon DEF vars, threadVars, waitVars, mutexVars, jobVars
<1> QED
  BY <1>1, <1>2, <1>3, <1>4, <1>5, <1>6, Zenon DEF Next, Timers

\* Whatever the threads do, on one processor: once kill_thread is done, a thread
\* that has ended is in no wait, owns no mutex and has no APC to run.  On several
\* processors a thread killed while it waits for uk_lock still makes that request,
\* and may begin a wait with it.
THEOREM DeadThreadsGone ==
  ASSUME Smp = FALSE
  PROVE  Spec => []DeadThreadGone
<1>1. Init => DeadInv
  BY Zenon DEF Init, DeadInv
<1>2. IInv /\ DeadInv /\ [Next]_vars => DeadInv'
  BY NextDead, ZenonT(30)
<1>3. IInv /\ DeadInv => DeadThreadGone
  BY Zenon DEF IInv, DeadNoApc, DeadInv, DeadThread, DeadThreadGone
<1> QED
  BY InitIInv, NextIInv, <1>1, <1>2, <1>3, PTL DEF Spec

-----------------------------------------------------------------------------
(* Suspended threads.                                                       *)

\* What a step may do to a suspended thread.
Idles(u) ==
  /\ mutexList'[u] \subseteq mutexList[u]
  /\ Len(waits'[u]) < Len(waits[u]) => reply'[u] \in {"system_apc", "killed"}

LEMMA SuspendedStatus ==
  ASSUME NEW w, NEW t, suspend[t] > 0
  PROVE  /\ CheckWait(w, t) \in {"system_apc", "none"}
         /\ CheckWait(w, t) # "none" => Result(w, t, CheckWait(w, t)) = "system_apc"
BY SMTT(30) DEF CheckWait, Result, Taken

\* The partner of a keyed wait is not suspended.
LEMMA PartnerRuns ==
  ASSUME NEW w, NEW t, NEW status, NEW u \in Partner(w, t, status)
  PROVE  suspend[u] = 0
BY Zenon DEF Partner, Partners

LEMMA DeliverIdles ==
  ASSUME TypeOK, NEW t \in Thread, Deliver(t), CheckWait(Head(waits[t]), t) # "none",
         NEW u \in Thread, suspend[u] > 0
  PROVE  Idles(u)
<1> DEFINE w == Head(waits[t])
           st == CheckWait(w, t)
           T == {t} \cup Partner(w, t, st)
<1>1. Satisfied(w, t, st) /\ EndWait(T) /\ Answer(w, t, st)
  BY Zenon DEF Deliver
<1>2. suspend[u] \in Nat
  BY DEF TypeOK
<1>3. u \notin Partner(w, t, st)
  BY <1>2, PartnerRuns
<1>4. u = t => st = "system_apc" /\ Result(w, t, st) = "system_apc"
  BY SuspendedStatus, Zenon
<1> HIDE DEF w, st
<1>5. mutexList'[u] = mutexList[u]
  BY <1>1, <1>4, GrabOthers, Zenon
<1>6. CASE u = t
  BY <1>1, <1>4, <1>5, <1>6, Zenon DEF Answer, Idles
<1>7. CASE u # t
  <2>1. waits'[u] = waits[u]
    BY <1>1, <1>3, <1>7, EndWaitOthers, SMTT(30)
  <2>2. waits[u] \in Seq(WaitType)
    BY Zenon DEF TypeOK
  <2>3. ~(Len(waits'[u]) < Len(waits[u]))
    BY <2>1, <2>2
  <2> QED
    BY <1>5, <2>3, Zenon DEF Idles
<1> QED
  BY <1>6, <1>7, Zenon

LEMMA SameIdles ==
  ASSUME TypeOK, NEW u \in Thread, waits'[u] = waits[u], mutexList'[u] \subseteq mutexList[u]
  PROVE  Idles(u)
<1>1. waits[u] \in Seq(WaitType)
  BY Zenon DEF TypeOK
<1> QED
  BY <1>1 DEF Idles

LEMMA PushLen ==
  ASSUME NEW S, NEW s \in Seq(S), NEW w
  PROVE  Len(<<w>> \o s) = Len(s) + 1
<1> DEFINE T == S \cup {w}
<1>1. s \in Seq(T) /\ <<w>> \in Seq(T)
  OBVIOUS
<1> HIDE DEF T
<1>2. Len(<<w>>) = 1
  BY Zenon
<1> QED BY <1>1, <1>2

\* A stack of waits that grows, or in which a wait changes.
LEMMA PushIdles ==
  ASSUME TypeOK, NEW u \in Thread, NEW t \in Thread, NEW w, WaitOn(t, w),
         mutexList'[u] \subseteq mutexList[u]
  PROVE  Idles(u)
<1>1. waits[u] \in Seq(WaitType)
  BY Zenon DEF TypeOK
<1>2. CASE u = t
  <2>1. waits'[u] = <<w>> \o waits[u]
    BY <1>2, SMTT(30) DEF WaitOn, TypeOK
  <2>2. Len(<<w>> \o waits[u]) = Len(waits[u]) + 1
    BY <1>1, PushLen, Zenon
  <2> QED
    BY <1>1, <2>1, <2>2, SMTT(30) DEF Idles
<1>3. CASE u # t
  <2>1. waits'[u] = waits[u]
    BY <1>3, Zenon DEF WaitOn, TypeOK
  <2> QED
    BY <2>1, SameIdles, SMTT(30)
<1> QED
  BY <1>2, <1>3, SMTT(30)

LEMMA ChangeIdles ==
  ASSUME TypeOK, NEW u \in Thread, NEW t \in Thread, NEW s \in Seq(WaitType),
         waits' = [waits EXCEPT ![t] = s], Len(s) = Len(waits[t]),
         mutexList'[u] \subseteq mutexList[u]
  PROVE  Idles(u)
<1>1. waits[u] \in Seq(WaitType)
  BY Zenon DEF TypeOK
<1>2. Len(waits'[u]) = Len(waits[u])
  BY Zenon DEF TypeOK
<1> QED
  BY <1>1, <1>2 DEF Idles

LEMMA SelectOnIdles ==
  ASSUME TypeOK, NEW t \in Thread, NEW w, SelectOn(t, w), NEW u \in Thread, suspend[u] > 0
  PROVE  Idles(u)
<1> DEFINE st == CheckWait(w, t)
<1>1. CASE st # "none"
  <2>1. Satisfied(w, t, st) /\ EndWait(Partner(w, t, st))
    BY <1>1, Zenon DEF SelectOn
  <2>2. suspend[u] \in Nat
    BY DEF TypeOK
  <2>3. u \notin Partner(w, t, st)
    BY <2>2, PartnerRuns
  <2>4. u = t => st # "object"
    BY SuspendedStatus, Zenon
  <2> HIDE DEF st
  <2>5. mutexList'[u] = mutexList[u] /\ waits'[u] = waits[u]
    BY <2>1, <2>3, <2>4, EndWaitOthers, GrabOthers, SMTT(30)
  <2> QED
    BY <2>5, SameIdles, Zenon
<1>2. CASE st = "none"
  BY <1>2, PushIdles, Zenon DEF SelectOn, mutexVars
<1> QED
  BY <1>1, <1>2, Zenon

LEMMA NextIdles ==
  ASSUME IInv, [Next]_vars, NEW u \in Thread, suspend[u] > 0
  PROVE  Idles(u)
<1>0. TypeOK
  BY Zenon DEF IInv
<1>q. ASSUME waits' = waits, mutexList' = mutexList PROVE Idles(u)
  BY <1>0, <1>q, SameIdles, Zenon
<1>m. ASSUME NEW t \in Thread, NEW m, DropMutex(t, m) PROVE mutexList'[u] \subseteq mutexList[u]
  BY <1>0, <1>m, DropSubset, Zenon
<1>k. ASSUME NEW t \in Thread, NEW inside, Kill(t, inside), mutexList' = mutexList PROVE Idles(u)
  <2>1. /\ waits' = [waits EXCEPT ![t] = <<>>]
        /\ reply' = [reply EXCEPT ![t] = IF waits[t] # <<>> THEN "killed" ELSE reply[t]]
    BY <1>k, Zenon DEF Kill
  <2>2. CASE u # t \/ waits[u] = <<>>
    <3>1. waits'[u] = waits[u]
      BY <1>0, <2>1, <2>2, Zenon DEF TypeOK
    <3> QED
      BY <1>0, <1>k, <3>1, SameIdles, Zenon
  <2>3. CASE u = t /\ waits[u] # <<>>
    <3>1. reply'[u] = "killed"
      BY <1>0, <2>1, <2>3, Zenon DEF TypeOK
    <3> QED
      BY <1>k, <3>1, Zenon DEF Idles
  <2> QED
    BY <2>2, <2>3, Zenon
<1>1. CASE Step
  <2>1. CASE ScanWake
    BY <1>0, <2>1, DeliverIdles, Zenon DEF ScanWake, Wakeable
  <2>2. CASE ScanAgain
    <3>1. scan.cur \in Thread
      BY <1>0, <2>2, Zenon DEF ScanAgain, TypeOK
    <3> QED
      BY <1>0, <2>2, <3>1, DeliverIdles, Zenon DEF ScanAgain, Wakeable
  <2>3. CASE ScanSkip \/ ScanNext \/ ScanEnd \/ KillSignal \/ KillCleanup \/ PulseEnd \/ TimerSignal
    BY <1>q, <2>3, Zenon DEF ScanSkip, ScanNext, ScanEnd, KillSignal, KillCleanup, PulseEnd, TimerSignal,
                      waitVars, mutexVars
  <2>4. CASE SelectRest
    <3> DEFINE t == cont.arg
    <3>1. t \in Thread
      BY <2>4, Zenon DEF SelectRest, IInv, ContOK
    <3>2. CASE UNCHANGED <<waitVars, mutexVars>>
      BY <1>q, <3>2, Zenon DEF waitVars, mutexVars
    <3>3. CASE CheckWait(Head(waits[t]), t) # "none" /\ Deliver(t)
      BY <1>0, <3>1, <3>3, DeliverIdles, Zenon
    <3>4. CASE /\ waits[t] # <<>> /\ UNCHANGED mutexVars
               /\ waits' = [waits EXCEPT ![t] = <<Armed(Head(@))>> \o Tail(@)]
      <4> HIDE DEF t
      <4>1. waits[t] \in Seq(WaitType) /\ Head(waits[t]) \in WaitType
        BY <1>0, <3>1, <3>4 DEF TypeOK
      <4>2. Armed(Head(waits[t])) \in WaitType
        BY <4>1, ArmedSame, Zenon
      <4> DEFINE s == <<Armed(Head(waits[t]))>> \o Tail(waits[t])
      <4>3. s \in Seq(WaitType) /\ Len(s) = Len(waits[t])
        BY <3>4, <4>1, <4>2
      <4>4. waits' = [waits EXCEPT ![t] = s] /\ mutexList'[u] \subseteq mutexList[u]
        BY <3>4, Zenon DEF mutexVars
      <4> HIDE DEF s
      <4> QED
        BY <1>0, <3>1, <4>3, <4>4, ChangeIdles, Zenon
    <3> QED
      BY <2>4, <3>2, <3>3, <3>4, SMTT(30) DEF SelectRest
  <2>5. ASSUME NEW m \in Mutex, KillAbandon(m) PROVE Idles(u)
    <3>1. cont.arg \in Thread /\ waits' = waits
      BY <2>5, SMTT(30) DEF KillAbandon, IInv, ContOK, waitVars
    <3>2. mutexList'[u] = IF u = cont.arg THEN mutexList[u] \ {m} ELSE mutexList[u]
      BY <1>0, <2>5, <3>1, Zenon DEF KillAbandon, TypeOK
    <3>3. mutexList'[u] \subseteq mutexList[u]
      BY <3>2, Zenon
    <3> QED
      BY <1>0, <3>1, <3>3, SameIdles, Zenon
  <2> QED
    BY <1>1, <2>1, <2>2, <2>3, <2>4, <2>5, Zenon DEF Step
<1>2. ASSUME NEW t \in Thread, NewRequest(t) PROVE Idles(u)
  <2>1. ASSUME NEW e \in Event, SetEvent(t, e) \/ PulseEvent(t, e) \/ ResetEvent(t, e)
        PROVE  Idles(u)
    BY <1>q, <2>1, Zenon DEF SetEvent, PulseEvent, ResetEvent, waitVars, mutexVars
  <2>2. CASE \E s \in Semaphore, n \in Counts : ReleaseSemaphore(t, s, n)
    BY <1>q, <2>2, SMTT(30) DEF ReleaseSemaphore, waitVars, mutexVars
  <2>3. ASSUME NEW m \in Mutex, ReleaseMutex(t, m) PROVE Idles(u)
    BY <1>0, <1>m, <2>3, SameIdles, Zenon DEF ReleaseMutex, waitVars
  <2>4. CASE \E x \in Timer : CancelTimer(t, x) \/ \E set \in TimerSets : SetTimer(t, x, set)
    BY <1>q, <2>4, Zenon DEF CancelTimer, SetTimer, waitVars, mutexVars
  <2>5. ASSUME NEW sel \in Selects, Select(t, sel) PROVE Idles(u)
    BY <1>0, <2>5, SelectOnIdles, Zenon DEF Select
  <2>6. ASSUME NEW sel \in Selects, SignalAndWait(t, sel) PROVE Idles(u)
    <3>1. WaitOn(t, WaitOf(sel)) /\ SignalObject(t, sel.signal)
      BY <2>6, Zenon DEF SignalAndWait
    <3>2. mutexList'[u] \subseteq mutexList[u]
      BY <1>m, <3>1, SMTT(30) DEF SignalObject, mutexVars
    <3> QED
      BY <1>0, <3>1, <3>2, PushIdles, Zenon
  <2>7. ASSUME NEW v \in Thread, \/ SuspendThread(t, v) \/ ResumeThread(t, v)
                                 \/ QueueUserApc(t, v) \/ QueueSystemApc(t, v)
        PROVE  Idles(u)
    BY <1>q, <2>7, Zenon
       DEF SuspendThread, ResumeThread, QueueUserApc, QueueSystemApc, waitVars, mutexVars
  <2>8. ASSUME NEW v \in Thread, NEW inside, TerminateThread(t, v, inside) PROVE Idles(u)
    BY <1>k, <2>8, Zenon DEF TerminateThread, mutexVars
  <2>9. CASE ExitThread(t)
    BY <1>k, <2>9, Zenon DEF ExitThread, mutexVars
  <2> QED
    BY <1>2, <2>1, <2>2, <2>3, <2>4, <2>5, <2>6, <2>7, <2>8, <2>9, Zenon DEF NewRequest
<1>3. ASSUME NEW t \in Thread, SignalHandler(t) PROVE Idles(u)
  BY <1>0, <1>3, SelectOnIdles, Zenon DEF SignalHandler
<1>4. ASSUME NEW t \in Thread, NEW i, ThreadTimeout(t, i) \/ Expire(t, i) PROVE Idles(u)
  <2>1. /\ i \in DOMAIN waits[t] /\ waits[t] \in Seq(WaitType) /\ waits[t][i] \in WaitType
        /\ mutexList'[u] \subseteq mutexList[u]
    BY <1>0, <1>4 DEF ThreadTimeout, Expire, TypeOK, mutexVars
  <2>2. CASE suspend[t] = 0 /\ EndWait({t})
    <3>1. u # t
      BY <2>2
    <3> QED
      BY <1>0, <2>1, <2>2, <3>1, EndWaitOthers, SameIdles
  <2>3. ASSUME NEW w \in WaitType, waits' = [waits EXCEPT ![t] = [waits[t] EXCEPT ![i] = w]]
        PROVE  Idles(u)
    <3> DEFINE s == [waits[t] EXCEPT ![i] = w]
    <3>1. s \in Seq(WaitType) /\ Len(s) = Len(waits[t])
      BY <2>1
    <3> HIDE DEF s
    <3>2. waits' = [waits EXCEPT ![t] = s]
      BY <2>3, Zenon DEF s
    <3> QED
      BY <1>0, <2>1, <3>1, <3>2, ChangeIdles, Zenon
  <2>4. /\ [waits[t][i] EXCEPT !.timeout = "past"] \in WaitType
        /\ [waits[t][i] EXCEPT !.armed = FALSE] \in WaitType
    BY <2>1, Zenon DEF WaitType
  <2> QED
    BY <1>4, <2>2, <2>3, <2>4, Zenon DEF ThreadTimeout, Expire
<1>5. ASSUME NEW x \in Timer, TimerCallback(x) PROVE Idles(u)
  BY <1>q, <1>5, Zenon DEF TimerCallback, waitVars, mutexVars
<1>6. CASE UNCHANGED vars
  BY <1>q, <1>6, Zenon DEF vars, waitVars, mutexVars
<1> QED
  BY <1>1, <1>2, <1>3, <1>4, <1>5, <1>6, Zenon DEF Next, Timers

\* Whatever the threads do: a suspended thread takes no mutex, and leaves a wait
\* only for a system APC or because it is killed (the test of thread->suspend in
\* check_wait and in thread_timeout).
THEOREM SuspendedThreadsIdle == Spec => SuspendedAcquiresNothing
<1> DEFINE Quiet == \A t \in Thread : suspend[t] > 0 /\ suspend'[t] > 0 =>
                      /\ mutexList'[t] \subseteq mutexList[t]
                      /\ Len(waits'[t]) < Len(waits[t]) => reply'[t] \in {"system_apc", "killed"}
<1>1. IInv /\ [Next]_vars => [Quiet]_vars
  BY NextIdles, Zenon DEF Idles
<1> QED
  BY InitIInv, NextIInv, <1>1, PTL DEF Spec, SuspendedAcquiresNothing

-----------------------------------------------------------------------------
(* The wait queues of the objects and the stacks of waits of the threads     *)
(* agree (QueueConsistent).                                                  *)

\* The wait at level l of a stack, counted from its bottom: a wait keeps its
\* level as long as it lasts.
AtLevel(s, l) == s[Len(s) + 1 - l]

\* The stacks of all threads.
Stacks == [Thread -> Seq(WaitType)]

Entry == Thread \X Nat

\* The queue q of object o fits the stacks W.
Fits(q, W, o) ==
  /\ q \in Seq(Entry)
  /\ \A k \in DOMAIN q : q[k][2] \in 1 .. Len(W[q[k][1]])
  /\ \A t \in Thread : \A l \in 1 .. Len(W[t]) :
       Cardinality(Occurrences(AtLevel(W[t], l), o)) = Count(q, <<t, l>>)

\* V has only waits of W, at their levels, for the same objects.
Lower(V, W) ==
  \A t \in Thread :
    /\ Len(V[t]) <= Len(W[t])
    /\ \A l \in 1 .. Len(V[t]) : AtLevel(V[t], l).objs = AtLevel(W[t], l).objs

LEMMA SameFits ==
  ASSUME NEW V \in Stacks, NEW W \in Stacks, NEW q, NEW o, Fits(q, W, o), Lower(V, W),
         \A t \in Thread : Len(V[t]) = Len(W[t])
  PROVE  Fits(q, V, o)
<1>1. \A k \in DOMAIN q : q[k][1] \in Thread
  BY SMTT(30) DEF Fits, Entry
<1>2. ASSUME NEW t \in Thread, NEW l \in 1 .. Len(V[t])
      PROVE  Occurrences(AtLevel(V[t], l), o) = Occurrences(AtLevel(W[t], l), o)
  BY SMTT(30) DEF Lower, Occurrences
<1> QED BY <1>1, <1>2, SMTT(30) DEF Fits

LEMMA KeepFits ==
  ASSUME NEW V \in Stacks, NEW W \in Stacks, NEW q, NEW o, Fits(q, W, o), Lower(V, W),
         NEW K \in SUBSET DOMAIN q,
         \A k \in DOMAIN q : k \in K <=> q[k][2] <= Len(V[q[k][1]])
  PROVE  Fits(Keep(q, K), V, o)
<1> DEFINE r == Keep(q, K)
<1>0. \A t \in Thread : Len(V[t]) \in Nat /\ Len(W[t]) \in Nat /\ Len(V[t]) <= Len(W[t])
  BY SMTT(30) DEF Lower, Stacks
<1>1. /\ q \in Seq(Entry) /\ \A k \in DOMAIN q : q[k][1] \in Thread
      /\ \A k \in DOMAIN q : q[k][2] \in 1 .. Len(W[q[k][1]])
  BY SMTT(30) DEF Fits, Entry
<1>2. /\ r \in Seq(Entry) /\ DOMAIN r = 1 .. Cardinality(K)
      /\ \A i \in DOMAIN r : \E k \in K : r[i] = q[k]
  BY <1>1, KeepAt, ZenonT(30)
<1>3. ASSUME NEW i \in DOMAIN r PROVE r[i][2] \in 1 .. Len(V[r[i][1]])
  <2>1. PICK k \in K : r[i] = q[k]
    BY <1>2, Zenon
  <2>2. q[k][2] \in 1 .. Len(W[q[k][1]]) /\ q[k][2] <= Len(V[q[k][1]]) /\ q[k][1] \in Thread
    BY <1>1, Zenon
  <2> HIDE DEF r
  <2>3. q[k][2] \in 1 .. Len(V[q[k][1]])
    BY <1>0, <2>2, SMTT(30)
  <2> QED BY <2>1, <2>3, Zenon
<1>4. ASSUME NEW t \in Thread, NEW l \in 1 .. Len(V[t])
      PROVE  Cardinality(Occurrences(AtLevel(V[t], l), o)) = Count(r, <<t, l>>)
  <2>1. Occurrences(AtLevel(V[t], l), o) = Occurrences(AtLevel(W[t], l), o)
    BY Zenon DEF Lower, Occurrences
  <2>2. l \in 1 .. Len(W[t]) /\ l <= Len(V[t])
    BY <1>0
  <2>3. Count(r, <<t, l>>) = Cardinality({k \in K : q[k] = <<t, l>>})
    <3> DEFINE e == <<t, l>>
    <3> HIDE DEF e
    <3>1. Count(r, e) = Cardinality({k \in K : q[k] = e})
      BY <1>1, KeepCount
    <3> QED BY <3>1, Zenon DEF e
  <2>4. ASSUME NEW k \in DOMAIN q, q[k] = <<t, l>> PROVE k \in K
    <3>1. q[k][1] = t /\ q[k][2] = l
      BY <2>4
    <3> QED BY <2>2, <3>1, Zenon
  <2>5. {k \in K : q[k] = <<t, l>>} = {k \in DOMAIN q : q[k] = <<t, l>>}
    BY <2>4, Zenon
  <2>6. Cardinality(Occurrences(AtLevel(W[t], l), o)) = Count(q, <<t, l>>)
    BY <2>2, Zenon DEF Fits
  <2> QED BY <2>1, <2>3, <2>5, <2>6, Zenon DEF Count
<1> HIDE DEF r
<1> QED BY <1>2, <1>3, <1>4, SMTT(30) DEF Fits, r

\* What happens to the queue when a wait is pushed.
Repeat(e, n) == [i \in 1 .. n |-> e]

\* r is the queue q after n entries e have joined it.
Joined(r, q, e, n) ==
  q \in Seq(Entry) /\ n \in Nat /\ e \in Entry /\ r = q \o Repeat(e, n)

LEMMA RepeatedEnd ==
  ASSUME NEW r, NEW q, NEW e, NEW n, Joined(r, q, e, n)
  PROVE  /\ r \in Seq(Entry)
         /\ \A k \in DOMAIN r : r[k] = e \/ (k \in DOMAIN q /\ r[k] = q[k])
         /\ \A d : d # e => Count(r, d) = Count(q, d)
         /\ (\A k \in DOMAIN q : q[k] # e) => Count(r, e) = n
<1> USE DEF Joined
<1> DEFINE c == Repeat(e, n)
<1>0. r = q \o c
  BY Zenon
<1>1. c \in Seq(Entry) /\ Len(c) = n /\ \A i \in 1 .. n : c[i] = e
  BY DEF Repeat
<1> HIDE DEF c
<1>2. /\ r \in Seq(Entry) /\ Len(q) \in Nat /\ DOMAIN q = 1 .. Len(q)
      /\ DOMAIN r = 1 .. Len(q) + n
  BY <1>0, <1>1
<1>3. \A k \in 1 .. Len(q) + n : r[k] = IF k <= Len(q) THEN q[k] ELSE c[k - Len(q)]
  BY <1>0, <1>1
<1>4. \A k \in 1 .. Len(q) + n : ~(k <= Len(q)) => r[k] = e
  BY <1>1, <1>2, <1>3
<1>5. \A k \in DOMAIN r : (k \in DOMAIN q /\ r[k] = q[k]) \/ (k \notin DOMAIN q /\ r[k] = e)
  BY <1>2, <1>3, <1>4
<1>6. DOMAIN q \subseteq DOMAIN r
  BY <1>2
<1>7. ASSUME NEW d, d # e PROVE Count(r, d) = Count(q, d)
  <2>1. {k \in DOMAIN r : r[k] = d} = {k \in DOMAIN q : q[k] = d}
    BY <1>5, <1>6, <1>7, Zenon
  <2> QED BY <2>1, Zenon DEF Count
<1>8. ASSUME \A k \in DOMAIN q : q[k] # e PROVE Count(r, e) = n
  <2>1. {k \in DOMAIN r : r[k] = e} = {k \in DOMAIN r : k \notin DOMAIN q}
    BY <1>5, <1>6, <1>8, Zenon
  <2>2. {k \in DOMAIN r : k \notin DOMAIN q} = Len(q) + 1 .. Len(q) + n
    BY <1>2
  <2>3. Cardinality(Len(q) + 1 .. Len(q) + n) = n
    BY <1>2, FS_Interval
  <2> QED BY <2>1, <2>2, <2>3, Zenon DEF Count
<1> QED BY <1>2, <1>5, <1>7, <1>8, Zenon

LEMMA OccurrencesFinite ==
  ASSUME NEW w, w.objs \in Seq(Object), NEW o
  PROVE  IsFiniteSet(Occurrences(w, o)) /\ Cardinality(Occurrences(w, o)) \in Nat
<1>1. IsFiniteSet(DOMAIN w.objs)
  BY FS_Interval
<1>2. Occurrences(w, o) \in SUBSET DOMAIN w.objs
  BY Zenon DEF Occurrences
<1> QED BY <1>1, <1>2, FS_Subset, FS_CardinalityType, Zenon

LEMMA PushFits ==
  ASSUME NEW W \in Stacks, NEW t \in Thread, NEW w \in WaitType, NEW q, NEW o, Fits(q, W, o)
  PROVE  LET V == [W EXCEPT ![t] = <<w>> \o W[t]]
             n == Cardinality(Occurrences(w, o))
         IN  Fits(q \o [i \in 1 .. n |-> <<t, Len(W[t]) + 1>>], V, o)
<1> DEFINE V == [W EXCEPT ![t] = <<w>> \o W[t]]
           n == Cardinality(Occurrences(w, o))
           e == <<t, Len(W[t]) + 1>>
           r == q \o [i \in 1 .. n |-> e]
<1>0. W[t] \in Seq(WaitType) /\ Len(W[t]) \in Nat /\ \A u \in Thread : Len(W[u]) \in Nat
  BY DEF Stacks
<1>1. /\ \A u \in Thread : V[u] = IF u = t THEN <<w>> \o W[t] ELSE W[u]
      /\ Len(<<w>> \o W[t]) = Len(W[t]) + 1
      /\ (<<w>> \o W[t])[1] = w
      /\ \A i \in 1 .. Len(W[t]) : (<<w>> \o W[t])[i + 1] = W[t][i]
  BY <1>0 DEF Stacks
<1>2. n \in Nat /\ e \in Entry /\ q \in Seq(Entry)
  BY <1>0, OccurrencesFinite, SMTT(30) DEF WaitType, Entry, Fits
<1>3. \A u \in Thread, l \in Nat : <<u, l>> = e <=> u = t /\ l = Len(W[t]) + 1
  BY Zenon
<1>4. e[1] = t /\ e[2] = Len(W[t]) + 1
  BY Zenon
<1> HIDE DEF V, n, e
<1>r. Joined(r, q, e, n)
  BY <1>2, Zenon DEF Repeat, Joined
<1> HIDE DEF r
<1>5. ASSUME NEW k \in DOMAIN q
      PROVE  q[k][1] \in Thread /\ q[k][2] \in 1 .. Len(W[q[k][1]]) /\ q[k] # e
  <2>1. q[k][1] \in Thread /\ q[k][2] \in 1 .. Len(W[q[k][1]])
    BY SMTT(30) DEF Fits, Entry
  <2>2. q[k] # e
    BY <1>0, <1>4, <2>1, SMTT(30)
  <2> QED BY <2>1, <2>2, SMTT(30)
<1>6. /\ r \in Seq(Entry)
      /\ \A k \in DOMAIN r : r[k] = e \/ (k \in DOMAIN q /\ r[k] = q[k])
      /\ \A d : d # e => Count(r, d) = Count(q, d)
      /\ Count(r, e) = n
  BY <1>5, <1>r, RepeatedEnd, SMTT(30)
<1>7. \A u \in Thread : Len(V[u]) = IF u = t THEN Len(W[t]) + 1 ELSE Len(W[u])
  BY <1>1, ZenonT(30)
<1>8. ASSUME NEW k \in DOMAIN r PROVE r[k][2] \in 1 .. Len(V[r[k][1]])
  <2>1. CASE r[k] = e
    BY <1>0, <1>4, <1>7, <2>1, SMTT(30)
  <2>2. CASE k \in DOMAIN q /\ r[k] = q[k]
    BY <1>0, <1>5, <1>7, <2>2
  <2> QED BY <1>6, <2>1, <2>2, Zenon
<1>9. ASSUME NEW u \in Thread, NEW l \in 1 .. Len(V[u])
      PROVE  Cardinality(Occurrences(AtLevel(V[u], l), o)) = Count(r, <<u, l>>)
  <2>1. CASE u = t /\ l = Len(W[t]) + 1
    <3>1. AtLevel(V[u], l) = w
      <4>1. V[u] = <<w>> \o W[t]
        BY <1>1, <2>1, ZenonT(30)
      <4>2. Len(V[u]) = Len(W[t]) + 1
        BY <1>7, <2>1, Zenon
      <4>3. Len(V[u]) + 1 - l = 1
        BY <1>0, <2>1, <4>2
      <4> QED BY <1>1, <4>1, <4>3, Zenon DEF AtLevel
    <3>2. <<u, l>> = e
      BY <2>1, Zenon DEF e
    <3> QED BY <1>6, <3>1, <3>2, Zenon DEF n
  <2>2. CASE ~(u = t /\ l = Len(W[t]) + 1)
    <3>1. l \in 1 .. Len(W[u])
      BY <1>0, <1>7, <2>2
    <3>2. AtLevel(V[u], l) = AtLevel(W[u], l)
      <4>1. CASE u = t
        <5>1. Len(V[u]) + 1 - l = (Len(W[t]) + 1 - l) + 1 /\ Len(W[t]) + 1 - l \in 1 .. Len(W[t])
          BY <1>0, <1>7, <3>1, <4>1
        <5> QED BY <1>1, <4>1, <5>1, Zenon DEF AtLevel
      <4>2. CASE u # t
        BY <1>1, <4>2, Zenon DEF AtLevel
      <4> QED BY <4>1, <4>2, Zenon
    <3>3. <<u, l>> # e
      BY <1>3, <2>2, SMTT(30)
    <3> QED BY <1>6, <3>1, <3>2, <3>3, Zenon DEF Fits
  <2> QED BY <2>1, <2>2, SMTT(30)
<1>10. Fits(r, V, o)
  BY <1>6, <1>8, <1>9, SMTT(30) DEF Fits
<1> QED BY <1>10, Zenon DEF r, V, n, e

-----------------------------------------------------------------------------
(* The steps.                                                               *)

QueuesFit == \A o \in Object : Fits(queue[o], waits, o)

QueueInv == IInv /\ QueuesFit

LEMMA FitConsistent ==
  ASSUME QueueInv
  PROVE  QueueConsistent
<1>0. waits \in Stacks
  BY SMTT(30) DEF QueueInv, IInv, TypeOK, Stacks
<1> SUFFICES ASSUME NEW o \in Object
             PROVE  /\ queue[o] \in Seq(Thread \X Nat)
                    /\ \A k \in DOMAIN queue[o] :
                         LET t == queue[o][k][1]  l == queue[o][k][2] IN
                         /\ l \in 1 .. Len(waits[t])
                         /\ Occurrences(waits[t][Len(waits[t]) + 1 - l], o) # {}
                    /\ \A t \in Thread : \A l \in DOMAIN waits[t] :
                         Cardinality(Occurrences(waits[t][l], o)) =
                         Cardinality({k \in DOMAIN queue[o] : queue[o][k] = <<t, Len(waits[t]) + 1 - l>>})
  BY ZenonT(30) DEF QueueConsistent
<1> DEFINE q == queue[o]
<1>1. Fits(q, waits, o)
  BY Zenon DEF QueueInv, QueuesFit
<1> HIDE DEF q
<1>2. ASSUME NEW k \in DOMAIN q
      PROVE  /\ q[k][2] \in 1 .. Len(waits[q[k][1]])
             /\ Occurrences(waits[q[k][1]][Len(waits[q[k][1]]) + 1 - q[k][2]], o) # {}
  <2> DEFINE t == q[k][1]
             l == q[k][2]
             S == {j \in DOMAIN q : q[j] = <<t, l>>}
  <2>1. t \in Thread /\ l \in 1 .. Len(waits[t]) /\ q[k] = <<t, l>> /\ q \in Seq(Entry)
    BY <1>1 DEF Fits, Entry
  <2> HIDE DEF t, l
  <2>2. IsFiniteSet(S) /\ k \in S
    <3>1. IsFiniteSet(DOMAIN q)
      BY <2>1, FS_Interval
    <3>2. S \in SUBSET DOMAIN q /\ k \in S
      BY <2>1, Zenon
    <3> QED BY <3>1, <3>2, FS_Subset, Zenon
  <2>3. Cardinality(S) # 0
    <3> HIDE DEF S
    <3> QED BY <2>2, FS_EmptySet, Zenon
  <2>4. Cardinality(Occurrences(AtLevel(waits[t], l), o)) # 0
    BY <1>1, <2>1, <2>3, Zenon DEF Fits, Count
  <2>5. Occurrences(AtLevel(waits[t], l), o) # {}
    BY <2>4, FS_EmptySet, Zenon
  <2> QED BY <2>1, <2>5, Zenon DEF AtLevel, t, l
<1>3. ASSUME NEW t \in Thread, NEW l \in DOMAIN waits[t]
      PROVE  Cardinality(Occurrences(waits[t][l], o)) = Count(q, <<t, Len(waits[t]) + 1 - l>>)
  <2> DEFINE m == Len(waits[t]) + 1 - l
  <2>1. waits[t] \in Seq(WaitType)
    BY <1>0, Zenon DEF Stacks
  <2>2. m \in 1 .. Len(waits[t]) /\ Len(waits[t]) + 1 - m = l
    BY <2>1
  <2> HIDE DEF m
  <2>3. AtLevel(waits[t], m) = waits[t][l]
    BY <2>2, Zenon DEF AtLevel
  <2>4. Cardinality(Occurrences(waits[t][l], o)) = Count(q, <<t, m>>)
    BY <1>1, <2>2, <2>3, Zenon DEF Fits
  <2> QED BY <2>4, Zenon DEF m
<1> QED BY <1>1, <1>2, <1>3, ZenonT(30) DEF q, Fits, Entry, Count

LEMMA PopLevels ==
  ASSUME NEW s \in Seq(WaitType), s # <<>>
  PROVE  /\ Len(Tail(s)) = Len(s) - 1
         /\ \A l \in 1 .. Len(s) - 1 : AtLevel(Tail(s), l) = AtLevel(s, l)
<1>1. /\ Len(Tail(s)) = Len(s) - 1 /\ Len(s) \in Nat
      /\ \A i \in 1 .. Len(s) - 1 : Tail(s)[i] = s[i + 1]
  OBVIOUS
<1>2. ASSUME NEW l \in 1 .. Len(s) - 1 PROVE AtLevel(Tail(s), l) = AtLevel(s, l)
  <2>1. Len(Tail(s)) + 1 - l \in 1 .. Len(s) - 1 /\ (Len(Tail(s)) + 1 - l) + 1 = Len(s) + 1 - l
    BY <1>1
  <2> QED BY <1>1, <2>1, Zenon DEF AtLevel
<1> QED BY <1>1, <1>2, Zenon

LEMMA EndWaitFits ==
  ASSUME waits \in Stacks, waits' \in Stacks, QueuesFit, NEW T, \A u \in T : waits[u] # <<>>,
         EndWait(T)
  PROVE  QueuesFit'
<1>1. \A t \in Thread : waits'[t] = IF t \in T THEN Tail(waits[t]) ELSE waits[t]
  BY Zenon DEF EndWait
<1>2. \A t \in Thread : waits[t] \in Seq(WaitType) /\ Len(waits[t]) \in Nat
  BY DEF Stacks
<1>3. \A t \in Thread : Len(waits'[t]) = IF t \in T THEN Len(waits[t]) - 1 ELSE Len(waits[t])
  BY <1>1, <1>2, PopLevels, Zenon
<1>4. Lower(waits', waits)
  <2> SUFFICES ASSUME NEW t \in Thread
               PROVE  /\ Len(waits'[t]) <= Len(waits[t])
                      /\ \A l \in 1 .. Len(waits'[t]) :
                           AtLevel(waits'[t], l).objs = AtLevel(waits[t], l).objs
    BY Zenon DEF Lower
  <2>1. CASE t \in T
    BY <1>1, <1>2, <1>3, <2>1, PopLevels
  <2>2. CASE t \notin T
    BY <1>1, <1>2, <2>2
  <2> QED BY <2>1, <2>2, Zenon
<1> SUFFICES ASSUME NEW o \in Object PROVE Fits(queue'[o], waits', o)
  BY Zenon DEF QueuesFit
<1> DEFINE q == queue[o]
           K == {k \in DOMAIN q : q[k][1] \in T => q[k][2] # Len(waits[q[k][1]])}
<1>5. queue'[o] = Keep(q, K)
  BY Zenon DEF EndWait
<1>6. Fits(q, waits, o)
  BY Zenon DEF QueuesFit
<1> HIDE DEF q
<1>7. ASSUME NEW k \in DOMAIN q
      PROVE  k \in K <=> q[k][2] <= Len(waits'[q[k][1]])
  <2>1. q[k][1] \in Thread /\ q[k][2] \in 1 .. Len(waits[q[k][1]])
    BY <1>6 DEF Fits, Entry
  <2> QED BY <1>2, <1>3, <2>1
<1>8. K \in SUBSET DOMAIN q
  BY Zenon
<1> HIDE DEF K
<1> QED BY <1>4, <1>5, <1>6, <1>7, <1>8, KeepFits, SMTT(30)

LEMMA KillFits ==
  ASSUME waits \in Stacks, waits' \in Stacks, QueuesFit, NEW t \in Thread, NEW inside,
         Kill(t, inside)
  PROVE  QueuesFit'
<1>1. \A u \in Thread : waits'[u] = IF u = t THEN <<>> ELSE waits[u]
  BY Zenon DEF Kill, Stacks
<1>2. \A u \in Thread : waits[u] \in Seq(WaitType) /\ Len(waits[u]) \in Nat
  BY DEF Stacks
<1>3. \A u \in Thread : Len(waits'[u]) = IF u = t THEN 0 ELSE Len(waits[u])
  BY <1>1
<1>4. Lower(waits', waits)
  BY <1>1, <1>2, <1>3 DEF Lower
<1> SUFFICES ASSUME NEW o \in Object PROVE Fits(queue'[o], waits', o)
  BY Zenon DEF QueuesFit
<1> DEFINE q == queue[o]
           K == {k \in DOMAIN q : q[k][1] # t}
<1>5. queue'[o] = Keep(q, K)
  BY Zenon DEF Kill
<1>6. Fits(q, waits, o)
  BY Zenon DEF QueuesFit
<1> HIDE DEF q
<1>7. ASSUME NEW k \in DOMAIN q
      PROVE  k \in K <=> q[k][2] <= Len(waits'[q[k][1]])
  <2>1. q[k][1] \in Thread /\ q[k][2] \in 1 .. Len(waits[q[k][1]])
    BY <1>6, SMTT(30) DEF Fits, Entry
  <2> QED BY <1>2, <1>3, <2>1, SMTT(30)
<1>8. K \in SUBSET DOMAIN q
  BY SMTT(30)
<1> HIDE DEF K
<1> QED BY <1>4, <1>5, <1>6, <1>7, <1>8, KeepFits, SMTT(30)

LEMMA WaitOnFits ==
  ASSUME waits \in Stacks, QueuesFit, NEW t \in Thread, NEW w \in WaitType, WaitOn(t, w)
  PROVE  QueuesFit'
<1> SUFFICES ASSUME NEW o \in Object PROVE Fits(queue'[o], waits', o)
  BY Zenon DEF QueuesFit
<1>1. Fits(queue[o], waits, o)
  BY Zenon DEF QueuesFit
<1>2. /\ waits' = [waits EXCEPT ![t] = <<w>> \o waits[t]]
      /\ queue'[o] = queue[o] \o [i \in 1 .. Cardinality(Occurrences(w, o)) |-> <<t, Len(waits[t]) + 1>>]
  BY Zenon DEF WaitOn
<1> QED BY <1>1, <1>2, PushFits, Zenon

\* One wait of a stack gets another timeout.
LEMMA ReplaceFits ==
  ASSUME waits \in Stacks, waits' \in Stacks, QueuesFit, NEW t \in Thread,
         NEW i \in DOMAIN waits[t], NEW w, w.objs = waits[t][i].objs,
         waits' = [waits EXCEPT ![t] = [waits[t] EXCEPT ![i] = w]], queue' = queue
  PROVE  QueuesFit'
<1> DEFINE s == [waits[t] EXCEPT ![i] = w]
<1>1. \A u \in Thread : waits'[u] = IF u = t THEN s ELSE waits[u]
  <2> HIDE DEF s
  <2>1. waits \in [Thread -> Seq(WaitType)]
    BY Zenon DEF Stacks
  <2>2. waits' = [waits EXCEPT ![t] = s]
    BY Zenon DEF s
  <2> QED BY <2>1, <2>2, ZenonT(30)
<1>2. \A u \in Thread : waits[u] \in Seq(WaitType) /\ Len(waits[u]) \in Nat /\ waits'[u] \in Seq(WaitType)
  BY DEF Stacks
<1>3. /\ DOMAIN waits'[t] = DOMAIN waits[t]
      /\ \A j \in DOMAIN waits[t] : waits'[t][j].objs = waits[t][j].objs
  BY <1>1
<1>4. \A u \in Thread : Len(waits'[u]) = Len(waits[u])
  BY <1>1, <1>2, <1>3
<1>5. ASSUME NEW u \in Thread, NEW l \in 1 .. Len(waits[u])
      PROVE  AtLevel(waits'[u], l).objs = AtLevel(waits[u], l).objs
  <2>1. Len(waits[u]) + 1 - l \in DOMAIN waits[u]
    BY <1>2
  <2> QED BY <1>1, <1>3, <1>4, <2>1, Zenon DEF AtLevel
<1>l. Lower(waits', waits)
  <2>1. \A u \in Thread : Len(waits'[u]) <= Len(waits[u]) /\ 1 .. Len(waits'[u]) = 1 .. Len(waits[u])
    BY <1>2, <1>4
  <2> QED BY <1>5, <2>1, Zenon DEF Lower
<1> SUFFICES ASSUME NEW o \in Object PROVE Fits(queue[o], waits', o)
  BY Zenon DEF QueuesFit
<1>6. Fits(queue[o], waits, o)
  BY Zenon DEF QueuesFit
<1> QED BY <1>4, <1>l, <1>6, SameFits, Zenon

LEMMA DeliverFits ==
  ASSUME waits \in Stacks, waits' \in Stacks, QueuesFit, NEW t \in Thread, waits[t] # <<>>, Deliver(t)
  PROVE  QueuesFit'
<1> DEFINE w == Head(waits[t])
           T == {t} \cup Partner(w, t, CheckWait(w, t))
<1>1. EndWait(T)
  BY Zenon DEF Deliver
<1>2. \A u \in T : waits[u] # <<>>
  BY PartnerWaits, Zenon
<1> HIDE DEF T
<1> QED BY <1>1, <1>2, EndWaitFits, Zenon

LEMMA SelectOnFits ==
  ASSUME waits \in Stacks, waits' \in Stacks, QueuesFit, NEW t \in Thread, NEW w \in WaitType,
         SelectOn(t, w)
  PROVE  QueuesFit'
<1>1. Armed(w) \in WaitType
  BY ArmedSame, Zenon
<1> DEFINE T == Partner(w, t, CheckWait(w, t))
<1>2. \A u \in T : waits[u] # <<>>
  BY PartnerWaits, Zenon
<1>3. EndWait(T) \/ WaitOn(t, Armed(w))
  BY Zenon DEF SelectOn
<1> HIDE DEF T
<1> QED BY <1>1, <1>2, <1>3, EndWaitFits, WaitOnFits, Zenon

LEMMA NextFits ==
  ASSUME QueueInv, [Next]_vars
  PROVE  QueueInv'
<1>0. IInv /\ QueuesFit /\ TypeOK /\ waits \in Stacks
  BY SMTT(30) DEF QueueInv, IInv, TypeOK, Stacks
<1>i. IInv' /\ waits' \in Stacks
  BY <1>0, NextIInv, Zenon DEF IInv, TypeOK, Stacks
<1> SUFFICES QueuesFit'
  BY <1>i, Zenon DEF QueueInv
<1>q. ASSUME UNCHANGED waitVars PROVE QueuesFit'
  BY <1>0, <1>q, Zenon DEF waitVars, QueuesFit
<1>d. ASSUME NEW t \in Thread, waits[t] # <<>>, Deliver(t) PROVE QueuesFit'
  BY <1>0, <1>d, <1>i, DeliverFits, Zenon
<1>1. CASE Step
  <2>1. CASE ScanWake
    BY <1>d, <2>1, Zenon DEF ScanWake, Wakeable
  <2>2. CASE ScanAgain
    <3>1. scan.cur \in Thread
      BY <1>0, <2>2, Zenon DEF ScanAgain, TypeOK
    <3> QED BY <1>d, <2>2, <3>1, Zenon DEF ScanAgain, Wakeable
  <2>3. CASE \/ ScanSkip \/ ScanNext \/ ScanEnd \/ KillSignal \/ KillCleanup
             \/ PulseEnd \/ TimerSignal \/ \E m \in Mutex : KillAbandon(m)
    BY <1>q, <2>3, Zenon DEF ScanSkip, ScanNext, ScanEnd, KillSignal, KillCleanup, PulseEnd, TimerSignal,
                      KillAbandon
  <2>4. CASE SelectRest
    <3> DEFINE t == cont.arg
    <3>1. t \in Thread
      BY <1>0, <2>4, Zenon DEF SelectRest, IInv, ContOK
    <3>2. CASE UNCHANGED waitVars
      BY <1>q, <3>2, Zenon
    <3>3. CASE waits[t] # <<>> /\ Deliver(t)
      BY <1>d, <3>1, <3>3, Zenon
    <3>4. CASE /\ waits[t] # <<>> /\ queue' = queue
               /\ waits' = [waits EXCEPT ![t] = <<Armed(Head(@))>> \o Tail(@)]
      <4> HIDE DEF t
      <4>1. /\ waits[t] \in Seq(WaitType) /\ Head(waits[t]) \in WaitType
            /\ 1 \in DOMAIN waits[t] /\ Head(waits[t]) = waits[t][1]
        BY <1>0, <3>1, <3>4 DEF TypeOK
      <4>2. Armed(Head(waits[t])) \in WaitType /\ Armed(Head(waits[t])).objs = waits[t][1].objs
        BY <4>1, ArmedSame, Zenon
      <4>3. <<Armed(Head(waits[t]))>> \o Tail(waits[t])
              = [waits[t] EXCEPT ![1] = Armed(Head(waits[t]))]
        BY <3>4, <4>1, <4>2
      <4>4. waits' = [waits EXCEPT ![t] = [waits[t] EXCEPT ![1] = Armed(Head(waits[t]))]]
        BY <1>0, <3>1, <3>4, <4>3, Zenon DEF TypeOK
      <4> DEFINE a == Armed(Head(waits[t]))
      <4> HIDE DEF a
      <4>5. a.objs = waits[t][1].objs /\ waits' = [waits EXCEPT ![t] = [waits[t] EXCEPT ![1] = a]]
        BY <4>2, <4>4, Zenon DEF a
      <4>6. queue' = queue /\ 1 \in DOMAIN waits[t]
        BY <3>4, <4>1, Zenon
      <4>7. waits \in Stacks /\ waits' \in Stacks /\ QueuesFit
        BY <1>0, <1>i, Zenon
      <4> QED BY <3>1, <4>5, <4>6, <4>7, ReplaceFits, Zenon
    <3> QED BY <2>4, <3>2, <3>3, <3>4, Zenon DEF SelectRest
  <2> QED BY <1>1, <2>1, <2>2, <2>3, <2>4, Zenon DEF Step
<1>2. ASSUME NEW t \in Thread, NewRequest(t) PROVE QueuesFit'
  <2>1. ASSUME NEW e \in Event, SetEvent(t, e) \/ PulseEvent(t, e) \/ ResetEvent(t, e)
        PROVE  QueuesFit'
    BY <1>q, <2>1, Zenon DEF SetEvent, PulseEvent, ResetEvent
  <2>2. CASE \E s \in Semaphore, n \in Counts : ReleaseSemaphore(t, s, n)
    BY <1>q, <2>2, Zenon DEF ReleaseSemaphore
  <2>3. CASE \E m \in Mutex : ReleaseMutex(t, m)
    BY <1>q, <2>3, Zenon DEF ReleaseMutex
  <2>4. CASE \E x \in Timer : CancelTimer(t, x) \/ \E set \in TimerSets : SetTimer(t, x, set)
    BY <1>q, <2>4, Zenon DEF CancelTimer, SetTimer
  <2>5. ASSUME NEW sel \in Selects, Select(t, sel) \/ SignalAndWait(t, sel) PROVE QueuesFit'
    BY <1>0, <1>i, <2>5, WaitOfType, SelectOnFits, WaitOnFits, SMTT(30) DEF Select, SignalAndWait
  <2>6. ASSUME NEW u \in Thread,
               \/ SuspendThread(t, u) \/ ResumeThread(t, u)
               \/ QueueUserApc(t, u) \/ QueueSystemApc(t, u)
        PROVE  QueuesFit'
    BY <1>q, <2>6, Zenon DEF SuspendThread, ResumeThread, QueueUserApc, QueueSystemApc
  <2>7. ASSUME NEW u \in Thread, NEW inside, TerminateThread(t, u, inside) PROVE QueuesFit'
    BY <1>0, <1>i, <2>7, KillFits, Zenon DEF TerminateThread
  <2>8. CASE ExitThread(t)
    BY <1>0, <1>i, <2>8, KillFits, Zenon DEF ExitThread
  <2> QED
    BY <1>2, <2>1, <2>2, <2>3, <2>4, <2>5, <2>6, <2>7, <2>8, Zenon DEF NewRequest
<1>3. ASSUME NEW t \in Thread, SignalHandler(t) PROVE QueuesFit'
  BY <1>0, <1>3, <1>i, HandlerWaitType, SelectOnFits, Zenon DEF SignalHandler
<1>4. ASSUME NEW t \in Thread, NEW i, Expire(t, i) PROVE QueuesFit'
  <2>1. i \in DOMAIN waits[t] /\ waits[t][i] \in WaitType /\ queue' = queue
    BY <1>0, <1>4 DEF Expire, TypeOK
  <2>2. [waits[t][i] EXCEPT !.timeout = "past"].objs = waits[t][i].objs
    BY <2>1, Zenon DEF WaitType
  <2>3. waits' = [waits EXCEPT ![t] = [waits[t] EXCEPT ![i] =
                                        [waits[t][i] EXCEPT !.timeout = "past"]]]
    BY <1>4 DEF Expire
  <2> QED BY <1>0, <1>i, <2>1, <2>2, <2>3, ReplaceFits, Zenon
<1>5. ASSUME NEW t \in Thread, NEW i, ThreadTimeout(t, i) PROVE QueuesFit'
  <2>1. i \in DOMAIN waits[t] /\ waits[t][i] \in WaitType /\ waits[t] # <<>>
    BY <1>0, <1>5 DEF ThreadTimeout, TypeOK
  <2>2. CASE EndWait({t})
    BY <1>0, <1>i, <2>1, <2>2, EndWaitFits, Zenon
  <2>3. CASE /\ queue' = queue
             /\ waits' = [waits EXCEPT ![t] = [waits[t] EXCEPT ![i] =
                                               [waits[t][i] EXCEPT !.armed = FALSE]]]
    <3>1. [waits[t][i] EXCEPT !.armed = FALSE].objs = waits[t][i].objs
      BY <2>1, Zenon DEF WaitType
    <3> QED BY <1>0, <1>i, <2>1, <2>3, <3>1, ReplaceFits, Zenon
  <2> QED BY <1>5, <2>2, <2>3, Zenon DEF ThreadTimeout
<1>6. ASSUME NEW x \in Timer, TimerCallback(x) PROVE QueuesFit'
  BY <1>q, <1>6, Zenon DEF TimerCallback
<1>7. CASE UNCHANGED vars
  BY <1>q, <1>7, Zenon DEF vars
<1> QED
  BY <1>1, <1>2, <1>3, <1>4, <1>5, <1>6, <1>7 DEF Next, Timers

\* For any number of threads and objects and any select requests: the wait
\* queue of an object has exactly the entries of the pending waits on it, so
\* remove_queue in end_wait and kill_thread finds each entry, and uk_wake_up
\* never follows one of a wait that has been freed.
THEOREM QueuesConsistent == Spec => []QueueConsistent
<1>1. Init => QueueInv
  <2> SUFFICES ASSUME Init PROVE QueueInv
    OBVIOUS
  <2>1. IInv
    BY InitIInv, Zenon
  <2>2. ASSUME NEW o \in Object PROVE Fits(<<>>, waits, o)
    <3>1. \A t \in Thread : Len(waits[t]) = 0
      BY Zenon DEF Init
    <3> QED BY <3>1 DEF Fits
  <2>3. \A o \in Object : queue[o] = <<>>
    BY Zenon DEF Init
  <2> QED BY <2>1, <2>2, <2>3, Zenon DEF QueueInv, QueuesFit
<1> QED
  BY <1>1, NextFits, FitConsistent, PTL DEF Spec
=============================================================================

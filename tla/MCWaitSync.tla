----------------------------- MODULE MCWaitSync -----------------------------
(* Instances of WaitSync for TLC.                                            *)
EXTENDS WaitSync, TLC

CONSTANTS t1, t2, t3, e1, s1, m1, m2, x1, k1, key1, key2

Sel(op, objs, signal, alertable, timeout) ==
  [op |-> op, key |-> None, objs |-> objs, signal |-> signal, alertable |-> alertable,
   interruptible |-> TRUE, timeout |-> timeout]

Wait(objs)         == Sel("any", objs, None, FALSE, "infinite")
TimedWait(objs)    == Sel("any", objs, None, FALSE, "future")
WaitAll(objs)      == Sel("all", objs, None, FALSE, "infinite")
WaitAlertable(o)   == Sel("any", <<o>>, None, TRUE, "infinite")

KeyedSelect(op, key) == [Sel(op, <<k1>>, None, FALSE, "infinite") EXCEPT !.key = key]
Swap(signal, objs) == Sel("any", objs, signal, FALSE, "infinite")

SemLimit == [s \in Semaphore |-> 2]
OneTwo == {1, 2}
One == {1}

SyncSelects    == {Wait(<<e1, s1>>), Wait(<<s1>>), WaitAll(<<e1, s1>>), Wait(<<t1>>),
                   Swap(e1, <<s1>>), Swap(s1, <<e1>>),
                   TimedWait(<<m1>>), WaitAll(<<m1, m2>>), Swap(m1, <<m2>>)}
SuspendSelects == {WaitAlertable(x1), TimedWait(<<m1>>), Swap(m1, <<x1>>)}
TimedSelects   == {Sel("all", <<e1, s1>>, None, FALSE, "future"), Wait(<<s1>>),
                   [KeyedSelect("keyed_wait", key1) EXCEPT !.timeout = "future"],
                   KeyedSelect("keyed_release", key1), KeyedSelect("keyed_release", key2)}

\* for instances of one kind of object, with three threads
SemaphoreSelects == {TimedWait(<<s1>>), Wait(<<s1>>)}
KeyedSelects   == {[KeyedSelect("keyed_wait", key1) EXCEPT !.timeout = "future"],
                   KeyedSelect("keyed_release", key1)}

Callback == {[period |-> TRUE, callback |-> TRUE]}

\* The requests of wait_suspend name no thread.
Threads == Permutations(Thread)

\* Those of wait_sync name t1.
OtherThreads == Permutations(Thread \ {t1})

=============================================================================

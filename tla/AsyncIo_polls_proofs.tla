------------------------ MODULE AsyncIo_polls_proofs ------------------------
(***************************************************************************)
(* The other parts of the invariant of AsyncIo, each preserved by every step*)
(* from a state in which Core holds:                                       *)
(*   Ports  says which completion port an operation will find;             *)
(*   Packs  relates the result of an operation and its packets;            *)
(*   Polls  says which call still to come looks at the file again when the *)
(*          poll entry does not match what is pending.                     *)
(***************************************************************************)
EXTENDS AsyncIo_refs_proofs

-----------------------------------------------------------------------------
(* The arguments of the calls, the completion ports and the packets.       *)

\* The calls a step makes.
SafeCalls == {x \in CallType : /\ x.op \notin {"free_async_queue", "fd_destroyed"}
                               /\ x.op \in FdOps => x.a = None}

LEMMA SafeTyped ==
  /\ \A op \in Ops \ FdOps, a \in Async \cup Thread \cup {None}, s \in Status \cup {"pending"} :
       Call(op, a, s) \in SafeCalls
  /\ \A q \in Queue, s \in Status \cup {"pending"} : QueueCall("async_wake_up", q, s) \in SafeCalls
  /\ \A op \in Ops \ {"free_async_queue", "fd_destroyed"}, ev \in SUBSET Event : FdCall(op, ev) \in SafeCalls
<1>1. "free_async_queue" \in FdOps /\ "fd_destroyed" \in FdOps /\ "async_wake_up" \in Ops
  BY Zenon DEF FdOps, Ops
<1>2. ASSUME NEW op \in Ops \ FdOps, NEW a \in Async \cup Thread \cup {None}, NEW s \in Status \cup {"pending"}
      PROVE  Call(op, a, s) \in SafeCalls
  <2>1. Call(op, a, s) \in CallType /\ Call(op, a, s).op = op
    BY CallTyped, CallParts
  <2> QED BY <1>1, <2>1, Zenon DEF SafeCalls
<1>3. ASSUME NEW q \in Queue, NEW s \in Status \cup {"pending"}
      PROVE  QueueCall("async_wake_up", q, s) \in SafeCalls
  <2> DEFINE x == QueueCall("async_wake_up", q, s)
  <2>1. x \in CallType /\ x.op = "async_wake_up" /\ x.a = None
    BY <1>1, CallTyped, CallParts
  <2> HIDE DEF x
  <2>2. x \in SafeCalls
    BY <2>1, Zenon DEF SafeCalls
  <2> QED BY <2>2, Zenon DEF x
<1>4. ASSUME NEW op \in Ops \ {"free_async_queue", "fd_destroyed"}, NEW ev \in SUBSET Event
      PROVE  FdCall(op, ev) \in SafeCalls
  <2> DEFINE x == FdCall(op, ev)
  <2>1. x \in CallType /\ x.op = op /\ x.a = None
    BY CallTyped, CallParts
  <2> HIDE DEF x
  <2>2. x \in SafeCalls
    BY <2>1, Zenon DEF SafeCalls
  <2> QED BY <2>2, Zenon DEF x
<1> QED BY <1>2, <1>3, <1>4, Zenon

LEMMA SafeEach ==
  ASSUME NEW seq \in Seq(Async), NEW s \in Status
  PROVE  Each(seq, "async_terminate", s) \in Seq(SafeCalls)
<1>1. "async_terminate" \in Ops \ FdOps
  BY Zenon DEF Ops, FdOps
<1>2. \A i \in DOMAIN seq : Call("async_terminate", seq[i], s) \in SafeCalls
  BY <1>1, SafeTyped
<1>3. DOMAIN seq = 1 .. Len(seq) /\ Len(seq) \in Nat
  OBVIOUS
<1> QED BY <1>2, <1>3 DEF Each

LEMMA SafeFdStep ==
  ASSUME Core, NEW c \in Ctx, FdStep(c)
  PROVE  \E p \in Seq(SafeCalls) : Then(c, p)
<1>1. work[c] # <<>>
  BY Zenon DEF FdStep, SetFdEvents, PollWake, FdPollEvent, FdPollEventEnd, PollEvent, Rearm, Reselect,
         FreeQueue, FdDestroyEnd, Now
<1>2. Arg(c).ev \in SUBSET Event /\ FilePoll \in SUBSET Event /\ PollEvents \in SUBSET Event
      /\ {} \in SUBSET Event /\ {"hup"} \in SUBSET Event
  BY <1>1, ArgTyped, FileTyped, Zenon DEF Core, Event
<1>3. Arg(c).q \in Queue /\ "read" \in Queue /\ "write" \in Queue /\ {"alerted", "closed"} \subseteq Status
  BY <1>1, ArgTyped, Zenon DEF Core, CallType, Queue, Status, Ended
<1>4. \A op \in {"fd_poll_event", "poll_event", "polled", "set_fd_events", "rearm"}, ev \in SUBSET Event :
        FdCall(op, ev) \in SafeCalls
  <2>1. {"fd_poll_event", "poll_event", "polled", "set_fd_events", "rearm"}
          \subseteq Ops \ {"free_async_queue", "fd_destroyed"}
    BY Zenon DEF Ops
  <2> QED BY <2>1, SafeTyped, Zenon
<1>5. \A x \in SafeCalls : <<x>> \in Seq(SafeCalls)
  OBVIOUS
<1>6. <<>> \in Seq(SafeCalls)
  OBVIOUS
<1>7. CASE SetFdEvents(c)
  <2> DEFINE mask == FilePoll \cap (Arg(c).ev \cup {"hup"})
  <2>1. mask \in SUBSET Event
    BY <1>2, Zenon
  <2>2. Then(c, <<>>) \/ Then(c, <<FdCall("fd_poll_event", mask)>>)
    BY <1>7, Zenon DEF SetFdEvents
  <2> HIDE DEF mask
  <2> QED BY <1>4, <1>5, <1>6, <2>1, <2>2, Zenon
<1>8. CASE PollWake(c)
  <2> DEFINE mask == FilePoll \cap Arg(c).ev
  <2>1. mask \in SUBSET Event
    BY <1>2, Zenon
  <2>2. Then(c, <<>>) \/ Then(c, <<FdCall("fd_poll_event", mask)>>)
    BY <1>8, Zenon DEF PollWake
  <2> HIDE DEF mask
  <2> QED BY <1>4, <1>5, <1>6, <2>1, <2>2, Zenon
<1>9. CASE FdPollEvent(c)
  <2> DEFINE x == FdCall("poll_event", Arg(c).ev)
             y == FdCall("polled", {})
  <2>1. x \in SafeCalls /\ y \in SafeCalls
    BY <1>2, <1>4, Zenon
  <2>2. Then(c, <<>>) \/ Then(c, <<x, y>>)
    BY <1>9, Zenon DEF FdPollEvent
  <2> HIDE DEF x, y
  <2>3. <<x, y>> \in Seq(SafeCalls)
    BY <2>1
  <2> QED BY <1>6, <2>2, <2>3, Zenon
<1>10. CASE PollEvent(c)
  <2> DEFINE wake(q) == IF Arg(c).ev \cap {q, "hup"} # {}
                        THEN <<QueueCall("async_wake_up", q, "alerted")>> ELSE <<>>
             rest == IF "hup" \in Arg(c).ev THEN <<FdCall("set_fd_events", {"hup"})>>
                                            ELSE <<FdCall("rearm", {})>>
  <2>1. Then(c, wake("read") \o wake("write") \o rest)
    BY <1>10, Zenon DEF PollEvent
  <2>2. \A q \in Queue : wake(q) \in Seq(SafeCalls)
    <3> SUFFICES ASSUME NEW q \in Queue PROVE wake(q) \in Seq(SafeCalls)
      BY Zenon
    <3>1. QueueCall("async_wake_up", q, "alerted") \in SafeCalls
      BY <1>3, SafeTyped, Zenon
    <3> QED BY <1>5, <1>6, <3>1, Zenon
  <2>3. rest \in Seq(SafeCalls)
    BY <1>2, <1>4, <1>5, Zenon
  <2> HIDE DEF wake, rest
  <2>5. wake("read") \o wake("write") \o rest \in Seq(SafeCalls)
    BY <1>3, <2>2, <2>3
  <2> QED BY <2>1, <2>5, Zenon
<1>11. CASE Rearm(c)
  BY <1>2, <1>4, <1>5, <1>11, Zenon DEF Rearm
<1>12. CASE Reselect(c)
  <2> DEFINE ev == FilePoll \cap PollEvents
  <2>1. ev \in SUBSET Event
    BY <1>2, Zenon
  <2>2. Then(c, <<>>) \/ Then(c, <<FdCall("poll_event", ev)>>) \/ Then(c, <<FdCall("set_fd_events", PollEvents)>>)
    BY <1>12, Zenon DEF Reselect
  <2> HIDE DEF ev
  <2> QED BY <1>2, <1>4, <1>5, <1>6, <2>1, <2>2, Zenon
<1>13. CASE FreeQueue(c)
  <2>1. QueueCall("async_wake_up", Arg(c).q, "closed") \in SafeCalls
    BY <1>3, SafeTyped, Zenon
  <2> QED BY <1>5, <1>13, <2>1, Zenon DEF FreeQueue
<1>14. CASE FdPollEventEnd(c) \/ FdDestroyEnd(c)
  BY <1>6, <1>14, Zenon DEF FdPollEventEnd, FdDestroyEnd
<1> QED BY <1>7, <1>8, <1>9, <1>10, <1>11, <1>12, <1>13, <1>14, Zenon DEF FdStep

LEMMA HeadFine ==
  ASSUME Core, NEW c \in Ctx, work[c] # <<>>
  PROVE  /\ Todo[1] = Arg(c) /\ 1 \in DOMAIN Todo /\ Todo \in Seq(CallType) /\ Todo # <<>>
         /\ Arg(c) \in CallType /\ Fine(Arg(c))
<1>1. Todo[1] = Arg(c) /\ Todo \in Seq(CallType) /\ Todo # <<>> /\ Arg(c) \in CallType
  BY TodoIs, ArgTyped, Zenon DEF Core
<1>2. 1 \in DOMAIN Todo
  BY <1>1, EmptyLen
<1> QED BY <1>1, <1>2, Zenon DEF Core, Calls, Shaped

\* The next call is on the operation b.
LEMMA OnAsync ==
  ASSUME Core, NEW c \in Ctx, NEW op \in CoveredOps \cup {"async_terminate"}, Now(c, op)
  PROVE  /\ Arg(c).a \in Async /\ Arg(c).s \in Status \cup {"pending"} /\ Arg(c).op = op
         /\ op \in {"async_terminate", "restart", "async_queue_apc"} => Arg(c).s \in Status
         /\ Todo[1] = Arg(c) /\ 1 \in DOMAIN Todo /\ Todo \in Seq(CallType) /\ Todo # <<>>
<1>1. work[c] # <<>> /\ Arg(c).op = op
  BY Zenon DEF Now, Arg
<1>2. /\ Todo[1] = Arg(c) /\ 1 \in DOMAIN Todo /\ Todo \in Seq(CallType) /\ Todo # <<>>
      /\ Arg(c) \in CallType /\ Fine(Arg(c))
  BY <1>1, HeadFine, Zenon
<1> QED BY <1>1, <1>2, Zenon DEF Fine, CallType

LEMMA SafeAsyncStep ==
  ASSUME ListFacts, Core, NEW c \in Ctx, AsyncStep(c)
  PROVE  \E p \in Seq(SafeCalls) : Then(c, p)
<1>1. PICK b, s : b = Arg(c).a /\ s = Arg(c).s
  BY Zenon
<1>2. \A op \in {"async_queue_apc", "clear_apc", "async_reselect", "release", "free", "restart", "async_terminate"},
         a \in Async, r \in Status \cup {"pending"} : Call(op, a, r) \in SafeCalls
  <2>1. {"async_queue_apc", "clear_apc", "async_reselect", "release", "free", "restart", "async_terminate"}
          \subseteq Ops \ FdOps
    BY Zenon DEF Ops, FdOps
  <2> QED BY <2>1, SafeTyped, Zenon
<1>3. \A x \in SafeCalls : <<x>> \in Seq(SafeCalls)
  OBVIOUS
<1>4. <<>> \in Seq(SafeCalls)
  OBVIOUS
<1>5. CASE Terminate(c)
  <2>1. b \in Async /\ s \in Status
    BY <1>1, <1>5, OnAsync, Zenon DEF Terminate
  <2> DEFINE x == Call("async_queue_apc", b, s)
             y == Call("clear_apc", b, "pending")
             z == Call("async_reselect", b, "pending")
             w == Call("release", b, "pending")
  <2>2. x \in SafeCalls /\ y \in SafeCalls /\ z \in SafeCalls /\ w \in SafeCalls
    BY <1>2, <2>1, Zenon
  <2>3. Then(c, <<>>) \/ Then(c, <<x, y, z, w>>)
    BY <1>1, <1>5, Zenon DEF Terminate
  <2> HIDE DEF x, y, z, w
  <2>4. <<x, y, z, w>> \in Seq(SafeCalls)
    BY <2>2
  <2> QED BY <1>4, <2>3, <2>4, Zenon
<1>6. CASE Release(c)
  <2>1. b \in Async
    BY <1>1, <1>6, OnAsync, Zenon DEF Release, CoveredOps
  <2> DEFINE z == Call("async_reselect", b, "pending")
             w == Call("free", b, "pending")
  <2>2. z \in SafeCalls /\ w \in SafeCalls
    BY <1>2, <2>1, Zenon
  <2>3. Then(c, <<>>) \/ Then(c, <<z, w>>)
    BY <1>1, <1>6, Zenon DEF Release
  <2> HIDE DEF z, w
  <2>4. <<z, w>> \in Seq(SafeCalls)
    BY <2>2
  <2> QED BY <1>4, <2>3, <2>4, Zenon
<1>7. CASE SetResult(c)
  <2>1. b \in Async
    BY <1>1, <1>7, OnAsync, Zenon DEF SetResult, CoveredOps
  <2> DEFINE z == Call("restart", b, asy[b].status)
  <2>2. z \in SafeCalls
    BY <1>2, <2>1, AsyFields, Zenon DEF Core
  <2>3. Then(c, <<>>) \/ Then(c, <<z>>)
    BY <1>1, <1>7, Zenon DEF SetResult
  <2> HIDE DEF z
  <2> QED BY <1>3, <1>4, <2>2, <2>3, Zenon
<1>8. CASE Restart(c)
  <2>1. b \in Async /\ s \in Status
    BY <1>1, <1>8, OnAsync, Zenon DEF Restart, CoveredOps
  <2> DEFINE y == Call("async_terminate", b, s)
             z == Call("async_reselect", b, "pending")
  <2>2. y \in SafeCalls /\ z \in SafeCalls
    BY <1>2, <2>1, Zenon
  <2>3. Then(c, <<y>>) \/ Then(c, <<z>>)
    BY <1>1, <1>8, Zenon DEF Restart
  <2> HIDE DEF y, z
  <2> QED BY <1>3, <2>2, <2>3, Zenon
<1>9. CASE WakeUp(c)
  <2>1. work[c] # <<>> /\ Arg(c).op = "async_wake_up"
    BY <1>9, Zenon DEF WakeUp, Now, Arg
  <2>2. Arg(c) \in CallType /\ Fine(Arg(c))
    BY <2>1, HeadFine, Zenon
  <2>3. s \in Status /\ Arg(c).q \in Queue
    BY <1>1, <2>1, <2>2, Zenon DEF Fine, CallType, Status, Ended
  <2> DEFINE all == queue[Arg(c).q]
             woken == IF s = "alerted" /\ all # <<>> THEN <<Head(all)>> ELSE all
  <2>4. Then(c, Each(woken, "async_terminate", s))
    BY <1>1, <1>9, Zenon DEF WakeUp
  <2>5. all \in Seq(Async)
    BY <2>3, Zenon DEF Core, TypeOK
  <2> HIDE DEF all
  <2>6. woken \in Seq(Async)
    BY <2>5
  <2> HIDE DEF woken
  <2> QED BY <2>3, <2>4, <2>6, SafeEach, Zenon
<1>10. CASE WakeUpBy(c)
  <2>1. work[c] # <<>>
    BY <1>10, Zenon DEF WakeUpBy, Now
  <2>2. Arg(c).q \in Queue /\ "cancelled" \in Status
    BY <2>1, HeadFine, Zenon DEF CallType, Status, Ended
  <2> DEFINE all == queue[Arg(c).q]
             K == {i \in DOMAIN all : Arg(c).a \in {None, all[i], asy[all[i]].thread}}
             mine == Keep(all, K)
  <2>3. Then(c, Each(mine, "async_terminate", "cancelled"))
    BY <1>10, Zenon DEF WakeUpBy
  <2>4. all \in Seq(Async) /\ K \in SUBSET DOMAIN all
    BY <2>2, Zenon DEF Core, TypeOK
  <2> HIDE DEF all, K
  <2>5. mine \in Seq(Async)
    BY <2>4, KeepAt, Zenon
  <2> HIDE DEF mine
  <2> QED BY <2>2, <2>3, <2>5, SafeEach, Zenon
<1>11. CASE QueueApc(c) \/ ClearApc(c) \/ Free(c) \/ DequeueApc(c) \/ SetTimeout(c)
  BY <1>4, <1>11, Zenon DEF QueueApc, ClearApc, Free, DequeueApc, SetTimeout
<1> QED BY <1>5, <1>6, <1>7, <1>8, <1>9, <1>10, <1>11, Zenon DEF AsyncStep

\* What a step leaves of an operation.
Same(a) ==
  /\ asy'[a].owed = asy[a].owed /\ asy'[a].type = asy[a].type
  /\ asy'[a].ref > 0 => asy[a].ref > 0

LEMMA SameAsyncStep ==
  ASSUME ListFacts, Core, NEW c \in Ctx, AsyncStep(c)
  PROVE  /\ \A a \in Async : Same(a)
         /\ \/ \A a \in Async : asy'[a].result = asy[a].result /\ packets'[a] = packets[a]
            \/ SetResult(c) /\ Arg(c).s # "pending"
<1> DEFINE Plain == \A a \in Async : Same(a) /\ asy'[a].result = asy[a].result
<1>0. PICK b, s : b = Arg(c).a /\ s = Arg(c).s
  OBVIOUS
<1>1. \A a \in Async : asy[a] \in AsyncType /\ asy[a].ref \in Nat
  BY AsyFields, Zenon DEF Core, TypeOK
<1>2. ASSUME NEW r, b \in Async, asy' = [asy EXCEPT ![b] = r], r.owed = asy[b].owed, r.type = asy[b].type,
             r.ref > 0 => asy[b].ref > 0, r.result = asy[b].result
      PROVE  Plain
  <2>1. asy'[b] = r /\ \A a \in Async : a # b => asy'[a] = asy[a]
    BY <1>2, Zenon DEF Core, TypeOK
  <2> QED BY <1>2, <2>1, Zenon DEF Same
<1>3. ASSUME b \in Async PROVE asy \in [Async -> AsyncType] /\ asy[b] \in AsyncType /\ asy[b].ref \in Nat
  BY <1>1, <1>3, Zenon DEF Core, TypeOK
<1>4. ASSUME asy' = asy PROVE Plain
  BY <1>4, Zenon DEF Same
<1> HIDE DEF Plain
<1>5. CASE Terminate(c)
  <2>1. b \in Async
    BY <1>0, <1>5, OnAsync, Zenon DEF Terminate
  <2> DEFINE r == [asy[b] EXCEPT !.status = s]
  <2>2. asy' = [asy EXCEPT ![b] = r]
    BY <1>0, <1>3, <1>5, <2>1, Zenon DEF Terminate
  <2>3. r.owed = asy[b].owed /\ r.type = asy[b].type /\ r.ref = asy[b].ref /\ r.result = asy[b].result
    BY <1>3, <2>1, Zenon DEF AsyncType
  <2> HIDE DEF r
  <2> QED BY <1>2, <1>5, <2>1, <2>2, <2>3, Zenon DEF Plain, Terminate
<1>6. CASE ClearApc(c)
  <2>1. b \in Async
    BY <1>0, <1>6, OnAsync, Zenon DEF ClearApc, CoveredOps
  <2> DEFINE r == [asy[b] EXCEPT !.apc = FALSE]
  <2>2. asy' = [asy EXCEPT ![b] = r]
    BY <1>0, <1>3, <1>6, <2>1, Zenon DEF ClearApc
  <2>3. r.owed = asy[b].owed /\ r.type = asy[b].type /\ r.ref = asy[b].ref /\ r.result = asy[b].result
    BY <1>3, <2>1, Zenon DEF AsyncType
  <2> HIDE DEF r
  <2> QED BY <1>2, <1>6, <2>1, <2>2, <2>3, Zenon DEF Plain, ClearApc
<1>7. CASE SetTimeout(c)
  <2>1. b \in Async
    BY <1>0, <1>7, OnAsync, Zenon DEF SetTimeout, CoveredOps
  <2> DEFINE r == [asy[b] EXCEPT !.timeout = TRUE]
  <2>2. asy' = [asy EXCEPT ![b] = r]
    BY <1>0, <1>3, <1>7, <2>1, Zenon DEF SetTimeout
  <2>3. r.owed = asy[b].owed /\ r.type = asy[b].type /\ r.ref = asy[b].ref /\ r.result = asy[b].result
    BY <1>3, <2>1, Zenon DEF AsyncType
  <2> HIDE DEF r
  <2> QED BY <1>2, <1>7, <2>1, <2>2, <2>3, Zenon DEF Plain, SetTimeout
<1>8. CASE Free(c)
  <2>1. b \in Async
    BY <1>0, <1>8, OnAsync, Zenon DEF Free, CoveredOps
  <2> DEFINE r == [asy[b] EXCEPT !.life = "freed", !.timeout = FALSE]
  <2>2. asy' = [asy EXCEPT ![b] = r]
    BY <1>0, <1>3, <1>8, <2>1, Zenon DEF Free
  <2>3. r.owed = asy[b].owed /\ r.type = asy[b].type /\ r.ref = asy[b].ref /\ r.result = asy[b].result
    BY <1>3, <2>1, Zenon DEF AsyncType
  <2> HIDE DEF r
  <2> QED BY <1>2, <1>8, <2>1, <2>2, <2>3, Zenon DEF Plain, Free
<1>9. CASE Release(c)
  <2>1. b \in Async
    BY <1>0, <1>9, OnAsync DEF Release, CoveredOps
  <2> DEFINE r == [asy[b] EXCEPT !.ref = asy[b].ref - 1]
  <2>2. asy' = [asy EXCEPT ![b] = r]
    BY <1>0, <1>3, <1>9, <2>1, Zenon DEF Release
  <2>3. r.owed = asy[b].owed /\ r.type = asy[b].type /\ r.ref = asy[b].ref - 1 /\ r.result = asy[b].result
    BY <1>3, <2>1, Zenon DEF AsyncType
  <2> HIDE DEF r
  <2>4. r.ref > 0 => asy[b].ref > 0
    BY <1>3, <2>1, <2>3
  <2> QED BY <1>2, <1>9, <2>1, <2>2, <2>3, <2>4, Zenon DEF Plain, Release
<1>10. CASE Restart(c)
  <2>1. /\ b \in Async /\ Todo[1].op = "restart" /\ Todo[1].a = b /\ 1 \in DOMAIN Todo
        /\ Todo \in Seq(CallType) /\ Todo # <<>>
    BY <1>0, <1>10, OnAsync, Zenon DEF Restart, CoveredOps
  <2> DEFINE r == [asy[b] EXCEPT !.ref = asy[b].ref + 1, !.apc = TRUE]
  <2>2. asy' = [asy EXCEPT ![b] = r]
    BY <1>0, <1>3, <1>10, <2>1, Zenon DEF Restart
  <2>3. r.owed = asy[b].owed /\ r.type = asy[b].type /\ r.result = asy[b].result
    BY <1>3, <2>1, Zenon DEF AsyncType
  <2> HIDE DEF r
  <2>4. asy[b].ref > 0
    <3>1. PICK t \in Thread : Todo = <<Todo[1], ReleaseOf(b), DequeueOf(t)>>
      BY <2>1, Zenon DEF Core, Calls, Shaped
    <3>2. Todo[1] \in CallType /\ Todo[1].s \in Status
      BY <2>1 DEF Core, Calls, Shaped, Fine
    <3>3. Has(Todo, ReleaseOf(b))
      <4>1. PICK w : w = Todo
        BY Zenon
      <4>2. Count(w, ReleaseOf(b)) = 1
        BY <2>1, <3>1, <3>2, <4>1, ThreeCalls
      <4> QED BY <2>1, <4>1, <4>2, CountType
    <3> QED BY <2>1, <3>3, CoveredLive, Zenon DEF CoveredOps
  <2> QED BY <1>2, <1>10, <2>1, <2>2, <2>3, <2>4, Zenon DEF Plain, Restart
<1>11. CASE QueueApc(c)
  <2>1. /\ b \in Async /\ Todo[1].op = "async_queue_apc" /\ Todo[1].a = b /\ Todo # <<>>
    BY <1>0, <1>11, OnAsync, Zenon DEF QueueApc, CoveredOps
  <2>2. asy[b].ref > 0
    <3>1. Queueing(b)
      BY <2>1, Zenon DEF Queueing, Heads
    <3> QED BY <2>1, <3>1, Zenon DEF Core, Account, Exclusive
  <2>3. asy' = asy \/ \E n : asy' = [asy EXCEPT ![b].ref = n]
    BY <1>0, <1>11, Zenon DEF QueueApc
  <2>4. ASSUME NEW n, asy' = [asy EXCEPT ![b].ref = n] PROVE Plain
    <3> DEFINE r == [asy[b] EXCEPT !.ref = n]
    <3>1. asy' = [asy EXCEPT ![b] = r]
      BY <1>3, <2>1, <2>4, Zenon
    <3>2. r.owed = asy[b].owed /\ r.type = asy[b].type /\ r.result = asy[b].result
      BY <1>3, <2>1, Zenon DEF AsyncType
    <3> HIDE DEF r
    <3> QED BY <1>2, <2>1, <2>2, <3>1, <3>2, Zenon
  <2> QED BY <1>4, <1>11, <2>3, <2>4, Zenon DEF Plain, QueueApc
<1>12. CASE SetResult(c) /\ s = "pending"
  <2>1. b \in Async
    BY <1>0, <1>12, OnAsync, Zenon DEF SetResult, CoveredOps
  <2> DEFINE r == [asy[b] EXCEPT !.status = "pending"]
  <2>2. asy' = [asy EXCEPT ![b] = r] /\ packets' = packets
    BY <1>0, <1>3, <1>12, <2>1, Zenon DEF SetResult
  <2>3. r.owed = asy[b].owed /\ r.type = asy[b].type /\ r.ref = asy[b].ref /\ r.result = asy[b].result
    BY <1>3, <2>1, Zenon DEF AsyncType
  <2> HIDE DEF r
  <2> QED BY <1>2, <2>1, <2>2, <2>3, Zenon DEF Plain
<1>13. CASE SetResult(c) /\ s # "pending"
  <2>1. b \in Async
    BY <1>0, <1>13, OnAsync, Zenon DEF SetResult, CoveredOps
  <2> DEFINE r == [asy[b] EXCEPT !.status = s, !.timeout = FALSE, !.result = s]
  <2>2. asy' = [asy EXCEPT ![b] = r]
    BY <1>0, <1>3, <1>13, <2>1, Zenon DEF SetResult
  <2>3. r.owed = asy[b].owed /\ r.type = asy[b].type /\ r.ref = asy[b].ref
    BY <1>3, <2>1, Zenon DEF AsyncType
  <2> HIDE DEF r
  <2>4. asy'[b] = r /\ \A a \in Async : a # b => asy'[a] = asy[a]
    BY <1>3, <2>1, <2>2, Zenon
  <2> QED BY <1>0, <1>13, <2>3, <2>4, Zenon DEF Same
<1>14. CASE WakeUp(c) \/ WakeUpBy(c) \/ DequeueApc(c)
  BY <1>4, <1>14, Zenon DEF WakeUp, WakeUpBy, DequeueApc, Plain
<1> QED BY <1>5, <1>6, <1>7, <1>8, <1>9, <1>10, <1>11, <1>12, <1>13, <1>14 DEF AsyncStep

\* The calls a request or callback starts with, but for the close.
StartCalls == {x \in SafeCalls : x.op \in {"async_wake_up_by", "rearm", "set_timeout", "release",
                 "async_terminate", "async_set_result", "dequeue_apc", "pollwake"}}

LEMMA StartTyped ==
  /\ \A op \in {"set_timeout", "release", "async_terminate", "async_set_result", "dequeue_apc"},
        a \in Async \cup Thread, s \in Status \cup {"pending"} : Call(op, a, s) \in StartCalls
  /\ \A op \in {"rearm", "pollwake"}, ev \in SUBSET Event : FdCall(op, ev) \in StartCalls
  /\ <<>> \in Seq(StartCalls) /\ \A x \in StartCalls : <<x>> \in Seq(StartCalls)
<1>1. /\ {"set_timeout", "release", "async_terminate", "async_set_result", "dequeue_apc"} \subseteq Ops \ FdOps
      /\ {"rearm", "pollwake"} \subseteq Ops \ {"free_async_queue", "fd_destroyed"}
  BY Zenon DEF Ops, FdOps
<1>2. ASSUME NEW op \in {"set_timeout", "release", "async_terminate", "async_set_result", "dequeue_apc"},
             NEW a \in Async \cup Thread, NEW s \in Status \cup {"pending"}
      PROVE  Call(op, a, s) \in StartCalls
  <2>1. Call(op, a, s) \in SafeCalls /\ Call(op, a, s).op = op
    BY <1>1, SafeTyped, CallParts
  <2> QED BY <2>1, Zenon DEF StartCalls
<1>3. ASSUME NEW op \in {"rearm", "pollwake"}, NEW ev \in SUBSET Event PROVE FdCall(op, ev) \in StartCalls
  <2>1. FdCall(op, ev) \in SafeCalls /\ FdCall(op, ev).op = op
    BY <1>1, SafeTyped, CallParts, Zenon
  <2> QED BY <2>1, Zenon DEF StartCalls
<1> HIDE DEF StartCalls
<1>4. <<>> \in Seq(StartCalls) /\ \A x \in StartCalls : <<x>> \in Seq(StartCalls)
  OBVIOUS
<1> QED BY <1>2, <1>3, <1>4, Zenon

LEMMA StartIs ==
  ASSUME Core, Smp = FALSE, NEW c \in Ctx, NEW p \in Seq(StartCalls), Starts(c, p)
  PROVE  Todo = <<>> /\ Todo' \in Seq(StartCalls) /\ Todo' = p
<1>1. StartCalls \subseteq CallType
  BY Zenon DEF StartCalls, SafeCalls
<1>2. p \in Seq(CallType)
  BY <1>1
<1> QED BY <1>2, Starting, Zenon DEF Core

\* A start other than the close of the descriptor.
Opens ==
  \/ \E t \in Thread :
       \/ \E a \in Async, q \in Queue, timed \in Timed : RegisterAsync(t, a, q, timed)
       \/ \E which \in {None, t} \cup Async : CancelAsync(t, which)
       \/ SetCompletionInfo(t) \/ KillThread(t) \/ Apc(t)
  \/ \E a \in Async : AsyncTimeout(a)
  \/ \E q \in Queue : Arrive(q)
  \/ HangUp

LEMMA OpensSafe ==
  ASSUME Core, Smp = FALSE, Opens
  PROVE  Todo = <<>> /\ Todo' \in Seq(StartCalls)
<1>0. "req" \in Ctx /\ "cb" \in Ctx /\ {} \in SUBSET Event /\ {"timeout", "cancelled"} \subseteq Status
  BY Zenon DEF Ctx, Status, Ended
<1>1. ASSUME NEW t \in Thread, NEW a \in Async, NEW q \in Queue, NEW timed \in Timed,
             RegisterAsync(t, a, q, timed)
      PROVE  \E p \in Seq(StartCalls) : Starts("req", p)
  <2> DEFINE x == <<FdCall("rearm", {})>>
             y == IF timed THEN <<Call("set_timeout", a, "pending")>> ELSE <<>>
             z == <<Call("release", a, "pending")>>
  <2>1. Starts("req", x \o y \o z)
    BY <1>1, Zenon DEF RegisterAsync
  <2>2. x \in Seq(StartCalls) /\ y \in Seq(StartCalls) /\ z \in Seq(StartCalls)
    <3>1. FdCall("rearm", {}) \in StartCalls
      BY <1>0, StartTyped, Zenon
    <3>2. Call("set_timeout", a, "pending") \in StartCalls /\ Call("release", a, "pending") \in StartCalls
      BY StartTyped, Zenon
    <3> QED BY <3>1, <3>2, StartTyped, Zenon
  <2> HIDE DEF x, y, z
  <2>3. x \o y \o z \in Seq(StartCalls)
    BY <2>2
  <2> QED BY <2>1, <2>3, Zenon
<1>2. ASSUME NEW t \in Thread, NEW which \in {None, t} \cup Async, CancelAsync(t, which)
      PROVE  \E p \in Seq(StartCalls) : Starts("req", p)
  <2> DEFINE x == [QueueCall("async_wake_up_by", "read", "cancelled") EXCEPT !.a = which]
             y == [QueueCall("async_wake_up_by", "write", "cancelled") EXCEPT !.a = which]
  <2>1. Starts("req", <<x, y>>)
    BY <1>2, Zenon DEF CancelAsync
  <2>2. /\ x \in CallType /\ y \in CallType
        /\ x.op = "async_wake_up_by" /\ y.op = "async_wake_up_by"
    BY Zenon DEF QueueCall, CallType, Ops, Queue, Status, Ended
  <2> HIDE DEF x, y
  <2>3. x \in StartCalls /\ y \in StartCalls
    BY <2>2, Zenon DEF StartCalls, SafeCalls, FdOps
  <2>4. <<x, y>> \in Seq(StartCalls)
    BY <2>3
  <2> QED BY <2>1, <2>4, Zenon
<1>3. ASSUME NEW t \in Thread, KillThread(t) PROVE \E p \in Seq(StartCalls) : Starts("req", p)
  <2> DEFINE p == [i \in DOMAIN sysApc[t] |-> Call("release", sysApc[t][i].a, "pending")]
  <2>1. Starts("req", p)
    BY <1>3, Zenon DEF KillThread
  <2>2. \A i \in DOMAIN sysApc[t] : Call("release", sysApc[t][i].a, "pending") \in StartCalls
    BY ApcTyped, StartTyped, Zenon DEF Core
  <2>3. sysApc[t] \in Seq([a : Async, s : Status])
    BY ApcTyped, Zenon DEF Core
  <2>4. DOMAIN sysApc[t] = 1 .. Len(sysApc[t]) /\ Len(sysApc[t]) \in Nat
    BY <2>3
  <2>5. p \in Seq(StartCalls)
    BY <2>2, <2>4
  <2> QED BY <2>1, <2>5, Zenon
<1>4. ASSUME NEW t \in Thread, Select(t) PROVE \E p \in Seq(StartCalls) : Starts("req", p)
  <2>1. Call("dequeue_apc", t, "pending") \in StartCalls
    BY StartTyped, Zenon
  <2> QED BY <1>4, <2>1, StartTyped, Zenon DEF Select
<1>5. ASSUME NEW t \in Thread, SelectResult(t) PROVE \E p \in Seq(StartCalls) : Starts("req", p)
  <2> DEFINE x == Call("async_set_result", running[t].a, running[t].result)
             y == Call("release", running[t].a, "pending")
             z == Call("dequeue_apc", t, "pending")
  <2>1. Starts("req", <<x, y, z>>) /\ running[t] # None /\ running[t].result # None
    BY <1>5, Zenon DEF SelectResult
  <2>2. running[t].a \in Async /\ running[t].result \in Status \cup {"pending"}
    BY <2>1, ApcTyped, Zenon DEF Core
  <2>3. x \in StartCalls /\ y \in StartCalls /\ z \in StartCalls
    BY <2>2, StartTyped, Zenon
  <2> HIDE DEF x, y, z
  <2>4. <<x, y, z>> \in Seq(StartCalls)
    BY <2>3
  <2> QED BY <2>1, <2>4, Zenon
<1>6. ASSUME NEW a \in Async, AsyncTimeout(a) PROVE \E p \in Seq(StartCalls) : Starts("req", p)
  <2>1. Call("async_terminate", a, "timeout") \in StartCalls
    BY <1>0, StartTyped, Zenon
  <2> QED BY <1>6, <2>1, StartTyped, Zenon DEF AsyncTimeout
<1>7. ASSUME NEW ev, FileEvent(ev) PROVE \E p \in Seq(StartCalls) : Starts("cb", p)
  <2>1. fd.key \in SUBSET Event
    BY Zenon DEF Core, TypeOK, FdType
  <2>2. FdCall("pollwake", fd.key) \in StartCalls
    BY <2>1, StartTyped, Zenon
  <2> QED BY <1>7, <2>2, StartTyped, Zenon DEF FileEvent
<1>8. ASSUME NEW t \in Thread, ClientIo(t) PROVE Todo = <<>> /\ Todo' = <<>>
  <2>1. work["req"] = <<>> /\ work["cb"] = <<>> /\ work' = work
    BY <1>8, Zenon DEF ClientIo, Idle, Ctx
  <2>2. <<>> \o <<>> = <<>>
    OBVIOUS
  <2> QED BY <2>1, <2>2, Zenon DEF Todo
<1>9. ASSUME NEW t \in Thread, SetCompletionInfo(t) PROVE \E p \in Seq(StartCalls) : Starts("req", p)
  BY <1>9, StartTyped, Zenon DEF SetCompletionInfo
<1>10. (\E c \in Ctx : \E p \in Seq(StartCalls) : Starts(c, p)) \/ (Todo = <<>> /\ Todo' = <<>>)
  <2>1. CASE \E t \in Thread : Apc(t)
    BY <1>0, <1>4, <1>5, <1>8, <2>1, Zenon DEF Apc
  <2>2. CASE \E q \in Queue : Arrive(q)
    BY <1>0, <1>7, <2>2, Zenon DEF Arrive
  <2>3. CASE HangUp
    BY <1>0, <1>7, <2>3, Zenon DEF HangUp
  <2>4. CASE \E t \in Thread, a \in Async, q \in Queue, timed \in Timed : RegisterAsync(t, a, q, timed)
    BY <1>0, <1>1, <2>4, Zenon
  <2>5. CASE \E t \in Thread : \E which \in {None, t} \cup Async : CancelAsync(t, which)
    BY <1>0, <1>2, <2>5, Zenon
  <2>6. CASE \E t \in Thread : SetCompletionInfo(t) \/ KillThread(t)
    BY <1>0, <1>3, <1>9, <2>6, Zenon
  <2>7. CASE \E a \in Async : AsyncTimeout(a)
    BY <1>0, <1>6, <2>7, Zenon
  <2> QED BY <2>1, <2>2, <2>3, <2>4, <2>5, <2>6, <2>7, Zenon DEF Opens
<1> QED BY <1>10, StartIs, StartTyped, Zenon

\* The calls that stay are at other places in the list.
LEMMA ReplacedPlaces ==
  ASSUME NEW S, NEW v \in Seq(S), NEW w \in Seq(S), w # <<>>, NEW p \in Seq(S), Replaced(v, w, p)
  PROVE  /\ \A i \in DOMAIN p : i \in DOMAIN v /\ v[i] = p[i]
         /\ \A k \in DOMAIN w : k # 1 =>
              k - 1 + Len(p) \in DOMAIN v /\ v[k - 1 + Len(p)] = w[k] /\ k - 1 + Len(p) \notin DOMAIN p
         /\ \A i \in DOMAIN v : i \notin DOMAIN p =>
              i - Len(p) + 1 \in DOMAIN w /\ i - Len(p) + 1 # 1 /\ v[i] = w[i - Len(p) + 1]
         /\ \A i, j \in DOMAIN v : i - Len(p) + 1 = j - Len(p) + 1 => i = j
         /\ \A i \in DOMAIN v, k \in DOMAIN w :
              k < i - Len(p) + 1 /\ k # 1 => k - 1 + Len(p) \in 1 .. i - 1
<1>1. /\ Len(p) \in Nat /\ Len(w) \in Nat /\ Len(v) \in Nat /\ DOMAIN w = 1 .. Len(w) /\ DOMAIN p = 1 .. Len(p)
      /\ DOMAIN v = 1 .. Len(v) /\ Len(v) = Len(p) + Len(w) - 1
  BY DEF Replaced
<1>2. \A i \in DOMAIN p : i \in DOMAIN v /\ v[i] = p[i]
  <2>1. Len(w) >= 1
    BY EmptyLen
  <2> QED BY <1>1, <2>1 DEF Replaced
<1>3. ASSUME NEW k \in DOMAIN w, k # 1
      PROVE  k - 1 + Len(p) \in DOMAIN v /\ v[k - 1 + Len(p)] = w[k] /\ k - 1 + Len(p) \notin DOMAIN p
  <2>1. k \in 2 .. Len(w)
    BY <1>1, <1>3
  <2>2. v[k - 1 + Len(p)] = w[k]
    BY <2>1, Zenon DEF Replaced
  <2> QED BY <1>1, <2>1, <2>2
<1>4. ASSUME NEW i \in DOMAIN v, i \notin DOMAIN p
      PROVE  i - Len(p) + 1 \in DOMAIN w /\ i - Len(p) + 1 # 1 /\ v[i] = w[i - Len(p) + 1]
  <2>1. i - Len(p) + 1 \in 2 .. Len(w) /\ v[i] = w[i - Len(p) + 1]
    BY <1>1, <1>4, ReplacedFrom
  <2> QED BY <1>1, <2>1
<1>5. \A i, j \in DOMAIN v : i - Len(p) + 1 = j - Len(p) + 1 => i = j
  BY <1>1
<1>6. \A i \in DOMAIN v, k \in DOMAIN w :
        k < i - Len(p) + 1 /\ k # 1 => k - 1 + Len(p) \in 1 .. i - 1
  BY <1>1
<1> QED BY <1>2, <1>3, <1>4, <1>5, <1>6, Zenon

LEMMA BareStep ==
  ASSUME NEW p \in Seq(SafeCalls), StepTo(p), Bare(Todo)
  PROVE  Bare(Todo)'
<1>1. \A i \in DOMAIN p : p[i].op \in FdOps => p[i].a = None
  BY DEF SafeCalls
<1>2. \A i \in DOMAIN Todo' : (\E j \in DOMAIN p : Todo'[i] = p[j]) \/ (\E j \in DOMAIN Todo : Todo'[i] = Todo[j])
  BY ReplacedPlaces DEF StepTo
<1> QED BY <1>1, <1>2, Zenon DEF Bare

\* The descriptor and its queues keep their ports.
LEMMA PortsStep ==
  ASSUME Ports, NEW p \in Seq(SafeCalls), StepTo(p), fd'.open = fd.open, fd'.port = fd.port,
         UNCHANGED <<qfd, qport>>, Todo[1].op \notin {"free_async_queue", "fd_destroyed"},
         \A a \in Async : Same(a)
  PROVE  Ports'
<1>1. \A i \in DOMAIN p : p[i].op \notin {"free_async_queue", "fd_destroyed"}
  BY DEF SafeCalls
<1> DEFINE n == Len(p)
<1>2. /\ \A i \in DOMAIN p : i \in DOMAIN Todo' /\ Todo'[i] = p[i]
      /\ \A k \in DOMAIN Todo : k # 1 => k - 1 + n \in DOMAIN Todo' /\ Todo'[k - 1 + n] = Todo[k]
      /\ \A i \in DOMAIN Todo' : i \notin DOMAIN p =>
           i - n + 1 \in DOMAIN Todo /\ i - n + 1 # 1 /\ Todo'[i] = Todo[i - n + 1]
      /\ \A i, j \in DOMAIN Todo' : i - n + 1 = j - n + 1 => i = j
      /\ \A i \in DOMAIN Todo', k \in DOMAIN Todo : k < i - n + 1 /\ k # 1 => k - 1 + n \in 1 .. i - 1
  BY ReplacedPlaces DEF StepTo
<1> HIDE DEF n
<1>3. \A i \in DOMAIN Todo' : Todo'[i].op \in {"free_async_queue", "fd_destroyed"} =>
        i - n + 1 \in DOMAIN Todo /\ Todo'[i] = Todo[i - n + 1]
  BY <1>1, <1>2, Zenon
<1>4. fd'.open => \A i \in DOMAIN Todo' : Todo'[i].op \notin {"free_async_queue", "fd_destroyed"}
  BY <1>3, Zenon DEF Ports
<1>5. \A i \in DOMAIN Todo' : Todo'[i].op = "free_async_queue" => qfd'[Todo'[i].q]
  BY <1>3 DEF Ports
<1>6. ASSUME NEW i \in DOMAIN Todo', NEW j \in DOMAIN Todo', Todo'[i].op = "free_async_queue",
             Todo'[j].op = "free_async_queue", Todo'[i].q = Todo'[j].q
      PROVE  i = j
  <2>1. i - n + 1 = j - n + 1
    BY <1>3, <1>6 DEF Ports
  <2> QED BY <1>2, <2>1, Zenon
<1>7. ASSUME NEW i \in DOMAIN Todo', Todo'[i].op = "fd_destroyed", NEW q \in Queue, qfd'[q]
      PROVE  \E j \in 1 .. i - 1 : Todo'[j].op = "free_async_queue" /\ Todo'[j].q = q
  <2>1. i - n + 1 \in DOMAIN Todo /\ Todo[i - n + 1].op = "fd_destroyed" /\ qfd[q]
    BY <1>3, <1>7, Zenon
  <2>2. PICK k \in 1 .. (i - n + 1) - 1 : Todo[k].op = "free_async_queue" /\ Todo[k].q = q
    BY <2>1, Zenon DEF Ports
  <2>3. k \in DOMAIN Todo /\ k < i - n + 1
    <3>1. DOMAIN Todo = 1 .. Len(Todo) /\ Len(Todo) \in Nat
      BY DEF StepTo
    <3> QED BY <2>1, <2>2, <3>1
  <2>4. k # 1
    BY <2>2, Zenon
  <2>5. k - 1 + n \in 1 .. i - 1 /\ Todo'[k - 1 + n] = Todo[k]
    BY <1>2, <2>3, <2>4, Zenon
  <2> QED BY <2>2, <2>5, Zenon
<1>8. \A a \in Async : (asy[a].owed /\ asy[a].ref > 0 => Kept(asy[a].type))'
  BY Zenon DEF Ports, Same, Kept
<1>9. fd'.open => \A q \in Queue : qfd'[q]
  BY Zenon DEF Ports
<1> QED BY <1>4, <1>5, <1>6, <1>7, <1>8, <1>9, Zenon DEF Ports

\* What a start leaves of an operation: register_async creates one.
LEMMA OpensKeep ==
  ASSUME Core, Opens
  PROVE  /\ fd'.open = fd.open /\ (fd.port => fd'.port) /\ UNCHANGED <<qfd, qport, packets>>
         /\ \A a \in Async :
              /\ asy'[a].result = asy[a].result
              /\ \/ Same(a)
                 \/ /\ fd.open /\ fd' = fd /\ asy'[a].owed = fd.port /\ asy'[a].type \in Queue
                    /\ asy'[a].result = None
<1>0. fd \in FdType /\ asy \in [Async -> AsyncType]
  BY Zenon DEF Core, TypeOK
<1>1. ASSUME NEW t \in Thread, NEW b \in Async, NEW q \in Queue, NEW timed \in Timed,
             RegisterAsync(t, b, q, timed)
      PROVE  /\ UNCHANGED <<qfd, qport, packets, fd>> /\ fd.open
             /\ \A a \in Async : /\ asy'[a].result = asy[a].result
                                 /\ \/ Same(a)
                                    \/ /\ asy'[a].owed = fd.port /\ asy'[a].type \in Queue
                                       /\ asy'[a].result = None
  <2> DEFINE r == [life |-> "live", type |-> q, thread |-> t, status |-> "pending", apc |-> TRUE,
                   timeout |-> FALSE, ref |-> 2, owed |-> fd.port, result |-> None]
  <2>1. /\ asy[b].life = "unused" /\ asy' = [asy EXCEPT ![b] = r] /\ fd.open
        /\ UNCHANGED <<qfd, qport, packets, fd>>
    BY <1>1, Zenon DEF RegisterAsync
  <2>2. r.owed = fd.port /\ r.type = q /\ r.result = None
    BY Zenon
  <2> HIDE DEF r
  <2>3. asy'[b] = r /\ \A a \in Async : a # b => asy'[a] = asy[a]
    BY <1>0, <2>1, Zenon
  <2>4. asy[b].result = None
    BY <2>1, Zenon DEF Core, Account, Living
  <2> QED BY <2>1, <2>2, <2>3, <2>4, Zenon DEF Same
<1>2. ASSUME NEW b \in Async, AsyncTimeout(b)
      PROVE  /\ UNCHANGED <<qfd, qport, packets, fd>>
             /\ \A a \in Async : asy'[a].result = asy[a].result /\ Same(a)
  <2> DEFINE r == [asy[b] EXCEPT !.timeout = FALSE]
  <2>1. asy' = [asy EXCEPT ![b] = r] /\ UNCHANGED <<qfd, qport, packets, fd>>
    BY <1>0, <1>2, Zenon DEF AsyncTimeout, qVars
  <2>2. asy[b] \in AsyncType
    BY <1>0, Zenon
  <2>3. r.owed = asy[b].owed /\ r.type = asy[b].type /\ r.ref = asy[b].ref /\ r.result = asy[b].result
    BY <2>2, Zenon DEF AsyncType
  <2> HIDE DEF r
  <2>4. asy'[b] = r /\ \A a \in Async : a # b => asy'[a] = asy[a]
    BY <1>0, <2>1, Zenon
  <2> QED BY <2>1, <2>3, <2>4, Zenon DEF Same
<1>3. ASSUME NEW t \in Thread, SetCompletionInfo(t)
      PROVE  UNCHANGED <<asy, qfd, qport, packets>> /\ fd'.open = fd.open /\ fd'.port
  BY <1>0, <1>3, Zenon DEF SetCompletionInfo, FdType, qVars
<1>4. ASSUME NEW t \in Thread, NEW which, CancelAsync(t, which) \/ KillThread(t) \/ Apc(t)
      PROVE  UNCHANGED <<asy, qfd, qport, packets, fd>>
  BY <1>4, Zenon DEF CancelAsync, KillThread, Apc, Select, SelectResult, ClientIo, qVars
<1>5. ASSUME NEW ev, FileEvent(ev) PROVE UNCHANGED <<asy, qfd, qport, packets, fd>>
  BY <1>5, Zenon DEF FileEvent, qVars
<1>6. (\A a \in Async : asy'[a] = asy[a]) => \A a \in Async : asy'[a].result = asy[a].result /\ Same(a)
  BY Zenon DEF Same
<1>7. CASE \E t \in Thread, a \in Async, q \in Queue, timed \in Timed : RegisterAsync(t, a, q, timed)
  BY <1>1, <1>7, Zenon
<1>8. CASE \E a \in Async : AsyncTimeout(a)
  BY <1>2, <1>8, Zenon
<1>9. CASE \E t \in Thread : SetCompletionInfo(t)
  BY <1>3, <1>6, <1>9, Zenon
<1>10. CASE \E t \in Thread : (\E which \in {None, t} \cup Async : CancelAsync(t, which)) \/ KillThread(t) \/ Apc(t)
  BY <1>4, <1>6, <1>10, Zenon
<1>11. CASE (\E q \in Queue : Arrive(q)) \/ HangUp
  BY <1>5, <1>6, <1>11, Zenon DEF Arrive, HangUp
<1> QED BY <1>7, <1>8, <1>9, <1>10, <1>11, Zenon DEF Opens

LEMMA PortsOpens ==
  ASSUME Core, Smp = FALSE, Opens, Ports
  PROVE  Ports' /\ Bare(Todo)'
<1>1. Todo' \in Seq(StartCalls)
  BY OpensSafe, Zenon
<1>2. \A i \in DOMAIN Todo' :
        Todo'[i].op \notin {"free_async_queue", "fd_destroyed"} /\ (Todo'[i].op \in FdOps => Todo'[i].a = None)
  <2>1. \A i \in DOMAIN Todo' : Todo'[i] \in StartCalls
    BY <1>1
  <2> QED BY <2>1, Zenon DEF StartCalls, SafeCalls
<1>3. /\ fd'.open = fd.open /\ (fd.port => fd'.port) /\ UNCHANGED <<qfd, qport>>
      /\ \A a \in Async : \/ Same(a)
                          \/ fd.open /\ fd' = fd /\ asy'[a].owed = fd.port /\ asy'[a].type \in Queue
  BY OpensKeep, Zenon
<1>4. \A a \in Async : (asy[a].owed /\ asy[a].ref > 0 => Kept(asy[a].type))'
  <2> SUFFICES ASSUME NEW a \in Async PROVE (asy[a].owed /\ asy[a].ref > 0 => Kept(asy[a].type))'
    BY Zenon
  <2>1. CASE Same(a)
    BY <1>3, <2>1, Zenon DEF Ports, Same, Kept
  <2>2. CASE fd.open /\ fd' = fd /\ asy'[a].owed = fd.port /\ asy'[a].type \in Queue
    BY <1>3, <2>2, Zenon DEF Ports, Kept
  <2> QED BY <1>3, <2>1, <2>2, Zenon
<1>5. fd'.open => \A q \in Queue : qfd'[q]
  BY <1>3, Zenon DEF Ports
<1> QED BY <1>2, <1>4, <1>5, Zenon DEF Ports, Bare

LEMMA CallQueues ==
  ASSUME NEW w \in Seq(CallType)
  PROVE  \A i \in DOMAIN w : w[i] \in CallType /\ w[i].q \in Queue /\ w[i].ev \in SUBSET Event
<1>1. \A i \in DOMAIN w : w[i] \in CallType
  OBVIOUS
<1> QED BY <1>1, Zenon DEF CallType

LEMMA PortsFreeQueue ==
  ASSUME Core, NEW c \in Ctx, FreeQueue(c), Ports
  PROVE  Ports'
<1>0. PICK q : q = Arg(c).q
  BY Zenon
<1>1. /\ work[c] # <<>> /\ Arg(c).op = "free_async_queue"
      /\ Then(c, <<QueueCall("async_wake_up", q, "closed")>>)
      /\ qport' = [qport EXCEPT ![q] = fd.port] /\ qfd' = [qfd EXCEPT ![q] = FALSE]
      /\ UNCHANGED <<asy, fd>>
  BY <1>0, Zenon DEF FreeQueue, Now, Arg
<1>2. Arg(c) \in CallType /\ q \in Queue /\ "closed" \in Status \cup {"pending"} /\ "async_wake_up" \in Ops
  BY <1>0, <1>1, HeadFine, Zenon DEF CallType, Status, Ended, Ops
<1> DEFINE x == QueueCall("async_wake_up", q, "closed")
           p == <<x>>
<1>3. x \in CallType /\ x.op = "async_wake_up"
  BY <1>2, CallTyped, CallParts
<1>4. p \in Seq(CallType) /\ Len(p) = 1 /\ DOMAIN p = {1} /\ p[1].op = "async_wake_up"
  <2> HIDE DEF x
  <2> QED BY <1>3
<1> HIDE DEF p, x
<1>5. Todo[1] = Arg(c) /\ StepTo(p) /\ 1 \in DOMAIN Todo
  <2>1. Then(c, p)
    BY <1>1, Zenon DEF p, x
  <2>2. Todo[1] = Arg(c) /\ StepTo(p)
    BY <1>1, <1>4, <2>1, Acting, Zenon DEF Core, StepTo
  <2> QED BY <1>1, <2>2, HeadFine, Zenon
<1>6. /\ DOMAIN Todo' = DOMAIN Todo /\ Todo'[1].op = "async_wake_up"
      /\ \A i \in DOMAIN Todo' : i # 1 => Todo'[i] = Todo[i]
  <2>1. /\ Len(Todo') = Len(p) + Len(Todo) - 1 /\ DOMAIN Todo = 1 .. Len(Todo) /\ DOMAIN Todo' = 1 .. Len(Todo')
        /\ Len(Todo) \in Nat
    BY <1>5 DEF StepTo, Replaced
  <2>2. \A i \in 2 .. Len(Todo) : Todo'[i - 1 + 1] = Todo[i]
    BY <1>4, <1>5, Zenon DEF StepTo, Replaced
  <2>3. \A i \in DOMAIN Todo' : i # 1 => i \in 2 .. Len(Todo) /\ i - 1 + 1 = i
    BY <1>4, <2>1
  <2>4. Todo'[1] = p[1]
    BY <1>4, <1>5 DEF StepTo, Replaced
  <2> QED BY <1>4, <2>1, <2>2, <2>3, <2>4
<1>7. ~fd.open /\ qfd[q]
  BY <1>0, <1>1, <1>5, Zenon DEF Ports
<1>8. /\ qfd'[q] = FALSE /\ qport'[q] = fd.port
      /\ \A k \in Queue : k # q => qfd'[k] = qfd[k] /\ qport'[k] = qport[k]
  BY <1>1, <1>2, Zenon DEF Core, TypeOK
<1>9. \A i \in DOMAIN Todo' : Todo'[i].op = "free_async_queue" =>
        i # 1 /\ Todo[i].op = "free_async_queue" /\ Todo'[i].q = Todo[i].q /\ Todo[i].q # q
  BY <1>0, <1>1, <1>5, <1>6 DEF Ports
<1>10. \A i \in DOMAIN Todo' : Todo'[i].op = "free_async_queue" => qfd'[Todo'[i].q]
  <2>1. \A i \in DOMAIN Todo : Todo[i].q \in Queue
    BY <1>5, CallQueues, Zenon DEF StepTo
  <2> QED BY <1>6, <1>8, <1>9, <2>1, Zenon DEF Ports
<1>11. \A i, j \in DOMAIN Todo' :
         Todo'[i].op = "free_async_queue" /\ Todo'[j].op = "free_async_queue" /\ Todo'[i].q = Todo'[j].q
           => i = j
  BY <1>6, <1>9 DEF Ports
<1>12. ASSUME NEW i \in DOMAIN Todo', Todo'[i].op = "fd_destroyed", NEW k \in Queue, qfd'[k]
       PROVE  \E j \in 1 .. i - 1 : Todo'[j].op = "free_async_queue" /\ Todo'[j].q = k
  <2>1. i # 1 /\ Todo[i].op = "fd_destroyed" /\ k # q /\ qfd[k]
    BY <1>6, <1>8, <1>12, Zenon
  <2>2. PICK j \in 1 .. i - 1 : Todo[j].op = "free_async_queue" /\ Todo[j].q = k
    BY <1>6, <1>12, <2>1, Zenon DEF Ports
  <2>3. j # 1 /\ j \in DOMAIN Todo'
    <3>1. DOMAIN Todo = 1 .. Len(Todo) /\ Len(Todo) \in Nat
      BY <1>5 DEF StepTo
    <3> QED BY <1>0, <1>5, <1>6, <2>1, <2>2, <3>1
  <2> QED BY <1>6, <2>2, <2>3, Zenon
<1>13. \A a \in Async : (asy[a].owed /\ asy[a].ref > 0 => Kept(asy[a].type))'
  <2>1. \A a \in Async : asy[a].type \in Queue
    BY AsyFields, Zenon DEF Core
  <2> QED BY <1>1, <1>7, <1>8, <2>1 DEF Ports, Kept
<1> QED BY <1>1, <1>7, <1>10, <1>11, <1>12, <1>13, Zenon DEF Ports

LEMMA PortsFdDestroyEnd ==
  ASSUME Core, NEW c \in Ctx, FdDestroyEnd(c), Ports
  PROVE  Ports'
<1>1. /\ Now(c, "fd_destroyed") /\ Then(c, <<>>) /\ fd' = [fd EXCEPT !.port = FALSE, !.key = {}]
      /\ UNCHANGED <<asy, qfd, qport>>
  BY Zenon DEF FdDestroyEnd, qVars
<1>2. Takes(c, "fd_destroyed", <<>>)
  BY <1>1, EmptyPush, Taking, Zenon
<1>3. Todo[1].op = "fd_destroyed" /\ 1 \in DOMAIN Todo
  BY <1>2, Zenon DEF Takes
<1>4. ~fd.open /\ \A q \in Queue : ~qfd[q]
  <2>1. 1 .. 1 - 1 = {}
    OBVIOUS
  <2> QED BY <1>3, <2>1, Zenon DEF Ports
<1>5. \A i \in DOMAIN Todo' : \E j \in DOMAIN Todo : Todo'[i] = Todo[j]
  <2>1. PICK e \in Seq(CallType) : e = <<>> /\ DOMAIN e = {}
    BY EmptyPush, Zenon
  <2>2. StepTo(e)
    BY <1>2, <2>1, Zenon DEF Takes
  <2>3. \A i \in DOMAIN Todo' : i \notin DOMAIN e =>
          i - Len(e) + 1 \in DOMAIN Todo /\ Todo'[i] = Todo[i - Len(e) + 1]
    BY <2>2, ReplacedPlaces DEF StepTo
  <2> QED BY <2>1, <2>3, Zenon
<1>6. \A i \in DOMAIN Todo' : Todo'[i].op # "free_async_queue"
  <2>1. \A i \in DOMAIN Todo : Todo[i].q \in Queue
    BY <1>2, CallQueues, Zenon DEF Takes, StepTo
  <2> QED BY <1>4, <1>5, <2>1, Zenon DEF Ports
<1>7. fd'.open = fd.open
  BY <1>1, Zenon DEF Core, TypeOK, FdType
<1>8. \A a \in Async : (asy[a].owed /\ asy[a].ref > 0 => Kept(asy[a].type))'
  <2>1. \A a \in Async : asy[a].type \in Queue
    BY AsyFields DEF Core
  <2> QED BY <1>1, <1>4, <2>1, Zenon DEF Ports, Kept
<1> QED BY <1>1, <1>4, <1>6, <1>7, <1>8, Zenon DEF Ports

\* The close of the descriptor, from place n + 1, among calls of release_object.
ClosesAt(p, n) ==
  /\ {n + 1, n + 2, n + 3} \subseteq DOMAIN p
  /\ p[n + 1] = CloseCalls[1] /\ p[n + 2] = CloseCalls[2] /\ p[n + 3] = CloseCalls[3]
  /\ \A i \in DOMAIN p : i \notin {n + 1, n + 2, n + 3} => p[i].op = "release"

LEMMA ConcatPlaces ==
  ASSUME NEW S, NEW v \in Seq(S), NEW w \in Seq(S)
  PROVE  /\ \A k \in DOMAIN (v \o w) :
              \/ k \in DOMAIN v /\ (v \o w)[k] = v[k]
              \/ k - Len(v) \in DOMAIN w /\ (v \o w)[k] = w[k - Len(v)] /\ k = Len(v) + (k - Len(v))
         /\ \A i \in DOMAIN v : i \in DOMAIN (v \o w) /\ (v \o w)[i] = v[i]
         /\ \A i \in DOMAIN w : Len(v) + i \in DOMAIN (v \o w) /\ (v \o w)[Len(v) + i] = w[i]
<1>1. /\ v \o w \in Seq(S) /\ Len(v \o w) = Len(v) + Len(w)
      /\ \A i \in 1 .. Len(v) : (v \o w)[i] = v[i]
      /\ \A i \in 1 .. Len(w) : (v \o w)[Len(v) + i] = w[i]
  BY ConcatAt
<1>2. /\ DOMAIN v = 1 .. Len(v) /\ DOMAIN w = 1 .. Len(w) /\ Len(v) \in Nat /\ Len(w) \in Nat
      /\ DOMAIN (v \o w) = 1 .. Len(v) + Len(w)
  BY <1>1, EmptyLen, Zenon
<1>3. ASSUME NEW k \in DOMAIN (v \o w)
      PROVE  \/ k \in DOMAIN v /\ (v \o w)[k] = v[k]
             \/ k - Len(v) \in DOMAIN w /\ (v \o w)[k] = w[k - Len(v)] /\ k = Len(v) + (k - Len(v))
  <2>1. CASE k \in 1 .. Len(v)
    BY <1>1, <1>2, <2>1, Zenon
  <2>2. CASE k \notin 1 .. Len(v)
    <3>1. k - Len(v) \in 1 .. Len(w) /\ Len(v) + (k - Len(v)) = k
      BY <1>2, <2>2
    <3> QED BY <1>1, <1>2, <3>1, Zenon
  <2> QED BY <2>1, <2>2, Zenon
<1> QED BY <1>1, <1>2, <1>3

LEMMA CloseList ==
  ASSUME NEW x \in Seq(CallType), \A i \in DOMAIN x : x[i].op = "release"
  PROVE  ClosesAt(CloseCalls, 0) /\ ClosesAt(x \o CloseCalls, Len(x)) /\ ClosesAt(CloseCalls \o x, 0)
<1>0. PICK y : y = CloseCalls
  BY Zenon
<1>1. y \in Seq(CallType) /\ DOMAIN y = {1, 2, 3} /\ Len(y) = 3 /\ 0 + 1 = 1 /\ 0 + 2 = 2 /\ 0 + 3 = 3
  BY <1>0, CloseTyped
<1>2. ClosesAt(y, 0)
  BY <1>0, <1>1, Zenon DEF ClosesAt
<1>3. ClosesAt(x \o y, Len(x))
  <2>1. /\ \A k \in DOMAIN (x \o y) :
              \/ k \in DOMAIN x /\ (x \o y)[k] = x[k]
              \/ k - Len(x) \in DOMAIN y /\ k = Len(x) + (k - Len(x))
        /\ \A i \in DOMAIN y : Len(x) + i \in DOMAIN (x \o y) /\ (x \o y)[Len(x) + i] = y[i]
    BY <1>1, ConcatPlaces
  <2> QED BY <1>0, <1>1, <2>1, Zenon DEF ClosesAt
<1>4. ClosesAt(y \o x, 0)
  <2>1. /\ \A k \in DOMAIN (y \o x) :
              \/ k \in DOMAIN y
              \/ k - Len(y) \in DOMAIN x /\ (y \o x)[k] = x[k - Len(y)]
        /\ \A i \in DOMAIN y : i \in DOMAIN (y \o x) /\ (y \o x)[i] = y[i]
    BY <1>1, ConcatPlaces
  <2> QED BY <1>0, <1>1, <2>1 DEF ClosesAt
<1> QED BY <1>0, <1>2, <1>3, <1>4, Zenon

LEMMA PortsClosing ==
  ASSUME Core, Ports, NEW n \in Nat, ClosesAt(Todo', n), Todo' \in Seq(CallType), fd.open, ~fd'.open,
         fd'.port = fd.port, UNCHANGED <<asy, qfd, qport>>
  PROVE  Ports' /\ Bare(Todo)'
<1>1. /\ Todo'[n + 1].op = "free_async_queue" /\ Todo'[n + 1].q = "read" /\ Todo'[n + 1].a = None
      /\ Todo'[n + 2].op = "free_async_queue" /\ Todo'[n + 2].q = "write" /\ Todo'[n + 2].a = None
      /\ Todo'[n + 3].op = "fd_destroyed" /\ Todo'[n + 3].a = None
  BY CloseTyped, CallParts DEF ClosesAt
<1>2. \A i \in DOMAIN Todo' : i \notin {n + 1, n + 2, n + 3} => Todo'[i].op = "release"
  BY Zenon DEF ClosesAt
<1>3. Queue = {"read", "write"} /\ \A q \in Queue : qfd'[q]
  BY Zenon DEF Ports, Queue
<1>4. \A i \in DOMAIN Todo' : Todo'[i].op = "free_async_queue" => i \in {n + 1, n + 2}
  BY <1>1, <1>2, Zenon
<1>5. \A i \in DOMAIN Todo' : Todo'[i].op = "fd_destroyed" => i = n + 3
  BY <1>1, <1>2, Zenon
<1>6. \A i \in DOMAIN Todo' : Todo'[i].op = "free_async_queue" => qfd'[Todo'[i].q]
  BY <1>1, <1>3, <1>4, Zenon
<1>7. \A i, j \in DOMAIN Todo' :
         Todo'[i].op = "free_async_queue" /\ Todo'[j].op = "free_async_queue" /\ Todo'[i].q = Todo'[j].q
           => i = j
  BY <1>1, <1>4, Zenon
<1>8. \A i \in DOMAIN Todo' : Todo'[i].op = "fd_destroyed" =>
        \A q \in Queue : \E j \in 1 .. i - 1 : Todo'[j].op = "free_async_queue" /\ Todo'[j].q = q
  <2>1. n + 1 \in 1 .. (n + 3) - 1 /\ n + 2 \in 1 .. (n + 3) - 1
    OBVIOUS
  <2> QED BY <1>1, <1>3, <1>5, <2>1, Zenon
<1>9. \A a \in Async : (asy[a].owed /\ asy[a].ref > 0 => Kept(asy[a].type))'
  BY Zenon DEF Ports, Kept
<1>10. Bare(Todo)'
  BY <1>1, <1>2, Zenon DEF Bare, FdOps
<1> QED BY <1>3, <1>6, <1>7, <1>8, <1>9, <1>10 DEF Ports

LEMMA PortsClose ==
  ASSUME ListFacts, Core, Smp = FALSE, Ports, (\E t \in Thread : CloseFd(t)) \/ \E first \in BOOLEAN : ProcessExit(first)
  PROVE  Ports' /\ Bare(Todo)'
<1>0. "req" \in Ctx /\ fd \in FdType
  BY Zenon DEF Ctx, Core, TypeOK
<1>1. CASE \E t \in Thread : CloseFd(t)
  <2>1. /\ fd.open /\ fd' = [fd EXCEPT !.open = FALSE] /\ Starts("req", CloseCalls)
        /\ UNCHANGED <<asy, qfd, qport>>
    BY <1>1, Zenon DEF CloseFd, qVars
  <2>2. ~fd'.open /\ fd'.port = fd.port
    BY <1>0, <2>1, Zenon DEF FdType
  <2>3. Todo' = CloseCalls /\ CloseCalls \in Seq(CallType)
    BY <1>0, <2>1, CloseTyped, Starting, Zenon DEF Core
  <2>4. ClosesAt(CloseCalls, 0)
    BY EmptyPush, CloseList, Zenon
  <2> QED BY <2>1, <2>2, <2>3, <2>4, PortsClosing, Zenon
<1>2. CASE \E first \in BOOLEAN : ProcessExit(first)
  <2>0. PICK first \in BOOLEAN : ProcessExit(first)
    BY <1>2, Zenon
  <2>1. PICK held : held = {running[t].a : t \in {u \in Thread : running[u] # None}}
    BY Zenon
  <2>2. PICK x : x = Releases(held)
    BY Zenon
  <2>3. PICK y : y = IF fd.open THEN CloseCalls ELSE <<>>
    BY Zenon
  <2>4. PICK p : p = IF first THEN x \o y ELSE y \o x
    BY Zenon
  <2>5. /\ fd' = [fd EXCEPT !.open = FALSE] /\ Starts("req", p)
        /\ UNCHANGED <<asy, qfd, qport>>
    BY <2>0, <2>1, <2>2, <2>3, <2>4, Zenon DEF ProcessExit, Releases, qVars
  <2>6. held \in SUBSET Async
    BY <2>1, ApcTyped, Zenon DEF Core
  <2>7. x \in Seq(CallType) /\ \A i \in DOMAIN x : x[i].op = "release"
    BY <2>2, <2>6, Orphans, CallOps
  <2>8. y \in Seq(CallType)
    BY <2>3, CloseTyped, EmptyPush, Zenon
  <2>9. p \in Seq(CallType)
    BY <2>4, <2>7, <2>8, ConcatAt, Zenon
  <2>10. Todo' = p
    BY <1>0, <2>5, <2>9, Starting, Zenon DEF Core
  <2>11. ~fd'.open /\ fd'.port = fd.port
    BY <1>0, <2>5, Zenon DEF FdType
  <2>12. CASE fd.open
    <3>1. \E n \in Nat : ClosesAt(p, n)
      <4>1. y = CloseCalls /\ Len(x) \in Nat /\ 0 \in Nat
        BY <2>3, <2>7, <2>12
      <4> QED BY <2>4, <2>7, <4>1, CloseList, Zenon
    <3> QED BY <2>5, <2>9, <2>10, <2>11, <2>12, <3>1, PortsClosing
  <2>13. CASE ~fd.open
    <3>1. DOMAIN y = {}
      BY <2>3, <2>13, EmptyPush, Zenon
    <3>2. \A i \in DOMAIN p : p[i].op = "release"
      <4>1. \A k \in DOMAIN (x \o y) : k \in DOMAIN x /\ (x \o y)[k] = x[k]
        BY <2>7, <2>8, <3>1, ConcatPlaces, Zenon
      <4>2. \A k \in DOMAIN (y \o x) : k - Len(y) \in DOMAIN x /\ (y \o x)[k] = x[k - Len(y)]
        BY <2>7, <2>8, <3>1, ConcatPlaces
      <4> QED BY <2>4, <2>7, <4>1, <4>2, Zenon
    <3>3. Bare(Todo)'
      BY <2>10, <3>2, Zenon DEF Bare, FdOps
    <3>4. \A a \in Async : (asy[a].owed /\ asy[a].ref > 0 => Kept(asy[a].type))'
      BY <2>5, <2>11, Zenon DEF Ports, Kept
    <3> QED BY <2>10, <2>11, <3>2, <3>3, <3>4, Zenon DEF Ports
  <2> QED BY <2>12, <2>13, Zenon
<1> QED BY <1>1, <1>2, Zenon

LEMMA StepSafe ==
  ASSUME ListFacts, Core, NEW c \in Ctx, Step(c)
  PROVE  \E p \in Seq(SafeCalls) : StepTo(p)
<1>1. PICK p \in Seq(SafeCalls) : Then(c, p)
  BY SafeFdStep, SafeAsyncStep, Zenon DEF Step
<1>2. p \in Seq(CallType)
  <2>1. SafeCalls \subseteq CallType
    BY Zenon DEF SafeCalls
  <2> QED BY <2>1
<1>3. work[c] # <<>>
  BY Zenon DEF Step, FdStep, AsyncStep, SetFdEvents, PollWake, FdPollEvent, FdPollEventEnd, PollEvent, Rearm,
     Reselect, FreeQueue, FdDestroyEnd, Terminate, QueueApc, ClearApc, Release, Free, WakeUp, WakeUpBy,
     SetResult, Restart, DequeueApc, SetTimeout, Now
<1> QED BY <1>1, <1>2, <1>3, Acting, Zenon DEF Core, StepTo

LEMMA PortsNext ==
  ASSUME ListFacts, Core, Smp = FALSE, Bare(Todo), Ports, [Next]_vars
  PROVE  Ports' /\ Bare(Todo)'
<1>1. ASSUME NEW c \in Ctx, Step(c) PROVE Ports' /\ Bare(Todo)'
  <2>1. PICK p \in Seq(SafeCalls) : StepTo(p)
    BY <1>1, StepSafe, Zenon
  <2>2. Bare(Todo)'
    BY <2>1, BareStep, Zenon
  <2>3. ASSUME work[c] # <<>>, Arg(c).op \notin {"free_async_queue", "fd_destroyed"}
        PROVE  Todo[1].op \notin {"free_async_queue", "fd_destroyed"}
    BY <2>3, HeadFine, Zenon
  <2>4. CASE AsyncStep(c)
    <3>1. \A a \in Async : Same(a)
      BY <2>4, SameAsyncStep, Zenon
    <3>2. UNCHANGED <<qfd, qport>> /\ fd'.open = fd.open /\ fd'.port = fd.port
      BY <2>4, Zenon DEF AsyncStep, Terminate, QueueApc, ClearApc, Release, Free, WakeUp, WakeUpBy,
         SetResult, Restart, DequeueApc, SetTimeout, qVars
    <3>3. work[c] # <<>> /\ Arg(c).op \notin {"free_async_queue", "fd_destroyed"}
      BY <2>4, Zenon DEF AsyncStep, Terminate, QueueApc, ClearApc, Release, Free, WakeUp, WakeUpBy,
         SetResult, Restart, DequeueApc, SetTimeout, Now, Arg
    <3> QED BY <2>1, <2>2, <2>3, <3>1, <3>2, <3>3, PortsStep
  <2>5. CASE FreeQueue(c)
    BY <2>2, <2>5, PortsFreeQueue, Zenon
  <2>6. CASE FdDestroyEnd(c)
    BY <2>2, <2>6, PortsFdDestroyEnd, Zenon
  <2>7. CASE \/ SetFdEvents(c) \/ PollWake(c) \/ FdPollEvent(c) \/ FdPollEventEnd(c) \/ PollEvent(c)
             \/ Rearm(c) \/ Reselect(c)
    <3>1. UNCHANGED <<asy, qfd, qport>>
      BY <2>7, Zenon DEF SetFdEvents, PollWake, FdPollEvent, FdPollEventEnd, PollEvent, Rearm, Reselect, qVars
    <3>2. \A a \in Async : Same(a)
      BY <3>1, Zenon DEF Same
    <3>3. fd'.open = fd.open /\ fd'.port = fd.port
      <4>1. fd \in FdType
        BY Zenon DEF Core, TypeOK
      <4> QED BY <2>7, <4>1, Zenon DEF SetFdEvents, PollWake, FdPollEvent, FdPollEventEnd, PollEvent, Rearm,
                   Reselect, FdType
    <3>4. work[c] # <<>> /\ Arg(c).op \notin {"free_async_queue", "fd_destroyed"}
      BY <2>7, Zenon DEF SetFdEvents, PollWake, FdPollEvent, FdPollEventEnd, PollEvent, Rearm, Reselect, Now, Arg
    <3> QED BY <2>1, <2>2, <2>3, <3>1, <3>2, <3>3, <3>4, PortsStep
  <2> QED BY <1>1, <2>4, <2>5, <2>6, <2>7, Zenon DEF Step, FdStep
<1>2. CASE (\E t \in Thread : CloseFd(t)) \/ \E first \in BOOLEAN : ProcessExit(first)
  BY <1>2, PortsClose, Zenon
<1>3. CASE Opens
  BY <1>3, PortsOpens, Zenon
<1>4. CASE UNCHANGED vars
  <2>1. Todo' = Todo /\ UNCHANGED <<fd, asy, qfd, qport>>
    BY <1>4, Zenon DEF vars, qVars, Todo
  <2> QED BY <2>1 DEF Ports, Bare, Kept
<1> QED BY <1>1, <1>2, <1>3, <1>4, Zenon DEF Next, ThreadRequest, Opens

LEMMA PacksFinal ==
  ASSUME ListFacts, Core, Ports, Packs, NEW c \in Ctx, SetResult(c), Arg(c).s # "pending"
  PROVE  Packs'
<1>0. PICK b, s : b = Arg(c).a /\ s = Arg(c).s
  BY Zenon
<1> DEFINE r == [asy[b] EXCEPT !.status = s, !.timeout = FALSE, !.result = s]
<1>1. /\ Now(c, "async_set_result") /\ Then(c, <<>>)
      /\ asy' = [asy EXCEPT ![b].status = s, ![b].timeout = FALSE, ![b].result = s]
      /\ packets' = IF Kept(asy[b].type) THEN [packets EXCEPT ![b] = Append(@, s)] ELSE packets
  BY <1>0, Zenon DEF SetResult, Kept
<1>2. Takes(c, "async_set_result", <<>>)
  BY <1>1, EmptyPush, Taking, Zenon
<1>3. b \in Async /\ asy[b].ref > 0 /\ asy[b].result = None
  BY <1>0, <1>1, <1>2, ResultCalls, Zenon DEF Takes
<1>4. s \in Status /\ asy[b] \in AsyncType
  <2>1. Arg(c).s \in Status \cup {"pending"}
    BY <1>2, ArgTyped, Zenon DEF Takes, Core, CallType
  <2> QED BY <1>0, <1>3, <2>1, Zenon DEF Core, TypeOK
<1>5. r \in AsyncType /\ r.result = s /\ r.owed = asy[b].owed
  BY <1>4, Zenon DEF AsyncType
<1>6. asy' = [asy EXCEPT ![b] = r]
  BY <1>1, <1>3, Zenon DEF Core, TypeOK
<1> HIDE DEF r
<1>7. asy'[b].result = s /\ asy'[b].owed = asy[b].owed /\ \A a \in Async : a # b => asy'[a] = asy[a]
  BY <1>3, <1>5, <1>6, Assigned, Zenon DEF Core
<1>8. packets[b] = <<>> /\ s # None
  BY <1>3, <1>4, AsyncIoAssumption, Zenon DEF Packs
<1>9. /\ \A a \in Async : a # b => packets'[a] = packets[a]
      /\ packets'[b] = IF Kept(asy[b].type) THEN Append(packets[b], s) ELSE packets[b]
  BY <1>1, <1>3, Zenon DEF Core, TypeOK
<1>10. packets'[b] = IF Kept(asy[b].type) THEN <<s>> ELSE <<>>
  <2>1. Append(<<>>, s) = <<s>>
    OBVIOUS
  <2> QED BY <1>8, <1>9, <2>1, Zenon
<1>11. asy[b].owed => Kept(asy[b].type)
  BY <1>3, Zenon DEF Ports
<1> QED BY <1>7, <1>8, <1>9, <1>10, <1>11, Zenon DEF Packs

LEMMA PacksNext ==
  ASSUME ListFacts, Core, Smp = FALSE, Ports, Packs, [Next]_vars
  PROVE  Packs'
<1>0. ASSUME \A a \in Async : packets'[a] = packets[a] /\ asy'[a].result = asy[a].result /\
               (asy'[a].owed = asy[a].owed \/ asy'[a].result = None)
      PROVE  Packs'
  BY <1>0, Zenon DEF Packs
<1>1. ASSUME NEW c \in Ctx, Step(c) PROVE Packs'
  <2>1. CASE AsyncStep(c)
    <3>1. /\ \A a \in Async : Same(a)
          /\ \/ \A a \in Async : asy'[a].result = asy[a].result /\ packets'[a] = packets[a]
             \/ SetResult(c) /\ Arg(c).s # "pending"
      BY <2>1, SameAsyncStep, Zenon
    <3> QED BY <1>0, <3>1, PacksFinal, Zenon DEF Same
  <2>2. CASE FdStep(c)
    <3>1. UNCHANGED <<asy, packets>>
      BY <2>2, Zenon DEF FdStep, SetFdEvents, PollWake, FdPollEvent, FdPollEventEnd, PollEvent, Rearm,
         Reselect, FreeQueue, FdDestroyEnd
    <3> QED BY <1>0, <3>1, Zenon
  <2> QED BY <1>1, <2>1, <2>2, Zenon DEF Step
<1>2. CASE (\E t \in Thread : CloseFd(t)) \/ \E first \in BOOLEAN : ProcessExit(first)
  <2>1. UNCHANGED <<asy, packets>>
    BY <1>2, Zenon DEF CloseFd, ProcessExit
  <2> QED BY <1>0, <2>1, Zenon
<1>3. CASE Opens
  <2>1. \A a \in Async : packets'[a] = packets[a] /\ asy'[a].result = asy[a].result
    BY <1>3, OpensKeep, Zenon
  <2>2. \A a \in Async : asy'[a].owed = asy[a].owed \/ asy'[a].result = None
    BY <1>3, OpensKeep, Zenon DEF Same
  <2> QED BY <1>0, <2>1, <2>2, Zenon
<1>4. CASE UNCHANGED vars
  BY <1>0, <1>4, Zenon DEF vars
<1> QED BY <1>1, <1>2, <1>3, <1>4, Zenon DEF Next, ThreadRequest, Opens

-----------------------------------------------------------------------------
(* The poll entry.                                                         *)

LEMMA Carried ==
  ASSUME NEW p, StepTo(p)
  PROVE  /\ \A i \in DOMAIN p : i \in DOMAIN Todo' /\ Todo'[i] = p[i]
         /\ \A k \in DOMAIN Todo : k # 1 => \E j \in DOMAIN Todo' : Todo'[j] = Todo[k]
         /\ \A i \in DOMAIN Todo' : \/ i \in DOMAIN p /\ Todo'[i] = p[i]
                                    \/ \E k \in DOMAIN Todo : k # 1 /\ Todo'[i] = Todo[k]
         /\ 1 \in DOMAIN p => Todo' # <<>>
         /\ 1 \in DOMAIN Todo
<1>1. /\ p \in Seq(CallType) /\ Todo \in Seq(CallType) /\ Todo # <<>>
      /\ Todo' \in Seq(CallType) /\ Replaced(Todo', Todo, p)
  BY Zenon DEF StepTo
<1>2. /\ \A i \in DOMAIN p : i \in DOMAIN Todo' /\ Todo'[i] = p[i]
      /\ \A k \in DOMAIN Todo : k # 1 => \E j \in DOMAIN Todo' : Todo'[j] = Todo[k]
      /\ \A i \in DOMAIN Todo' : \/ i \in DOMAIN p /\ Todo'[i] = p[i]
                                 \/ \E k \in DOMAIN Todo : k # 1 /\ Todo'[i] = Todo[k]
  BY <1>1, ReplacedPlaces
<1>3. 1 \in DOMAIN p => Todo' # <<>>
  <2>1. DOMAIN <<>> = {}
    OBVIOUS
  <2> QED BY <1>2, <2>1, Zenon
<1>4. 1 \in DOMAIN Todo
  BY <1>1, EmptyLen
<1> QED BY <1>2, <1>3, <1>4, Zenon

\* What is still to be done stays to be done, unless the next call does it.
LEMMA CarriedCalls ==
  ASSUME NEW p, StepTo(p)
  PROVE  /\ ~HupCall(Todo[1]) /\ Hups(Todo) => Hups(Todo')
         /\ \A i \in DOMAIN p : HupCall(p[i]) => Hups(Todo')
         /\ Hups(Todo') => Full(asy', Todo')
         /\ /\ ~FullCall(Todo[1]) /\ Full(asy, Todo)
            /\ Todo[1].op = "async_terminate" => asy[Todo[1].a].status # "pending"
            => Full(asy', Todo')
         /\ \A i \in DOMAIN p : FullCall(p[i]) => Full(asy', Todo')
         /\ ~RearmCall(Todo[1]) /\ Todo[1].op # "set_fd_events" /\ Rearms(Todo) => Rearms(Todo')
         /\ \A i \in DOMAIN p : RearmCall(p[i]) => Rearms(Todo')
         /\ \A q : ~WakeCall(Todo[1], q) /\ Wakes(Todo, q) => Wakes(Todo', q)
         /\ \A q : \A i \in DOMAIN p : WakeCall(p[i], q) => Wakes(Todo', q)
<1>1. /\ \A i \in DOMAIN p : i \in DOMAIN Todo' /\ Todo'[i] = p[i]
      /\ \A k \in DOMAIN Todo : k # 1 => \E j \in DOMAIN Todo' : Todo'[j] = Todo[k]
  BY Carried, Zenon
<1>2. /\ ~HupCall(Todo[1]) /\ Hups(Todo) => Hups(Todo')
      /\ \A i \in DOMAIN p : HupCall(p[i]) => Hups(Todo')
  BY <1>1, Zenon DEF Hups
<1>3. Hups(Todo') => Full(asy', Todo')
  BY Zenon DEF Hups, Full, FullCall
<1>4. /\ /\ ~FullCall(Todo[1]) /\ Full(asy, Todo)
         /\ Todo[1].op = "async_terminate" => asy[Todo[1].a].status # "pending"
         => Full(asy', Todo')
      /\ \A i \in DOMAIN p : FullCall(p[i]) => Full(asy', Todo')
  BY <1>1, Zenon DEF Full
<1>5. /\ ~RearmCall(Todo[1]) /\ Todo[1].op # "set_fd_events" /\ Rearms(Todo) => Rearms(Todo')
      /\ \A i \in DOMAIN p : RearmCall(p[i]) => Rearms(Todo')
  BY <1>1, Zenon DEF Rearms
<1>6. ASSUME NEW q
      PROVE  /\ ~WakeCall(Todo[1], q) /\ Wakes(Todo, q) => Wakes(Todo', q)
             /\ \A i \in DOMAIN p : WakeCall(p[i], q) => Wakes(Todo', q)
  BY <1>1, Zenon DEF Wakes
<1> QED BY <1>2, <1>3, <1>4, <1>5, <1>6, Zenon

\* The order of the calls a step makes: e is what is pending after it.
Ordered(p, e) ==
  \A i \in DOMAIN p :
    /\ p[i].op = "set_fd_events" /\ p[i].ev # {"hup"} => i = 1 /\ p[i].ev = e
    /\ p[i].op = "async_wake_up" => \E j \in i + 1 .. Len(p) : p[j].op = "rearm" \/ HupCall(p[j])

LEMMA CarriedOrder ==
  ASSUME NEW p, StepTo(p), Followed(Todo), NEW e, Fresh(Todo, e), NEW f, Ordered(p, f)
  PROVE  Followed(Todo') /\ Fresh(Todo', f)
<1>1. \A i \in DOMAIN Todo' : \/ i \in DOMAIN p /\ Todo'[i] = p[i]
                              \/ \E k \in DOMAIN Todo : k # 1 /\ Todo'[i] = Todo[k]
  BY Carried, Zenon
<1>2. Fresh(Todo', f)
  BY <1>1, Zenon DEF Fresh, Ordered
<1>3. ASSUME NEW i \in DOMAIN Todo', Todo'[i].op = "async_wake_up"
      PROVE  \E j \in i + 1 .. Len(Todo') : Todo'[j].op = "rearm" \/ HupCall(Todo'[j])
  <2> DEFINE n == Len(p)
  <2>1. /\ \A k \in DOMAIN p : k \in DOMAIN Todo' /\ Todo'[k] = p[k]
        /\ \A k \in DOMAIN Todo : k # 1 => k - 1 + n \in DOMAIN Todo' /\ Todo'[k - 1 + n] = Todo[k]
        /\ \A k \in DOMAIN Todo' : k \notin DOMAIN p =>
             k - n + 1 \in DOMAIN Todo /\ k - n + 1 # 1 /\ Todo'[k] = Todo[k - n + 1]
    BY ReplacedPlaces DEF StepTo
  <2>2. /\ DOMAIN p = 1 .. n /\ n \in Nat /\ DOMAIN Todo = 1 .. Len(Todo) /\ Len(Todo) \in Nat
        /\ DOMAIN Todo' = 1 .. Len(Todo') /\ Len(Todo') \in Nat
    BY DEF StepTo
  <2> HIDE DEF n
  <2>3. CASE i \in DOMAIN p
    <3>1. PICK j \in i + 1 .. n : p[j].op = "rearm" \/ HupCall(p[j])
      BY <1>3, <2>1, <2>3, Zenon DEF Ordered, n
    <3>2. j \in DOMAIN p
      BY <2>2, <2>3, <3>1
    <3>3. j \in DOMAIN Todo' /\ Todo'[j] = p[j]
      BY <2>1, <3>2, Zenon
    <3>4. j \in i + 1 .. Len(Todo')
      BY <2>2, <3>1, <3>3
    <3> QED BY <3>1, <3>3, <3>4, Zenon
  <2>4. CASE i \notin DOMAIN p
    <3> DEFINE k == i - n + 1
    <3>1. k \in DOMAIN Todo /\ k # 1 /\ Todo[k].op = "async_wake_up"
      BY <1>3, <2>1, <2>4, Zenon
    <3>2. PICK j \in k + 1 .. Len(Todo) : Todo[j].op = "rearm" \/ HupCall(Todo[j])
      BY <3>1, Zenon DEF Followed
    <3>3. j \in DOMAIN Todo /\ j # 1
      BY <2>2, <3>1, <3>2
    <3>4. j - 1 + n \in DOMAIN Todo' /\ Todo'[j - 1 + n] = Todo[j]
      BY <2>1, <3>3, Zenon
    <3>5. j - 1 + n \in i + 1 .. Len(Todo')
      BY <2>2, <3>2, <3>4
    <3> QED BY <3>2, <3>4, <3>5, Zenon
  <2> QED BY <2>3, <2>4, Zenon
<1> QED BY <1>2, <1>3, Zenon DEF Followed

\* The entry itself stays as it is.
SameEntry == fd'.open = fd.open /\ fd'.state = fd.state /\ fd'.events = fd.events /\ fd'.key = fd.key

\* A call that has nothing to do with the poll entry.
Aside(x) ==
  /\ ~FullCall(x) /\ ~RearmCall(x) /\ (\A q \in Queue : ~WakeCall(x, q))
  /\ x.op # "set_fd_events"
  /\ x.op = "async_terminate" => asy[x.a].status # "pending"

LEMMA PollsQuiet ==
  ASSUME Polls, SameEntry, NEW p, StepTo(p), Aside(Todo[1]), Ordered(p, PollEvents'),
         ready' = ready, PollEvents' \subseteq PollEvents,
         "hup" \in fd'.pending => "hup" \in fd.pending
  PROVE  Polls'
<1> SUFFICES ASSUME fd.open
             PROVE  /\ Armed(fd', ready', asy', PollEvents', Todo')
                    /\ "hup" \in fd'.pending => fd'.state = "removed" \/ Hups(Todo')
                    /\ Followed(Todo') /\ Fresh(Todo', PollEvents')
  BY Zenon DEF Polls, SameEntry
<1>1. /\ Armed(fd, ready, asy, PollEvents, Todo) /\ Followed(Todo) /\ Fresh(Todo, PollEvents)
      /\ "hup" \in fd.pending => fd.state = "removed" \/ Hups(Todo)
  BY Zenon DEF Polls
<1>2. Followed(Todo') /\ Fresh(Todo', PollEvents')
  BY <1>1, CarriedOrder, Zenon
<1>3. /\ Hups(Todo) => Hups(Todo')
      /\ Full(asy, Todo) => Full(asy', Todo')
      /\ Rearms(Todo) => Rearms(Todo')
      /\ \A q \in Queue : Wakes(Todo, q) => Wakes(Todo', q)
  <2>1. ~HupCall(Todo[1])
    BY Zenon DEF Aside, FullCall
  <2> QED BY <2>1, CarriedCalls, Zenon DEF Aside
<1>4. Armed(fd', ready', asy', PollEvents', Todo')
  BY <1>1, <1>3, Zenon DEF Armed, SameEntry
<1> QED BY <1>1, <1>2, <1>3, <1>4, Zenon DEF SameEntry

\* After the step the whole entry is still to be looked at.
LEMMA PollsFull ==
  ASSUME Polls, SameEntry, NEW p, StepTo(p), Ordered(p, PollEvents'), Full(asy', Todo'),
         "hup" \in fd'.pending /\ fd'.open /\ fd'.state # "removed" => Hups(Todo')
  PROVE  Polls'
<1> SUFFICES ASSUME fd.open
             PROVE  /\ Armed(fd', ready', asy', PollEvents', Todo')
                    /\ "hup" \in fd'.pending => fd'.state = "removed" \/ Hups(Todo')
                    /\ Followed(Todo') /\ Fresh(Todo', PollEvents')
  BY Zenon DEF Polls, SameEntry
<1>1. Armed(fd, ready, asy, PollEvents, Todo) /\ Followed(Todo) /\ Fresh(Todo, PollEvents)
  BY Zenon DEF Polls
<1>2. Followed(Todo') /\ Fresh(Todo', PollEvents')
  BY <1>1, CarriedOrder, Zenon
<1>3. Armed(fd', ready', asy', PollEvents', Todo')
  BY <1>1, Zenon DEF Armed, SameEntry
<1> QED BY <1>2, <1>3, Zenon DEF SameEntry

\* What is pending, when the queues stay as they are.
LEMMA EventsShrink ==
  ASSUME TypeOK, queue' = queue,
         \A a \in Async : asy'[a].status = "pending" => asy[a].status = "pending"
  PROVE  PollEvents' \subseteq PollEvents
<1>1. ASSUME NEW q \in Queue, queue[q] # <<>> PROVE Head(queue[q]) \in Async
  BY <1>1 DEF TypeOK
<1> QED BY <1>1, Zenon DEF PollEvents

LEMMA EventsSame ==
  ASSUME UNCHANGED <<queue, asy>>
  PROVE  PollEvents' = PollEvents
BY Zenon DEF PollEvents

\* Lists of one call.
LEMMA OneOrdered ==
  ASSUME NEW x, NEW e, x.op # "async_wake_up",
         x.op = "set_fd_events" /\ x.ev # {"hup"} => x.ev = e
  PROVE  Ordered(<<x>>, e) /\ Ordered(<<>>, e)
<1>1. DOMAIN <<x>> = {1} /\ <<x>>[1] = x /\ DOMAIN <<>> = {}
  OBVIOUS
<1> QED BY <1>1, Zenon DEF Ordered

\* A list without calls on the poll entry.
LEMMA PlainOrdered ==
  ASSUME NEW p, \A i \in DOMAIN p : p[i].op \notin {"set_fd_events", "async_wake_up"}
  PROVE  \A e : Ordered(p, e)
BY Zenon DEF Ordered

LEMMA HeadAside ==
  ASSUME NEW x, x.op \in {"async_queue_apc", "clear_apc", "set_timeout", "release", "free",
                          "async_set_result", "dequeue_apc", "async_wake_up_by", "polled"}
  PROVE  Aside(x)
BY Zenon DEF Aside, FullCall, HupCall, RearmCall, WakeCall

\* A step of context c that puts the call x in the place of the next one.
LEMMA OneCall ==
  ASSUME Core, NEW c \in Ctx, NEW op, Now(c, op), NEW x \in CallType, Then(c, <<x>>)
  PROVE  /\ StepTo(<<x>>) /\ Todo[1] = Arg(c) /\ Todo[1].op = op
         /\ 1 \in DOMAIN <<x>> /\ <<x>>[1] = x /\ Todo'[1] = x /\ Todo' # <<>>
<1>1. <<x>> \in Seq(CallType) /\ DOMAIN <<x>> = {1} /\ <<x>>[1] = x
  <2> HIDE DEF CallType
  <2> QED OBVIOUS
<1>2. Takes(c, op, <<x>>)
  BY <1>1, Taking, Zenon
<1>3. StepTo(<<x>>)
  BY <1>2, Zenon DEF Takes
<1> QED BY <1>1, <1>2, <1>3, Carried DEF Takes

LEMMA NoCall ==
  ASSUME Core, NEW c \in Ctx, NEW op, Now(c, op), Then(c, <<>>)
  PROVE  StepTo(<<>>) /\ Todo[1] = Arg(c) /\ Todo[1].op = op /\ \A e : Ordered(<<>>, e)
<1>1. Takes(c, op, <<>>)
  BY EmptyPush, Taking, Zenon
<1> QED BY <1>1, EmptyPush, Zenon DEF Takes, Ordered

LEMMA PollsSetFdEvents ==
  ASSUME Core, Polls, NEW c \in Ctx, SetFdEvents(c)
  PROVE  Polls'
<1>0. PICK ev, mask, arms :
        /\ ev = Arg(c).ev /\ mask = FilePoll \cap (ev \cup {"hup"})
        /\ arms = (fd.state # "removed" /\ (fd.state = "uninit" \/ fd.events # ev))
  BY Zenon
<1>1. /\ Now(c, "set_fd_events") /\ UNCHANGED <<asy, queue, ready>>
      /\ ev = {"hup"} => /\ fd' = [fd EXCEPT !.state = "removed", !.events = {"err"}, !.key = {}]
                         /\ Then(c, <<>>)
      /\ ev # {"hup"} => /\ fd' = IF arms
                                  THEN [fd EXCEPT !.state = "added", !.events = ev, !.key = ev \cup {"hup"}]
                                  ELSE fd
                         /\ Then(c, IF arms /\ mask \cap ev # {}
                                    THEN <<FdCall("fd_poll_event", mask)>> ELSE <<>>)
  BY <1>0, Zenon DEF SetFdEvents, qVars, fileVars
<1>2. PollEvents' = PollEvents /\ fd \in FdType
  BY <1>1, EventsSame, Zenon DEF Core, TypeOK
<1>3. Todo[1] = Arg(c) /\ Todo[1].op = "set_fd_events" /\ 1 \in DOMAIN Todo /\ Todo[1].ev = ev
  BY <1>0, <1>1, HeadFine, Zenon DEF Now, Arg
<1> SUFFICES ASSUME fd'.open
             PROVE  /\ Armed(fd', ready', asy', PollEvents', Todo')
                    /\ "hup" \in fd'.pending => fd'.state = "removed" \/ Hups(Todo')
                    /\ Followed(Todo') /\ Fresh(Todo', PollEvents')
  BY Zenon DEF Polls
<1>4. fd.open /\ fd'.pending = fd.pending
  BY <1>1, <1>2, Zenon DEF FdType
<1>5. /\ Armed(fd, ready, asy, PollEvents, Todo) /\ Followed(Todo) /\ Fresh(Todo, PollEvents)
      /\ "hup" \in fd.pending => fd.state = "removed" \/ Hups(Todo)
  BY <1>4, Zenon DEF Polls
<1>6. CASE ev = {"hup"}
  <2>1. fd'.state = "removed"
    BY <1>1, <1>2, <1>6, Zenon DEF FdType
  <2>2. StepTo(<<>>) /\ \A e : Ordered(<<>>, e)
    BY <1>1, <1>6, NoCall, Zenon
  <2>3. Followed(Todo') /\ Fresh(Todo', PollEvents')
    BY <1>5, <2>2, CarriedOrder, Zenon
  <2> QED BY <2>1, <2>3, Zenon DEF Armed
<1>7. CASE ev # {"hup"}
  <2>1. ev = PollEvents
    BY <1>3, <1>5, <1>7, Zenon DEF Fresh
  <2>2. /\ ~HupCall(Todo[1]) /\ ~FullCall(Todo[1]) /\ ~RearmCall(Todo[1])
        /\ \A q : ~WakeCall(Todo[1], q)
    BY <1>3, <1>7, Zenon DEF HupCall, FullCall, RearmCall, WakeCall
  <2>3. PICK p : p = IF arms /\ mask \cap ev # {} THEN <<FdCall("fd_poll_event", mask)>> ELSE <<>>
    BY Zenon
  <2>4. mask \in SUBSET Event /\ FdCall("fd_poll_event", mask) \in CallType
    <3>1. mask \in SUBSET Event
      BY <1>0, FileTyped, Zenon DEF Event, Core
    <3>2. "fd_poll_event" \in Ops
      BY Zenon DEF Ops
    <3> QED BY <3>1, <3>2, CallTyped, Zenon
  <2>5. StepTo(p) /\ Ordered(p, PollEvents')
    <3>1. CASE arms /\ mask \cap ev # {}
      <4>1. FdCall("fd_poll_event", mask).op = "fd_poll_event"
        BY CallParts, Zenon
      <4>2. Then(c, <<FdCall("fd_poll_event", mask)>>) /\ p = <<FdCall("fd_poll_event", mask)>>
        BY <1>1, <1>7, <2>3, <3>1, Zenon
      <4>3. StepTo(<<FdCall("fd_poll_event", mask)>>)
        BY <1>1, <2>4, <4>2, OneCall, Zenon
      <4> QED BY <4>1, <4>2, <4>3, OneOrdered, Zenon
    <3>2. CASE ~(arms /\ mask \cap ev # {})
      <4>1. Then(c, <<>>) /\ p = <<>>
        BY <1>1, <1>7, <2>3, <3>2, Zenon
      <4> QED BY <1>1, <4>1, NoCall, Zenon
    <3> QED BY <3>1, <3>2, Zenon
  <2>6. /\ Hups(Todo) => Hups(Todo') /\ Full(asy', Todo')
        /\ Full(asy, Todo) => Full(asy', Todo')
        /\ \A q \in Queue : Wakes(Todo, q) => Wakes(Todo', q)
    BY <1>3, <2>2, <2>5, CarriedCalls, Zenon
  <2>7. Followed(Todo') /\ Fresh(Todo', PollEvents')
    BY <1>5, <2>5, CarriedOrder, Zenon
  <2>8. CASE ~arms
    <3>1. fd' = fd
      BY <1>1, <1>7, <2>8, Zenon
    <3>2. fd.state = "added" => fd.events = PollEvents
      BY <1>0, <2>1, <2>8, Zenon
    <3>3. Armed(fd', ready', asy', PollEvents', Todo')
      BY <1>1, <1>2, <1>5, <2>6, <3>1, <3>2 DEF Armed
    <3> QED BY <1>5, <2>6, <2>7, <3>1, <3>3, Zenon
  <2>9. CASE arms
    <3>1. fd'.state = "added" /\ fd'.events = ev /\ fd'.key = ev \cup {"hup"}
      BY <1>1, <1>2, <1>7, <2>9, Zenon DEF FdType
    <3>2. ASSUME NEW q \in Queue, q \in ev, q \in ready PROVE Wakes(Todo', q)
      <4>1. q \in mask
        BY <1>0, <3>2, Zenon DEF FilePoll
      <4>2. p = <<FdCall("fd_poll_event", mask)>>
        BY <2>3, <2>9, <3>2, <4>1, Zenon
      <4> DEFINE x == FdCall("fd_poll_event", mask)
      <4>3. x.op = "fd_poll_event" /\ x.ev = mask
        BY CallParts
      <4> HIDE DEF x
      <4>4. 1 \in DOMAIN <<x>> /\ <<x>>[1] = x
        OBVIOUS
      <4>5. WakeCall(x, q)
        BY <4>1, <4>3, Zenon DEF WakeCall
      <4>6. 1 \in DOMAIN p /\ WakeCall(p[1], q)
        BY <4>2, <4>4, <4>5, Zenon DEF x
      <4> QED BY <2>5, <4>6, CarriedCalls, Zenon
    <3>3. Armed(fd', ready', asy', PollEvents', Todo')
      BY <1>1, <1>2, <2>1, <3>1, <3>2, Zenon DEF Armed
    <3>4. fd.state # "removed"
      BY <1>0, <2>9, Zenon
    <3> QED BY <1>4, <1>5, <2>6, <2>7, <3>3, <3>4
  <2> QED BY <1>0, <2>8, <2>9, Zenon
<1> QED BY <1>6, <1>7, Zenon

\* What is pending and what is there stay the same, and nothing that is still
\* to be done is forgotten.
LEMMA PollsKept ==
  ASSUME Polls, SameEntry, NEW p, StepTo(p), Ordered(p, PollEvents'), ready' = ready,
         PollEvents' = PollEvents,
         fd.open /\ fd.state = "added" =>
           \/ Full(asy', Todo')
           \/ /\ ~Full(asy, Todo) /\ (Rearms(Todo) => Rearms(Todo'))
              /\ \A q \in Queue : q \in ready /\ Wakes(Todo, q) =>
                   Wakes(Todo', q) \/ (q \notin PollEvents /\ Rearms(Todo'))
           \/ /\ Rearms(Todo')
              /\ \A q \in Queue : q \in ready => Wakes(Todo', q) \/ q \notin PollEvents,
         "hup" \in fd'.pending /\ fd'.open /\ fd'.state # "removed" => Hups(Todo')
  PROVE  Polls'
<1> SUFFICES ASSUME fd.open
             PROVE  /\ Armed(fd', ready', asy', PollEvents', Todo')
                    /\ "hup" \in fd'.pending => fd'.state = "removed" \/ Hups(Todo')
                    /\ Followed(Todo') /\ Fresh(Todo', PollEvents')
  BY Zenon DEF Polls, SameEntry
<1>1. Armed(fd, ready, asy, PollEvents, Todo) /\ Followed(Todo) /\ Fresh(Todo, PollEvents)
  BY Zenon DEF Polls
<1>2. Followed(Todo') /\ Fresh(Todo', PollEvents')
  BY <1>1, CarriedOrder, Zenon
<1>3. Armed(fd', ready', asy', PollEvents', Todo')
  BY <1>1, Zenon DEF Armed, SameEntry
<1> QED BY <1>2, <1>3, Zenon DEF SameEntry

LEMMA OneFd ==
  ASSUME Core, NEW c \in Ctx, NEW op, Now(c, op), NEW o \in Ops, NEW ev \in SUBSET Event,
         Then(c, <<FdCall(o, ev)>>)
  PROVE  \E p, x : /\ StepTo(p) /\ p = <<x>> /\ x.op = o /\ x.ev = ev /\ 1 \in DOMAIN p /\ p[1] = x
                   /\ DOMAIN p = {1} /\ Todo'[1] = x /\ Todo' # <<>>
                   /\ Todo[1] = Arg(c) /\ Todo[1].op = op
<1> DEFINE x == FdCall(o, ev)
<1>1. x \in CallType /\ x.op = o /\ x.ev = ev
  BY CallTyped, CallParts
<1>2. Then(c, <<x>>)
  BY Zenon
<1> HIDE DEF x
<1>3. DOMAIN <<x>> = {1}
  OBVIOUS
<1> QED BY <1>1, <1>2, <1>3, OneCall, Zenon

LEMMA PollsPollWake ==
  ASSUME Core, Polls, NEW c \in Ctx, PollWake(c)
  PROVE  Polls'
<1>0. PICK mask : mask = FilePoll \cap Arg(c).ev
  BY Zenon
<1>1. /\ Now(c, "pollwake") /\ UNCHANGED <<asy, queue, ready, fd>>
      /\ Then(c, IF mask # {} THEN <<FdCall("fd_poll_event", mask)>> ELSE <<>>)
  BY <1>0, Zenon DEF PollWake, qVars, fileVars
<1>2. PollEvents' = PollEvents /\ SameEntry
  BY <1>1, EventsSame, Zenon DEF SameEntry
<1>3. PICK p : /\ StepTo(p) /\ Todo[1] = Arg(c) /\ Todo[1].op = "pollwake" /\ Ordered(p, PollEvents')
               /\ mask # {} => 1 \in DOMAIN p /\ p[1].op = "fd_poll_event" /\ p[1].ev = mask
  <2>1. mask \in SUBSET Event /\ "fd_poll_event" \in Ops
    BY <1>0, FileTyped, Zenon DEF Core, Ops
  <2>2. CASE mask # {}
    <3>1. Then(c, <<FdCall("fd_poll_event", mask)>>)
      BY <1>1, <2>2, Zenon
    <3>2. PICK p, x : /\ StepTo(p) /\ p = <<x>> /\ x.op = "fd_poll_event" /\ x.ev = mask /\ 1 \in DOMAIN p
                      /\ p[1] = x /\ Todo[1] = Arg(c) /\ Todo[1].op = "pollwake"
      BY <1>1, <2>1, <3>1, OneFd
    <3>3. Ordered(p, PollEvents')
      BY <3>2, OneOrdered, Zenon
    <3> QED BY <3>2, <3>3, Zenon
  <2>3. CASE mask = {}
    BY <1>1, <2>3, NoCall, Zenon
  <2> QED BY <2>2, <2>3, Zenon
<1>4. ~HupCall(Todo[1]) /\ ~FullCall(Todo[1]) /\ ~RearmCall(Todo[1])
  BY <1>3, Zenon DEF HupCall, FullCall, RearmCall
<1>5. /\ Hups(Todo) => Hups(Todo')
      /\ Full(asy, Todo) => Full(asy', Todo')
      /\ Rearms(Todo) => Rearms(Todo')
  BY <1>3, <1>4, CarriedCalls, Zenon
<1>6. ASSUME NEW q \in Queue, q \in ready, Wakes(Todo, q) PROVE Wakes(Todo', q)
  <2>1. CASE ~WakeCall(Todo[1], q)
    BY <1>3, <1>6, <2>1, CarriedCalls, Zenon
  <2>2. CASE WakeCall(Todo[1], q)
    <3>1. q \in mask
      BY <1>0, <1>3, <1>6, <2>2, Zenon DEF WakeCall, FilePoll
    <3>2. 1 \in DOMAIN p /\ WakeCall(p[1], q)
      BY <1>3, <3>1, Zenon DEF WakeCall
    <3> QED BY <1>3, <3>2, CarriedCalls, Zenon
  <2> QED BY <2>1, <2>2, Zenon
<1>7. "hup" \in fd'.pending /\ fd'.open /\ fd'.state # "removed" => Hups(Todo')
  BY <1>1, <1>5, Zenon DEF Polls
<1> QED BY <1>1, <1>2, <1>3, <1>5, <1>6, <1>7, PollsKept, Zenon

LEMMA TwoFd ==
  ASSUME Core, NEW c \in Ctx, NEW op, Now(c, op), NEW ev \in SUBSET Event,
         Then(c, <<FdCall("poll_event", ev), FdCall("polled", {})>>)
  PROVE  \E p : /\ StepTo(p) /\ 1 \in DOMAIN p /\ p[1].op = "poll_event" /\ p[1].ev = ev
                /\ \A e : Ordered(p, e)
                /\ Todo[1] = Arg(c) /\ Todo[1].op = op
<1> DEFINE x == FdCall("poll_event", ev)
           y == FdCall("polled", {})
<1>1. x \in CallType /\ x.op = "poll_event" /\ x.ev = ev /\ y \in CallType /\ y.op = "polled"
  BY CallTyped, CallParts DEF Ops
<1>2. Then(c, <<x, y>>)
  BY Zenon
<1> HIDE DEF x, y
<1>3. /\ <<x, y>> \in Seq(CallType) /\ DOMAIN <<x, y>> = {1, 2} /\ <<x, y>>[1] = x /\ <<x, y>>[2] = y
  BY <1>1
<1>4. \A e : Ordered(<<x, y>>, e)
  BY <1>1, <1>3, Zenon DEF Ordered
<1>5. Takes(c, op, <<x, y>>)
  BY <1>2, <1>3, Taking, Zenon
<1> QED BY <1>1, <1>3, <1>4, <1>5, Zenon DEF Takes

LEMMA PollsFdPollEvent ==
  ASSUME Core, Polls, NEW c \in Ctx, FdPollEvent(c)
  PROVE  Polls'
<1>0. PICK ev : ev = Arg(c).ev
  BY Zenon
<1>1. /\ Now(c, "fd_poll_event") /\ UNCHANGED <<asy, queue, ready>>
      /\ \/ fd.pending = ev /\ "hup" \in ev /\ Then(c, <<>>) /\ fd' = fd
         \/ /\ fd' = [fd EXCEPT !.pending = ev]
            /\ Then(c, <<FdCall("poll_event", ev), FdCall("polled", {})>>)
  BY <1>0, Zenon DEF FdPollEvent, qVars, fileVars
<1>2. PollEvents' = PollEvents /\ fd \in FdType
  BY <1>1, EventsSame, Zenon DEF Core, TypeOK
<1>3. ASSUME Todo[1].op = "fd_poll_event", NEW p, StepTo(p)
      PROVE  /\ Hups(Todo) => Hups(Todo') /\ Full(asy', Todo')
             /\ Full(asy, Todo) => Full(asy', Todo')
             /\ Rearms(Todo) => Rearms(Todo')
             /\ \A q \in Queue : ~WakeCall(Todo[1], q) /\ Wakes(Todo, q) => Wakes(Todo', q)
  <2>1. ~HupCall(Todo[1]) /\ ~FullCall(Todo[1]) /\ ~RearmCall(Todo[1])
    BY <1>3, Zenon DEF HupCall, FullCall, RearmCall
  <2> QED BY <1>3, <2>1, CarriedCalls, Zenon
<1>4. CASE fd.pending = ev /\ "hup" \in ev /\ Then(c, <<>>) /\ fd' = fd
  <2>1. StepTo(<<>>) /\ Todo[1].op = "fd_poll_event" /\ \A e : Ordered(<<>>, e)
    BY <1>1, <1>4, NoCall, Zenon
  <2>2. fd.open => fd.state = "removed" \/ Hups(Todo)
    BY <1>4, Zenon DEF Polls
  <2>3. SameEntry
    BY <1>4, Zenon DEF SameEntry
  <2> QED BY <1>1, <1>2, <1>3, <1>4, <2>1, <2>2, <2>3, PollsKept
<1>5. CASE /\ fd' = [fd EXCEPT !.pending = ev]
           /\ Then(c, <<FdCall("poll_event", ev), FdCall("polled", {})>>)
  <2>0. ev \in SUBSET Event
    BY <1>0, <1>1, ArgTyped, Zenon DEF Now, Core
  <2>1. PICK p : /\ StepTo(p) /\ 1 \in DOMAIN p /\ p[1].op = "poll_event" /\ p[1].ev = ev
                 /\ \A e : Ordered(p, e)
                 /\ Todo[1] = Arg(c) /\ Todo[1].op = "fd_poll_event"
    BY <1>1, <1>5, <2>0, TwoFd, Zenon
  <2>2. SameEntry /\ fd'.pending = ev
    BY <1>2, <1>5, Zenon DEF SameEntry, FdType
  <2>3. \A q \in Queue : WakeCall(Todo[1], q) => WakeCall(p[1], q)
    BY <1>0, <2>1, Zenon DEF WakeCall
  <2>4. \A q \in Queue : Wakes(Todo, q) => Wakes(Todo', q)
    BY <1>3, <2>1, <2>3, CarriedCalls, Zenon
  <2>5. "hup" \in ev => HupCall(p[1])
    BY <2>1, Zenon DEF HupCall
  <2>6. "hup" \in fd'.pending => Hups(Todo')
    BY <2>1, <2>2, <2>5, CarriedCalls, Zenon
  <2> QED BY <1>1, <1>2, <1>3, <2>1, <2>2, <2>4, <2>6, PollsKept
<1> QED BY <1>1, <1>4, <1>5, Zenon

\* Concatenation, opaque.
Join(v, w) == v \o w
One(z) == <<z>>

LEMMA JoinAt ==
  ASSUME NEW v \in Seq(CallType), NEW w \in Seq(CallType)
  PROVE  /\ Join(v, w) \in Seq(CallType) /\ Len(Join(v, w)) = Len(v) + Len(w)
         /\ \A k \in DOMAIN Join(v, w) :
              \/ k \in DOMAIN v /\ Join(v, w)[k] = v[k]
              \/ k - Len(v) \in DOMAIN w /\ Join(v, w)[k] = w[k - Len(v)]
         /\ \A i \in DOMAIN v : i \in DOMAIN Join(v, w) /\ Join(v, w)[i] = v[i]
         /\ \A i \in DOMAIN w : Len(v) + i \in DOMAIN Join(v, w) /\ Join(v, w)[Len(v) + i] = w[i]
<1>1. v \o w \in Seq(CallType) /\ Len(v \o w) = Len(v) + Len(w)
  BY ConcatAt, Zenon
<1> QED BY <1>1, ConcatPlaces DEF Join

LEMMA OneAt ==
  ASSUME NEW z \in CallType
  PROVE  One(z) \in Seq(CallType) /\ DOMAIN One(z) = {1} /\ One(z)[1] = z /\ Len(One(z)) = 1
<1> HIDE DEF CallType
<1> QED BY DEF One

\* The calls of default_poll_event.
LEMMA PollCalls ==
  ASSUME NEW u \in Seq(CallType), NEW v \in Seq(CallType), NEW z \in CallType,
         \A i \in DOMAIN u : u[i].op = "async_wake_up", \A i \in DOMAIN v : v[i].op = "async_wake_up",
         z.op = "rearm" \/ HupCall(z), NEW p, p = Join(Join(u, v), One(z))
  PROVE  /\ p \in Seq(CallType) /\ (\A e : Ordered(p, e))
         /\ \E i \in DOMAIN p : p[i] = z
         /\ \A i \in DOMAIN u : \E j \in DOMAIN p : p[j] = u[i]
         /\ \A i \in DOMAIN v : \E j \in DOMAIN p : p[j] = v[i]
<1>1. PICK y : y = One(z) /\ y \in Seq(CallType) /\ DOMAIN y = {1} /\ y[1] = z /\ Len(y) = 1
  BY OneAt, Zenon
<1>2. PICK w : w = Join(u, v)
  BY Zenon
<1>3. /\ w \in Seq(CallType)
      /\ \A k \in DOMAIN w : \/ k \in DOMAIN u /\ w[k] = u[k]
                             \/ k - Len(u) \in DOMAIN v /\ w[k] = v[k - Len(u)]
      /\ \A i \in DOMAIN u : i \in DOMAIN w /\ w[i] = u[i]
      /\ \A i \in DOMAIN v : Len(u) + i \in DOMAIN w /\ w[Len(u) + i] = v[i]
  BY <1>2, JoinAt, Zenon
<1>4. \A k \in DOMAIN w : w[k].op = "async_wake_up"
  BY <1>3
<1>6. p = Join(w, y)
  BY <1>1, <1>2, Zenon
<1>7. /\ p \in Seq(CallType) /\ Len(p) = Len(w) + 1
      /\ \A k \in DOMAIN p : \/ k \in DOMAIN w /\ p[k] = w[k]
                             \/ k - Len(w) \in {1} /\ p[k] = z
      /\ \A i \in DOMAIN w : i \in DOMAIN p /\ p[i] = w[i]
      /\ Len(w) + 1 \in DOMAIN p /\ p[Len(w) + 1] = z
  <2>1. /\ p \in Seq(CallType) /\ Len(p) = Len(w) + Len(y)
        /\ \A k \in DOMAIN p : \/ k \in DOMAIN w /\ p[k] = w[k]
                               \/ k - Len(w) \in DOMAIN y /\ p[k] = y[k - Len(w)]
        /\ \A i \in DOMAIN w : i \in DOMAIN p /\ p[i] = w[i]
        /\ \A i \in DOMAIN y : Len(w) + i \in DOMAIN p /\ p[Len(w) + i] = y[i]
    <3>1. w \in Seq(CallType) /\ y \in Seq(CallType)
      BY <1>1, <1>3, Zenon
    <3>2. p \in Seq(CallType) /\ Len(p) = Len(w) + Len(y)
      BY <1>6, <3>1, JoinAt, Zenon
    <3>3. \A i \in DOMAIN w : i \in DOMAIN p /\ p[i] = w[i]
      BY <1>6, <3>1, JoinAt
    <3>4. \A i \in DOMAIN y : Len(w) + i \in DOMAIN p /\ p[Len(w) + i] = y[i]
      BY <1>6, <3>1, JoinAt
    <3>5. ASSUME NEW k \in DOMAIN p, k \notin DOMAIN w PROVE k - Len(w) = 1 /\ k = Len(w) + 1
      <4>1. DOMAIN p = 1 .. Len(p) /\ DOMAIN w = 1 .. Len(w) /\ Len(w) \in Nat /\ Len(p) = Len(w) + 1
        BY <1>1, <3>1, <3>2
      <4> QED BY <3>5, <4>1
    <3> QED BY <1>1, <3>2, <3>3, <3>4, <3>5, Zenon
  <2> QED BY <1>1, <2>1, Zenon
<1>8. ASSUME NEW k \in DOMAIN p, p[k].op = "async_wake_up"
      PROVE  \E j \in k + 1 .. Len(p) : p[j].op = "rearm" \/ HupCall(p[j])
  <2>1. DOMAIN w = 1 .. Len(w) /\ Len(w) \in Nat
    BY <1>3
  <2>2. z.op # "async_wake_up"
    BY Zenon DEF HupCall
  <2>3. k \in DOMAIN w
    BY <1>7, <1>8, <2>2, Zenon
  <2>4. Len(w) + 1 \in k + 1 .. Len(p)
    BY <1>7, <2>1, <2>3
  <2> QED BY <1>7, <2>4, Zenon
<1>9. \A k \in DOMAIN p : p[k].op = "set_fd_events" => p[k].ev = {"hup"}
  BY <1>4, <1>7, Zenon DEF HupCall
<1>10. \A e : Ordered(p, e)
  BY <1>8, <1>9, Zenon DEF Ordered
<1> QED BY <1>3, <1>7, <1>10

LEMMA PollsPollEvent ==
  ASSUME Core, Polls, NEW c \in Ctx, PollEvent(c)
  PROVE  Polls'
<1>0. PICK ev : ev = Arg(c).ev
  OBVIOUS
<1> DEFINE wake(q) == IF ev \cap {q, "hup"} # {}
                      THEN <<QueueCall("async_wake_up", q, "alerted")>> ELSE <<>>
<1>1. PICK u, v, z : /\ u = wake("read") /\ v = wake("write")
                     /\ z = IF "hup" \in ev THEN FdCall("set_fd_events", {"hup"}) ELSE FdCall("rearm", {})
  BY Zenon
<1>2. PICK p : p = Join(Join(u, v), One(z))
  BY Zenon
<1>3. Now(c, "poll_event") /\ Then(c, p) /\ UNCHANGED <<asy, queue, ready, fd>>
  <2>1. IF "hup" \in ev THEN <<z>> = <<FdCall("set_fd_events", {"hup"})>> ELSE <<z>> = <<FdCall("rearm", {})>>
    BY <1>1, Zenon
  <2> QED BY <1>0, <1>1, <1>2, <2>1, Zenon DEF PollEvent, Join, One, qVars, fileVars
<1>4. PollEvents' = PollEvents /\ SameEntry
  BY <1>3, EventsSame, Zenon DEF SameEntry
<1>5. ASSUME NEW q \in Queue
      PROVE  /\ wake(q) \in Seq(CallType)
             /\ \A i \in DOMAIN wake(q) : wake(q)[i].op = "async_wake_up"
             /\ ev \cap {q, "hup"} # {} => \E i \in DOMAIN wake(q) : WakeCall(wake(q)[i], q)
  <2> DEFINE x == QueueCall("async_wake_up", q, "alerted")
  <2>1. x \in CallType /\ x.op = "async_wake_up" /\ x.q = q
    BY CallTyped, CallParts DEF Ops, Status
  <2>2. wake(q) = IF ev \cap {q, "hup"} # {} THEN <<x>> ELSE <<>>
    BY Zenon
  <2> HIDE DEF x, wake
  <2>3. WakeCall(x, q)
    BY <2>1, Zenon DEF WakeCall
  <2>4. <<x>> \in Seq(CallType) /\ DOMAIN <<x>> = {1} /\ <<x>>[1] = x
    <3> HIDE DEF CallType
    <3> QED BY <2>1
  <2> QED BY <2>1, <2>2, <2>3, <2>4, EmptyPush, Zenon
<1>6. /\ z \in CallType /\ "hup" \in ev => HupCall(z)
      /\ "hup" \notin ev => z.op = "rearm"
  <2>1. {"hup"} \in SUBSET Event /\ {} \in SUBSET Event /\ "set_fd_events" \in Ops /\ "rearm" \in Ops
    BY Zenon DEF Event, Ops
  <2> QED BY <1>1, <2>1, CallTyped, CallParts DEF HupCall
<1> HIDE DEF wake
<1>7. "read" \in Queue /\ "write" \in Queue /\ Queue = {"read", "write"}
  BY Zenon DEF Queue
<1>8. /\ u \in Seq(CallType) /\ v \in Seq(CallType)
      /\ \A i \in DOMAIN u : u[i].op = "async_wake_up"
      /\ \A i \in DOMAIN v : v[i].op = "async_wake_up"
  BY <1>1, <1>5, <1>7, Zenon
<1>9. z \in CallType /\ (z.op = "rearm" \/ HupCall(z))
  BY <1>1, <1>6, CallTyped, Zenon DEF Ops, Event
<1>10. /\ p \in Seq(CallType) /\ \A e : Ordered(p, e)
       /\ \E i \in DOMAIN p : p[i] = z
       /\ \A i \in DOMAIN u : \E j \in DOMAIN p : p[j] = u[i]
       /\ \A i \in DOMAIN v : \E j \in DOMAIN p : p[j] = v[i]
  BY <1>2, <1>8, <1>9, PollCalls
<1>11. StepTo(p) /\ Todo[1] = Arg(c) /\ Todo[1].op = "poll_event" /\ Todo[1].ev = ev
  BY <1>0, <1>3, <1>10, Taking, Zenon DEF Takes
<1>12. CASE "hup" \in ev
  <2>1. Hups(Todo') /\ Full(asy', Todo')
    BY <1>6, <1>10, <1>11, <1>12, CarriedCalls
  <2> QED BY <1>4, <1>10, <1>11, <2>1, PollsFull
<1>13. CASE "hup" \notin ev
  <2>1. ~HupCall(Todo[1]) /\ ~FullCall(Todo[1])
    BY <1>11, <1>13, Zenon DEF HupCall, FullCall
  <2>2. /\ Hups(Todo) => Hups(Todo')
        /\ Full(asy, Todo) => Full(asy', Todo')
    BY <1>11, <2>1, CarriedCalls, Zenon
  <2>3. Rearms(Todo')
    <3>1. RearmCall(z)
      BY <1>6, <1>13, Zenon DEF RearmCall
    <3> QED BY <1>10, <1>11, <3>1, CarriedCalls, Zenon
  <2>4. ASSUME NEW q \in Queue, Wakes(Todo, q) PROVE Wakes(Todo', q)
    <3>1. CASE ~WakeCall(Todo[1], q)
      BY <1>11, <2>4, <3>1, CarriedCalls, Zenon
    <3>2. CASE WakeCall(Todo[1], q)
      <4>1. ev \cap {q, "hup"} # {}
        BY <1>11, <3>2, Zenon DEF WakeCall
      <4>2. \E i \in DOMAIN wake(q) : WakeCall(wake(q)[i], q)
        BY <1>5, <4>1, Zenon
      <4>3. \E j \in DOMAIN p : WakeCall(p[j], q)
        BY <1>1, <1>7, <1>10, <4>2, Zenon
      <4> QED BY <1>11, <4>3, CarriedCalls, Zenon
    <3> QED BY <3>1, <3>2
  <2>5. "hup" \in fd'.pending /\ fd'.open /\ fd'.state # "removed" => Hups(Todo')
    BY <1>3, <2>2, Zenon DEF Polls
  <2> QED BY <1>3, <1>4, <1>10, <1>11, <2>2, <2>3, <2>4, <2>5, PollsKept, Zenon
<1> QED BY <1>12, <1>13, Zenon

LEMMA PollsRearm ==
  ASSUME Core, Polls, NEW c \in Ctx, Rearm(c)
  PROVE  Polls'
<1>1. /\ Now(c, "rearm") /\ Then(c, <<FdCall("set_fd_events", PollEvents)>>)
      /\ UNCHANGED <<asy, queue, ready, fd>>
  BY Zenon DEF Rearm, qVars, fileVars
<1>2. PollEvents' = PollEvents /\ SameEntry
  BY <1>1, EventsSame, Zenon DEF SameEntry
<1>3. PollEvents \in SUBSET Event /\ "set_fd_events" \in Ops
  BY FileTyped, Zenon DEF Core, Ops
<1>4. PICK p, x : /\ StepTo(p) /\ p = <<x>> /\ x.op = "set_fd_events" /\ x.ev = PollEvents
                  /\ Todo'[1] = x /\ Todo' # <<>> /\ Todo[1].op = "rearm"
  BY <1>1, <1>3, OneFd
<1>5. Ordered(p, PollEvents')
  BY <1>2, <1>4, OneOrdered, Zenon
<1>6. ~HupCall(Todo[1]) /\ ~FullCall(Todo[1]) /\ \A q : ~WakeCall(Todo[1], q)
  BY <1>4, Zenon DEF HupCall, FullCall, WakeCall
<1>7. /\ Hups(Todo) => Hups(Todo')
      /\ Full(asy, Todo) => Full(asy', Todo')
      /\ \A q \in Queue : Wakes(Todo, q) => Wakes(Todo', q)
  BY <1>4, <1>6, CarriedCalls, Zenon
<1>8. Rearms(Todo')
  BY <1>4, Zenon DEF Rearms
<1>9. "hup" \in fd'.pending /\ fd'.open /\ fd'.state # "removed" => Hups(Todo')
  BY <1>1, <1>7, Zenon DEF Polls
<1> QED BY <1>1, <1>2, <1>4, <1>5, <1>7, <1>8, <1>9, PollsKept

LEMMA PollsReselect ==
  ASSUME Core, Ports, Polls, NEW c \in Ctx, Reselect(c)
  PROVE  Polls'
<1>0. PICK ev : ev = FilePoll \cap PollEvents
  BY Zenon
<1>1. /\ Now(c, "async_reselect") /\ UNCHANGED <<asy, queue, ready, fd>>
      /\ Then(c, IF ~qfd[asy[Arg(c).a].type] THEN <<>>
                 ELSE IF ev # {} THEN <<FdCall("poll_event", ev)>>
                 ELSE <<FdCall("set_fd_events", PollEvents)>>)
  BY <1>0, Zenon DEF Reselect, qVars, fileVars
<1>2. PollEvents' = PollEvents /\ SameEntry
  BY <1>1, EventsSame, Zenon DEF SameEntry
<1>3. CASE ~fd.open
  BY <1>1, <1>3, Zenon DEF Polls
<1>4. CASE fd.open
  <2>1. PollEvents \in SUBSET Event /\ ev \in SUBSET Event /\ {"set_fd_events", "poll_event"} \subseteq Ops
    BY <1>0, FileTyped, Zenon DEF Core, Ops
  <2>2. "async_reselect" \in CoveredOps
    BY Zenon DEF CoveredOps
  <2>3. Arg(c).a \in Async
    BY <1>1, <2>2, OnAsync, Zenon
  <2>4. qfd[asy[Arg(c).a].type]
    BY <1>4, <2>3, AsyFields, Zenon DEF Ports, Core
  <2>5. ASSUME Todo[1].op = "async_reselect", NEW p, StepTo(p)
        PROVE  "hup" \in fd'.pending /\ fd'.open /\ fd'.state # "removed" => Hups(Todo')
    <3>1. ~HupCall(Todo[1])
      BY <2>5, Zenon DEF HupCall
    <3> QED BY <1>1, <2>5, <3>1, CarriedCalls, Zenon DEF Polls
  <2>6. CASE ev # {}
    <3>1. PICK p, x : /\ StepTo(p) /\ p = <<x>> /\ x.op = "poll_event" /\ x.ev = ev /\ 1 \in DOMAIN p
                      /\ p[1] = x /\ Todo[1].op = "async_reselect"
      BY <1>1, <2>1, <2>4, <2>6, OneFd
    <3>2. Ordered(p, PollEvents')
      BY <3>1, OneOrdered, Zenon
    <3>3. Rearms(Todo')
      <4>1. RearmCall(x)
        BY <3>1, Zenon DEF RearmCall
      <4> QED BY <3>1, <4>1, CarriedCalls, Zenon
    <3>4. ASSUME NEW q \in Queue, q \in ready, q \in PollEvents PROVE Wakes(Todo', q)
      <4>1. WakeCall(x, q)
        BY <1>0, <3>1, <3>4, Zenon DEF WakeCall, FilePoll
      <4> QED BY <3>1, <4>1, CarriedCalls, Zenon
    <3> QED BY <1>1, <1>2, <2>5, <3>1, <3>2, <3>3, <3>4, PollsKept
  <2>7. CASE ev = {}
    <3>1. PICK p, x : /\ StepTo(p) /\ p = <<x>> /\ x.op = "set_fd_events" /\ x.ev = PollEvents
                      /\ Todo'[1] = x /\ Todo' # <<>> /\ Todo[1].op = "async_reselect"
      BY <1>1, <2>1, <2>4, <2>7, OneFd
    <3>2. Ordered(p, PollEvents')
      BY <1>2, <3>1, OneOrdered, Zenon
    <3>3. Rearms(Todo')
      BY <3>1, Zenon DEF Rearms
    <3>4. \A q \in Queue : q \in ready => q \notin PollEvents
      BY <1>0, <2>7, Zenon DEF FilePoll
    <3> QED BY <1>1, <1>2, <2>5, <3>1, <3>2, <3>3, <3>4, PollsKept
  <2> QED BY <2>6, <2>7, Zenon
<1> QED BY <1>3, <1>4, Zenon

\* async_wake_up, when the descriptor is open.
LEMMA WakeCalls ==
  ASSUME Core, Ports, fd.open, NEW c \in Ctx, WakeUp(c), NEW q, q = Arg(c).q
  PROVE  /\ q \in Queue
         /\ \E p : /\ StepTo(p) /\ Todo[1] = Arg(c) /\ Todo[1].op = "async_wake_up"
                   /\ \A e : Ordered(p, e)
                   /\ q \in PollEvents =>
                        /\ 1 \in DOMAIN p /\ p[1].op = "async_terminate"
                        /\ asy[p[1].a].status = "pending"
<1>0. PICK all, s : all = queue[q] /\ s = Arg(c).s
  BY Zenon
<1>1. PICK woken : woken = IF s = "alerted" /\ all # <<>> THEN <<Head(all)>> ELSE all
  BY Zenon
<1>2. Now(c, "async_wake_up") /\ work[c] # <<>> /\ Arg(c).op = "async_wake_up"
      /\ Then(c, Each(woken, "async_terminate", s))
  BY <1>0, <1>1, Zenon DEF WakeUp, Now, Arg
<1>3. Todo[1] = Arg(c) /\ 1 \in DOMAIN Todo /\ Arg(c) \in CallType /\ Fine(Arg(c)) /\ q \in Queue
  BY <1>2, HeadFine, Zenon DEF CallType
<1>4. s = "alerted"
  <2>1. s \in {"alerted", "closed"}
    BY <1>0, <1>2, <1>3, Zenon DEF Fine
  <2>2. s = "closed" => ~qfd[q]
    BY <1>0, <1>2, <1>3, Zenon DEF Core, Calls, Closes
  <2> QED BY <1>3, <2>1, <2>2, Zenon DEF Ports
<1>5. all \in Seq(Async)
  BY <1>0, <1>3, Zenon DEF Core, TypeOK
<1>6. /\ woken \in Seq(Async)
      /\ all # <<>> => 1 \in DOMAIN woken /\ woken[1] = Head(all)
  <2>1. CASE all = <<>>
    BY <1>1, <1>5, <2>1, Zenon
  <2>2. CASE all # <<>>
    <3>1. PICK h \in Async : h = Head(all)
      BY <1>5, <2>2
    <3>2. woken = <<h>>
      BY <1>1, <1>4, <2>2, <3>1, Zenon
    <3>3. woken \in Seq(Async) /\ 1 \in DOMAIN woken /\ woken[1] = h
      BY <3>1, <3>2
    <3> QED BY <3>1, <3>3, Zenon
  <2> QED BY <2>1, <2>2, Zenon
<1>7. PICK p : p = Each(woken, "async_terminate", s)
  BY Zenon
<1>8. /\ p \in Seq(CallType) /\ DOMAIN p = DOMAIN woken
      /\ \A i \in DOMAIN p : p[i].op = "async_terminate" /\ p[i].a = woken[i]
  <2>1. "async_terminate" \in Ops /\ s \in Status \cup {"pending"}
    BY <1>4, Zenon DEF Ops, Status
  <2> QED BY <1>6, <1>7, <2>1, EachAt, CallParts
<1>9. StepTo(p) /\ Todo[1] = Arg(c)
  BY <1>2, <1>7, <1>8, Taking, Zenon DEF Takes
<1>10. \A e : Ordered(p, e)
  BY <1>8, PlainOrdered, Zenon
<1>11. q \in PollEvents => 1 \in DOMAIN p /\ p[1].op = "async_terminate" /\ asy[p[1].a].status = "pending"
  <2>1. q \in PollEvents => all # <<>> /\ asy[Head(all)].status = "pending"
    BY <1>0, Zenon DEF PollEvents
  <2> QED BY <1>6, <1>8, <2>1, Zenon
<1> QED BY <1>2, <1>3, <1>9, <1>10, <1>11, Zenon

LEMMA PollsWakeUp ==
  ASSUME Core, Ports, Polls, NEW c \in Ctx, WakeUp(c)
  PROVE  Polls'
<1>1. UNCHANGED <<asy, queue, ready, fd>>
  BY Zenon DEF WakeUp, qVars, fileVars
<1>2. PollEvents' = PollEvents /\ SameEntry
  BY <1>1, EventsSame, Zenon DEF SameEntry
<1>3. CASE ~fd.open
  BY <1>1, <1>3, Zenon DEF Polls
<1>4. CASE fd.open
  <2>0. PICK q : q = Arg(c).q
    BY Zenon
  <2>1. PICK p : /\ StepTo(p) /\ Todo[1] = Arg(c) /\ Todo[1].op = "async_wake_up"
                 /\ \A e : Ordered(p, e)
                 /\ q \in PollEvents =>
                      /\ 1 \in DOMAIN p /\ p[1].op = "async_terminate"
                      /\ asy[p[1].a].status = "pending"
    BY <1>4, <2>0, WakeCalls, Zenon
  <2>2. ~HupCall(Todo[1]) /\ ~FullCall(Todo[1]) /\ ~RearmCall(Todo[1])
    BY <2>1, Zenon DEF HupCall, FullCall, RearmCall
  <2>3. \A k \in Queue : k # q => ~WakeCall(Todo[1], k)
    BY <2>0, <2>1, Zenon DEF WakeCall
  <2>4. /\ Hups(Todo) => Hups(Todo')
        /\ Full(asy, Todo) => Full(asy', Todo')
        /\ Rearms(Todo) => Rearms(Todo')
        /\ \A k \in Queue : k # q /\ Wakes(Todo, k) => Wakes(Todo', k)
        /\ Hups(Todo') => Full(asy', Todo')
    BY <2>1, <2>2, <2>3, CarriedCalls, Zenon
  <2>5. "hup" \in fd'.pending /\ fd'.open /\ fd'.state # "removed" => Hups(Todo')
    BY <1>1, <2>4, Zenon DEF Polls
  <2>6. CASE q \in PollEvents
    <3>1. Todo' # <<>> /\ Todo'[1] = p[1]
      BY <2>1, <2>6, Carried, Zenon
    <3>2. Full(asy', Todo')
      BY <1>1, <2>1, <2>6, <3>1, Zenon DEF Full
    <3> QED BY <1>2, <2>1, <2>5, <3>2, PollsFull, Zenon
  <2>7. CASE q \notin PollEvents
    <3>1. Rearms(Todo') \/ Full(asy', Todo')
      <4>1. 1 \in DOMAIN Todo /\ DOMAIN Todo = 1 .. Len(Todo) /\ Len(Todo) \in Nat
        BY <2>1, Carried DEF StepTo
      <4>2. PICK j \in 1 + 1 .. Len(Todo) : Todo[j].op = "rearm" \/ HupCall(Todo[j])
        BY <1>4, <2>1, <4>1, Zenon DEF Polls, Followed
      <4>3. j \in DOMAIN Todo
        BY <4>1, <4>2
      <4>4. Rearms(Todo) \/ Hups(Todo)
        BY <4>2, <4>3, Zenon DEF Rearms, RearmCall, Hups
      <4> QED BY <2>4, <4>4, Zenon
    <3> QED BY <1>1, <1>2, <2>1, <2>4, <2>5, <2>7, <3>1, PollsKept
  <2> QED BY <2>6, <2>7, Zenon
<1> QED BY <1>3, <1>4

LEMMA StatusSet ==
  ASSUME Core, NEW b \in Async, NEW r, asy' = [asy EXCEPT ![b] = r],
         r.status = "pending" => asy[b].status = "pending"
  PROVE  \A a \in Async : asy'[a].status = "pending" => asy[a].status = "pending"
<1>1. asy'[b] = r /\ \A a \in Async : a # b => asy'[a] = asy[a]
  BY Zenon DEF Core, TypeOK
<1> QED BY <1>1, Zenon

\* A call that makes no other and has nothing to do with the poll entry.
LEMMA PollsEmpty ==
  ASSUME Core, Polls, NEW c \in Ctx, NEW op, Now(c, op), Then(c, <<>>), Aside(Arg(c)),
         UNCHANGED <<queue, ready, fd>>,
         \A a \in Async : asy'[a].status = "pending" => asy[a].status = "pending"
  PROVE  Polls'
<1>1. StepTo(<<>>) /\ Todo[1] = Arg(c) /\ \A e : Ordered(<<>>, e)
  BY NoCall, Zenon
<1>2. PollEvents' \subseteq PollEvents
  BY EventsShrink, Zenon DEF Core
<1>3. SameEntry
  BY Zenon DEF SameEntry
<1> QED BY <1>1, <1>2, <1>3, PollsQuiet, Zenon

LEMMA PollsPlain ==
  ASSUME Core, Polls, NEW c \in Ctx,
         QueueApc(c) \/ ClearApc(c) \/ SetTimeout(c) \/ Free(c) \/ DequeueApc(c)
  PROVE  Polls'
<1>0. PICK b : b = Arg(c).a
  BY Zenon
<1>1. ASSUME b \in Async PROVE asy \in [Async -> AsyncType] /\ asy[b] \in AsyncType
  BY <1>1, Zenon DEF Core, TypeOK
<1>2. ASSUME NEW op \in {"async_queue_apc", "clear_apc", "set_timeout", "free"}, Now(c, op)
      PROVE  b \in Async /\ Aside(Arg(c))
  <2>1. op \in CoveredOps
    BY Zenon DEF CoveredOps
  <2>2. b \in Async /\ Arg(c).op = op
    BY <1>0, <1>2, <2>1, OnAsync, Zenon
  <2> QED BY <2>2, HeadAside
<1>3. CASE QueueApc(c)
  <2>1. /\ Now(c, "async_queue_apc") /\ Then(c, <<>>) /\ UNCHANGED <<queue, ready, fd>>
        /\ asy' = asy \/ \E n : asy' = [asy EXCEPT ![b].ref = n]
    BY <1>0, <1>3, Zenon DEF QueueApc, qVars, fileVars
  <2>2. b \in Async /\ Aside(Arg(c))
    BY <1>2, <2>1, Zenon
  <2>3. \A a \in Async : asy'[a].status = "pending" => asy[a].status = "pending"
    <3>1. CASE asy' = asy
      BY <3>1, Zenon
    <3>2. CASE \E n : asy' = [asy EXCEPT ![b].ref = n]
      <4>1. PICK n : asy' = [asy EXCEPT ![b].ref = n]
        BY <3>2, Zenon
      <4> DEFINE r == [asy[b] EXCEPT !.ref = n]
      <4>2. asy' = [asy EXCEPT ![b] = r] /\ r.status = asy[b].status
        BY <1>1, <2>2, <4>1, Zenon DEF AsyncType
      <4> HIDE DEF r
      <4> QED BY <2>2, <4>2, StatusSet, Zenon
    <3> QED BY <2>1, <3>1, <3>2, Zenon
  <2> QED BY <2>1, <2>2, <2>3, PollsEmpty, Zenon
<1>4. CASE ClearApc(c)
  <2>1. /\ Now(c, "clear_apc") /\ Then(c, <<>>) /\ UNCHANGED <<queue, ready, fd>>
        /\ asy' = [asy EXCEPT ![b].apc = FALSE]
    BY <1>0, <1>4, Zenon DEF ClearApc, qVars, fileVars
  <2>2. b \in Async /\ Aside(Arg(c))
    BY <1>2, <2>1, Zenon
  <2> DEFINE r == [asy[b] EXCEPT !.apc = FALSE]
  <2>3. asy' = [asy EXCEPT ![b] = r] /\ r.status = asy[b].status
    BY <1>1, <2>1, <2>2 DEF AsyncType
  <2> HIDE DEF r
  <2>4. \A a \in Async : asy'[a].status = "pending" => asy[a].status = "pending"
    BY <2>2, <2>3, StatusSet
  <2> QED BY <2>1, <2>2, <2>4, PollsEmpty, Zenon
<1>5. CASE SetTimeout(c)
  <2>1. /\ Now(c, "set_timeout") /\ Then(c, <<>>) /\ UNCHANGED <<queue, ready, fd>>
        /\ asy' = [asy EXCEPT ![b].timeout = TRUE]
    BY <1>0, <1>5, Zenon DEF SetTimeout, qVars, fileVars
  <2>2. b \in Async /\ Aside(Arg(c))
    BY <1>2, <2>1, Zenon
  <2> DEFINE r == [asy[b] EXCEPT !.timeout = TRUE]
  <2>3. asy' = [asy EXCEPT ![b] = r] /\ r.status = asy[b].status
    BY <1>1, <2>1, <2>2 DEF AsyncType
  <2> HIDE DEF r
  <2>4. \A a \in Async : asy'[a].status = "pending" => asy[a].status = "pending"
    BY <2>2, <2>3, StatusSet
  <2> QED BY <2>1, <2>2, <2>4, PollsEmpty, Zenon
<1>6. CASE Free(c)
  <2>1. /\ Now(c, "free") /\ Then(c, <<>>) /\ UNCHANGED <<queue, ready, fd>>
        /\ asy' = [asy EXCEPT ![b].life = "freed", ![b].timeout = FALSE]
    BY <1>0, <1>6, Zenon DEF Free, qVars, fileVars
  <2>2. b \in Async /\ Aside(Arg(c))
    BY <1>2, <2>1, Zenon
  <2> DEFINE r == [asy[b] EXCEPT !.life = "freed", !.timeout = FALSE]
  <2>3. asy' = [asy EXCEPT ![b] = r] /\ r.status = asy[b].status
    BY <1>1, <2>1, <2>2, Zenon DEF AsyncType
  <2> HIDE DEF r
  <2>4. \A a \in Async : asy'[a].status = "pending" => asy[a].status = "pending"
    BY <2>2, <2>3, StatusSet
  <2> QED BY <2>1, <2>2, <2>4, PollsEmpty, Zenon
<1>7. CASE DequeueApc(c)
  <2>1. Now(c, "dequeue_apc") /\ Then(c, <<>>) /\ UNCHANGED <<queue, ready, fd, asy>>
    BY <1>7, Zenon DEF DequeueApc, qVars, fileVars
  <2>2. Aside(Arg(c))
    BY <2>1, HeadAside DEF Now, Arg
  <2> QED BY <2>1, <2>2, PollsEmpty, Zenon
<1> QED BY <1>3, <1>4, <1>5, <1>6, <1>7, Zenon

LEMMA PollsAfter ==
  ASSUME ListFacts, Core, Polls, NEW c \in Ctx, WakeUpBy(c) \/ FdPollEventEnd(c)
  PROVE  Polls'
<1>1. CASE WakeUpBy(c)
  <2>1. Now(c, "async_wake_up_by") /\ work[c] # <<>> /\ UNCHANGED <<asy, queue, ready, fd>>
    BY <1>1, Zenon DEF WakeUpBy, Now, qVars, fileVars
  <2>2. Arg(c).q \in Queue /\ "cancelled" \in Status /\ "async_terminate" \in Ops
    BY <2>1, HeadFine, Zenon DEF CallType, Status, Ended, Ops
  <2> DEFINE all == queue[Arg(c).q]
             K == {i \in DOMAIN all : Arg(c).a \in {None, all[i], asy[all[i]].thread}}
             mine == Keep(all, K)
             p == Each(mine, "async_terminate", "cancelled")
  <2>3. Then(c, p)
    BY <1>1, Zenon DEF WakeUpBy
  <2>4. all \in Seq(Async) /\ K \in SUBSET DOMAIN all
    BY <2>2, Zenon DEF Core, TypeOK
  <2> HIDE DEF all, K
  <2>5. mine \in Seq(Async)
    BY <2>4, KeepAt, Zenon
  <2> HIDE DEF mine
  <2>6. p \in Seq(CallType) /\ \A i \in DOMAIN p : p[i].op = "async_terminate"
    BY <2>2, <2>5, EachAt, CallParts
  <2> HIDE DEF p
  <2>7. StepTo(p) /\ Todo[1].op = "async_wake_up_by"
    BY <2>1, <2>3, <2>6, Taking, Zenon DEF Takes
  <2>8. Aside(Todo[1]) /\ (\A e : Ordered(p, e)) /\ PollEvents' = PollEvents /\ SameEntry
    BY <2>1, <2>6, <2>7, HeadAside, PlainOrdered, EventsSame DEF SameEntry
  <2> QED BY <2>1, <2>7, <2>8, PollsQuiet, Zenon
<1>2. CASE FdPollEventEnd(c)
  <2>1. /\ Now(c, "polled") /\ Then(c, <<>>) /\ UNCHANGED <<asy, queue, ready>>
        /\ fd' = [fd EXCEPT !.pending = {}]
    BY <1>2, Zenon DEF FdPollEventEnd, qVars, fileVars
  <2>2. SameEntry /\ fd'.pending = {}
    BY <2>1, Zenon DEF SameEntry, Core, TypeOK, FdType
  <2>3. StepTo(<<>>) /\ Todo[1].op = "polled" /\ \A e : Ordered(<<>>, e)
    BY <2>1, NoCall, Zenon
  <2>4. Aside(Todo[1]) /\ PollEvents' = PollEvents
    BY <2>1, <2>3, HeadAside, EventsSame
  <2> QED BY <2>1, <2>2, <2>3, <2>4, PollsQuiet, Zenon
<1> QED BY <1>1, <1>2, Zenon

\* A call that makes one which looks at the whole entry again.
LEMMA PollsPush ==
  ASSUME Core, Polls, NEW c \in Ctx, NEW op, Now(c, op), op \notin {"poll_event", "set_fd_events"},
         NEW p \in Seq(CallType), Then(c, p), fd' = fd,
         \A i \in DOMAIN p : p[i].op \notin {"set_fd_events", "async_wake_up"},
         \/ \E i \in DOMAIN p : FullCall(p[i])
         \/ 1 \in DOMAIN p /\ p[1].op = "async_terminate" /\ asy'[p[1].a].status = "pending"
  PROVE  Polls'
<1>1. StepTo(p) /\ Todo[1].op = op
  BY Taking, Zenon DEF Takes
<1>2. ~HupCall(Todo[1])
  BY <1>1, Zenon DEF HupCall
<1>3. Full(asy', Todo')
  <2>1. CASE \E i \in DOMAIN p : FullCall(p[i])
    BY <1>1, <2>1, CarriedCalls, Zenon
  <2>2. CASE 1 \in DOMAIN p /\ p[1].op = "async_terminate" /\ asy'[p[1].a].status = "pending"
    <3>1. Todo' # <<>> /\ Todo'[1] = p[1]
      BY <1>1, <2>2, Carried, Zenon
    <3> QED BY <2>2, <3>1, Zenon DEF Full
  <2> QED BY <2>1, <2>2, Zenon
<1>4. Hups(Todo) => Hups(Todo')
  BY <1>1, <1>2, CarriedCalls, Zenon
<1>5. "hup" \in fd'.pending /\ fd'.open /\ fd'.state # "removed" => Hups(Todo')
  BY <1>4, Zenon DEF Polls
<1>6. SameEntry /\ Ordered(p, PollEvents')
  BY PlainOrdered, Zenon DEF SameEntry
<1> QED BY <1>1, <1>3, <1>5, <1>6, PollsFull, Zenon

LEMMA PollsTerminate ==
  ASSUME Core, Polls, NEW c \in Ctx, Terminate(c)
  PROVE  Polls'
<1>0. PICK b, s : b = Arg(c).a /\ s = Arg(c).s
  BY Zenon
<1>1. /\ Now(c, "async_terminate") /\ asy' = [asy EXCEPT ![b].status = s]
      /\ UNCHANGED <<queue, ready, fd>>
  BY <1>0, Zenon DEF Terminate, qVars, fileVars
<1>2. b \in Async /\ s \in Status /\ Arg(c).op = "async_terminate"
  BY <1>0, <1>1, OnAsync, Zenon
<1>3. CASE asy[b].status # "pending"
  <2>1. Then(c, <<>>)
    BY <1>0, <1>3, Zenon DEF Terminate
  <2> DEFINE r == [asy[b] EXCEPT !.status = s]
  <2>2. asy' = [asy EXCEPT ![b] = r] /\ r.status = s
    BY <1>1, <1>2, Zenon DEF Core, TypeOK, AsyncType
  <2> HIDE DEF r
  <2>3. s # "pending"
    BY <1>2, Zenon DEF Status, Ended
  <2>4. \A a \in Async : asy'[a].status = "pending" => asy[a].status = "pending"
    BY <1>2, <2>2, <2>3, StatusSet, Zenon
  <2>5. Aside(Arg(c))
    BY <1>0, <1>2, <1>3, Zenon DEF Aside, FullCall, HupCall, RearmCall, WakeCall
  <2> QED BY <1>1, <2>1, <2>4, <2>5, PollsEmpty, Zenon
<1>4. CASE asy[b].status = "pending"
  <2> DEFINE x == Call("async_queue_apc", b, s)
             y == Call("clear_apc", b, "pending")
             z == Call("async_reselect", b, "pending")
             w == Call("release", b, "pending")
  <2>1. Then(c, <<x, y, z, w>>)
    BY <1>0, <1>4, Zenon DEF Terminate
  <2>2. x \in CallType /\ y \in CallType /\ z \in CallType /\ w \in CallType
    BY <1>2, CallTyped, Zenon DEF Ops
  <2>3. x.op = "async_queue_apc" /\ y.op = "clear_apc" /\ z.op = "async_reselect" /\ w.op = "release"
    BY CallParts
  <2> HIDE DEF x, y, z, w
  <2>4. /\ <<x, y, z, w>> \in Seq(CallType) /\ DOMAIN <<x, y, z, w>> = {1, 2, 3, 4}
        /\ <<x, y, z, w>>[1] = x /\ <<x, y, z, w>>[2] = y /\ <<x, y, z, w>>[3] = z /\ <<x, y, z, w>>[4] = w
    BY <2>2
  <2>5. PICK p : p = <<x, y, z, w>>
    BY Zenon
  <2>6. FullCall(z)
    BY <2>3, Zenon DEF FullCall
  <2>7. /\ p \in Seq(CallType) /\ Then(c, p) /\ \E i \in DOMAIN p : FullCall(p[i])
        /\ \A i \in DOMAIN p : p[i].op \notin {"set_fd_events", "async_wake_up"}
    BY <2>1, <2>3, <2>4, <2>5, <2>6, Zenon
  <2> QED BY <1>1, <2>7, PollsPush, Zenon
<1> QED BY <1>3, <1>4, Zenon

LEMMA PollsRelease ==
  ASSUME Core, Polls, NEW c \in Ctx, Release(c)
  PROVE  Polls'
<1>0. PICK b : b = Arg(c).a
  BY Zenon
<1>1. /\ Now(c, "release") /\ asy' = [asy EXCEPT ![b].ref = @ - 1]
      /\ UNCHANGED <<ready, fd>>
  BY <1>0, Zenon DEF Release, fileVars
<1>2. b \in Async /\ Arg(c).op = "release"
  <2>1. "release" \in CoveredOps
    BY Zenon DEF CoveredOps
  <2> QED BY <1>0, <1>1, <2>1, OnAsync, Zenon
<1>3. CASE asy[b].ref # 1
  <2>1. Then(c, <<>>) /\ queue' = queue
    BY <1>0, <1>3, Zenon DEF Release
  <2> DEFINE r == [asy[b] EXCEPT !.ref = asy[b].ref - 1]
  <2>2. asy' = [asy EXCEPT ![b] = r] /\ r.status = asy[b].status
    BY <1>1, <1>2, Zenon DEF Core, TypeOK, AsyncType
  <2> HIDE DEF r
  <2>3. \A a \in Async : asy'[a].status = "pending" => asy[a].status = "pending"
    BY <1>2, <2>2, StatusSet, Zenon
  <2>4. Aside(Arg(c))
    BY <1>2, HeadAside
  <2> QED BY <1>1, <2>1, <2>3, <2>4, PollsEmpty, Zenon
<1>4. CASE asy[b].ref = 1
  <2> DEFINE x == Call("async_reselect", b, "pending")
             y == Call("free", b, "pending")
  <2>1. Then(c, <<x, y>>)
    BY <1>0, <1>4, Zenon DEF Release
  <2>2. x \in CallType /\ y \in CallType /\ x.op = "async_reselect" /\ y.op = "free"
    BY <1>2, CallTyped, CallParts DEF Ops
  <2> HIDE DEF x, y
  <2>3. /\ <<x, y>> \in Seq(CallType) /\ DOMAIN <<x, y>> = {1, 2} /\ <<x, y>>[1] = x /\ <<x, y>>[2] = y
    BY <2>2
  <2>4. PICK p : p = <<x, y>>
    BY Zenon
  <2>5. FullCall(x)
    BY <2>2, Zenon DEF FullCall
  <2>6. /\ p \in Seq(CallType) /\ Then(c, p) /\ \E i \in DOMAIN p : FullCall(p[i])
        /\ \A i \in DOMAIN p : p[i].op \notin {"set_fd_events", "async_wake_up"}
    BY <2>1, <2>2, <2>3, <2>4, <2>5, Zenon
  <2> QED BY <1>1, <2>6, PollsPush, Zenon
<1> QED BY <1>3, <1>4, Zenon

LEMMA PollsResult ==
  ASSUME Core, Polls, NEW c \in Ctx, SetResult(c)
  PROVE  Polls'
<1>0. PICK b, s, o : b = Arg(c).a /\ s = Arg(c).s /\ o = asy[b].status
  BY Zenon
<1>1. Now(c, "async_set_result") /\ UNCHANGED <<queue, ready, fd>>
  BY Zenon DEF SetResult, qVars, fileVars
<1>2. b \in Async /\ Arg(c).op = "async_set_result" /\ o \in Status \cup {"pending"}
  <2>1. "async_set_result" \in CoveredOps
    BY Zenon DEF CoveredOps
  <2> QED BY <1>0, <1>1, <2>1, OnAsync, AsyFields DEF Core
<1>3. CASE s # "pending"
  <2>1. Then(c, <<>>) /\ asy' = [asy EXCEPT ![b].status = s, ![b].timeout = FALSE, ![b].result = s]
    BY <1>0, <1>3, Zenon DEF SetResult
  <2> DEFINE r == [asy[b] EXCEPT !.status = s, !.timeout = FALSE, !.result = s]
  <2>2. asy' = [asy EXCEPT ![b] = r] /\ r.status = s
    BY <1>2, <2>1, Zenon DEF Core, TypeOK, AsyncType
  <2> HIDE DEF r
  <2>3. \A a \in Async : asy'[a].status = "pending" => asy[a].status = "pending"
    BY <1>2, <1>3, <2>2, StatusSet, Zenon
  <2>4. Aside(Arg(c))
    BY <1>2, HeadAside
  <2> QED BY <1>1, <2>1, <2>3, <2>4, PollsEmpty, Zenon
<1>4. CASE s = "pending"
  <2> DEFINE x == Call("restart", b, o)
  <2>1. Then(c, <<x>>)
    BY <1>0, <1>4, Zenon DEF SetResult
  <2>2. x \in CallType /\ x.op = "restart"
    BY <1>2, CallTyped, CallParts DEF Ops
  <2> HIDE DEF x
  <2>3. <<x>> \in Seq(CallType) /\ DOMAIN <<x>> = {1} /\ <<x>>[1] = x
    BY <2>2
  <2>4. PICK p : p = <<x>>
    BY Zenon
  <2>5. FullCall(x)
    BY <2>2, Zenon DEF FullCall
  <2>6. /\ p \in Seq(CallType) /\ Then(c, p) /\ \E i \in DOMAIN p : FullCall(p[i])
        /\ \A i \in DOMAIN p : p[i].op \notin {"set_fd_events", "async_wake_up"}
    BY <2>1, <2>2, <2>3, <2>4, <2>5, Zenon
  <2> QED BY <1>1, <2>6, PollsPush, Zenon
<1> QED BY <1>3, <1>4, Zenon

LEMMA PollsRestart ==
  ASSUME Core, Polls, NEW c \in Ctx, Restart(c)
  PROVE  Polls'
<1>0. PICK b, s : b = Arg(c).a /\ s = Arg(c).s
  OBVIOUS
<1>1. /\ Now(c, "restart") /\ fd' = fd
      /\ asy' = [asy EXCEPT ![b].ref = @ + 1, ![b].apc = TRUE]
  BY <1>0, Zenon DEF Restart
<1>2. b \in Async /\ s \in Status /\ Todo[1].op = "restart" /\ Todo[1].a = b /\ Todo # <<>>
  <2>1. "restart" \in CoveredOps
    BY Zenon DEF CoveredOps
  <2> QED BY <1>0, <1>1, <2>1, OnAsync, Zenon
<1>3. asy'[b].status = "pending"
  <2>1. asy[b].status = "pending"
    <3>1. Heads(Todo, "restart", b)
      BY <1>2, Zenon DEF Heads
    <3> QED BY <1>2, <3>1, Zenon DEF Core, Account, Exclusive
  <2> DEFINE r == [asy[b] EXCEPT !.ref = asy[b].ref + 1, !.apc = TRUE]
  <2>2. asy' = [asy EXCEPT ![b] = r] /\ r.status = asy[b].status
    BY <1>1, <1>2 DEF Core, TypeOK, AsyncType
  <2> HIDE DEF r
  <2>3. asy'[b] = r
    BY <1>2, <2>2, Zenon DEF Core, TypeOK
  <2> QED BY <2>1, <2>2, <2>3, Zenon
<1> DEFINE y == Call("async_terminate", b, s)
           z == Call("async_reselect", b, "pending")
<1>4. \E x \in {y, z} : Then(c, <<x>>)
  <2>1. IF s # "alerted" THEN Then(c, <<y>>) ELSE Then(c, <<z>>)
    BY <1>0, Zenon DEF Restart
  <2> HIDE DEF y, z
  <2> QED BY <2>1, Zenon
<1>5. /\ y \in CallType /\ y.op = "async_terminate" /\ y.a = b
      /\ z \in CallType /\ z.op = "async_reselect"
  BY <1>2, CallTyped, CallParts DEF Ops
<1> HIDE DEF y, z
<1>6. PICK x \in {y, z} : Then(c, <<x>>)
  BY <1>4, Zenon
<1>7. PICK p : p = <<x>>
  BY Zenon
<1>8. p \in Seq(CallType) /\ DOMAIN p = {1} /\ p[1] = x
  <2>1. x \in CallType
    BY <1>5, Zenon
  <2>2. <<x>> \in Seq(CallType) /\ DOMAIN <<x>> = {1} /\ <<x>>[1] = x
    <3> HIDE DEF CallType
    <3> QED BY <2>1
  <2> QED BY <1>7, <2>2, Zenon
<1>9. x.op \in {"async_terminate", "async_reselect"} /\ (x = z => FullCall(x))
  BY <1>5, Zenon DEF FullCall
<1>10. /\ \A i \in DOMAIN p : p[i].op \notin {"set_fd_events", "async_wake_up"}
       /\ \/ \E i \in DOMAIN p : FullCall(p[i])
          \/ 1 \in DOMAIN p /\ p[1].op = "async_terminate" /\ asy'[p[1].a].status = "pending"
  BY <1>3, <1>5, <1>8, <1>9, Zenon
<1> QED BY <1>1, <1>6, <1>7, <1>8, <1>10, PollsPush, Zenon

\* When nothing is left to be done, the entry is armed with all that is
\* pending and none of it is there.
LEMMA PollsStart ==
  ASSUME Polls, Todo = <<>>, Todo' \in Seq(StartCalls), SameEntry, fd'.pending = fd.pending,
         PollEvents' \subseteq PollEvents \/ Rearms(Todo'),
         \A q \in Queue : fd.open /\ fd.state = "added" /\ q \in fd.events /\ q \in ready' =>
           q \in ready \/ Wakes(Todo', q)
  PROVE  Polls'
<1> SUFFICES ASSUME fd.open
             PROVE  /\ Armed(fd', ready', asy', PollEvents', Todo')
                    /\ "hup" \in fd'.pending => fd'.state = "removed" \/ Hups(Todo')
                    /\ Followed(Todo') /\ Fresh(Todo', PollEvents')
  BY Zenon DEF Polls, SameEntry
<1>1. /\ Armed(fd, ready, asy, PollEvents, Todo)
      /\ "hup" \in fd.pending => fd.state = "removed" \/ Hups(Todo)
  BY Zenon DEF Polls
<1>2. ~Hups(Todo) /\ ~Full(asy, Todo) /\ ~Rearms(Todo) /\ \A q : ~Wakes(Todo, q)
  <2>1. DOMAIN Todo = {}
    OBVIOUS
  <2> QED BY <2>1, Zenon DEF Hups, Full, Rearms, Wakes
<1>3. \A i \in DOMAIN Todo' : Todo'[i].op \notin {"set_fd_events", "async_wake_up"}
  <2>1. \A i \in DOMAIN Todo' : Todo'[i] \in StartCalls
    OBVIOUS
  <2> QED BY <2>1, Zenon DEF StartCalls
<1>4. Followed(Todo') /\ Fresh(Todo', PollEvents')
  BY <1>3, Zenon DEF Followed, Fresh
<1>5. Armed(fd', ready', asy', PollEvents', Todo')
  BY <1>1, <1>2, Zenon DEF Armed, SameEntry
<1> QED BY <1>1, <1>2, <1>4, <1>5, Zenon DEF SameEntry

LEMMA PollsFileEvent ==
  ASSUME Core, Smp = FALSE, Polls, (\E q \in Queue : Arrive(q)) \/ HangUp
  PROVE  Polls'
<1>0. Todo = <<>> /\ Todo' \in Seq(StartCalls)
  BY OpensSafe, Zenon DEF Opens
<1>1. PICK ev : /\ FileEvent(ev)
                /\ \A q \in Queue : q \in ready' => q \in ready \/ q \in ev
  <2>1. CASE \E q \in Queue : Arrive(q)
    BY <2>1, Zenon DEF Arrive
  <2>2. CASE HangUp
    BY <2>2, Zenon DEF HangUp, Event
  <2> QED BY <2>1, <2>2, Zenon
<1>2. /\ UNCHANGED <<asy, queue, fd>>
      /\ Starts("cb", IF ev \cap fd.key # {} THEN <<FdCall("pollwake", fd.key)>> ELSE <<>>)
  BY <1>1, Zenon DEF FileEvent, qVars
<1>3. SameEntry /\ fd'.pending = fd.pending /\ PollEvents' = PollEvents
  BY <1>2, EventsSame, Zenon DEF SameEntry
<1>4. ASSUME NEW q \in Queue, fd.open, fd.state = "added", q \in fd.events, q \in ready', q \notin ready
      PROVE  Wakes(Todo', q)
  <2>1. q \in fd.key /\ q \in ev
    BY <1>1, <1>4, Zenon DEF Polls, Armed
  <2> DEFINE x == FdCall("pollwake", fd.key)
  <2>2. Starts("cb", <<x>>)
    BY <1>2, <2>1, Zenon
  <2>3. x \in StartCalls /\ x.op = "pollwake" /\ x.ev = fd.key
    <3>1. fd.key \in SUBSET Event
      BY Zenon DEF Core, TypeOK, FdType
    <3> QED BY <3>1, StartTyped, CallParts
  <2> HIDE DEF x
  <2>4. Todo' = <<x>>
    <3>1. <<x>> \in Seq(StartCalls) /\ "cb" \in Ctx
      BY <2>3, StartTyped, Zenon DEF Ctx
    <3> QED BY <2>2, <3>1, StartIs, Zenon
  <2>5. 1 \in DOMAIN <<x>> /\ <<x>>[1] = x
    OBVIOUS
  <2>6. WakeCall(x, q)
    BY <2>1, <2>3, Zenon DEF WakeCall
  <2> QED BY <2>4, <2>5, <2>6, Zenon DEF Wakes
<1> QED BY <1>0, <1>3, <1>4, PollsStart, Zenon

LEMMA PollsRegister ==
  ASSUME Core, Smp = FALSE, Polls, NEW t \in Thread, NEW b \in Async, NEW q \in Queue, NEW timed \in Timed,
         RegisterAsync(t, b, q, timed)
  PROVE  Polls'
<1>0. Todo = <<>> /\ Todo' \in Seq(StartCalls)
  BY OpensSafe, Zenon DEF Opens
<1>1. PICK p : p = <<FdCall("rearm", {})>> \o
                   (IF timed THEN <<Call("set_timeout", b, "pending")>> ELSE <<>>) \o <<ReleaseOf(b)>>
  BY Zenon
<1>2. Starts("req", p) /\ UNCHANGED <<fd, ready>>
  BY <1>1, Zenon DEF RegisterAsync, ReleaseOf, fileVars
<1>3. p \in Seq(CallType) /\ p # <<>> /\ p[1] = FdCall("rearm", {})
  BY <1>1, AsyncIoAssumption, RegisterCalls
<1>4. Todo' = p
  BY <1>2, <1>3, Starting, Zenon DEF Core, Ctx
<1>5. Rearms(Todo')
  <2>1. 1 \in DOMAIN p
    BY <1>3, EmptyLen
  <2>2. RearmCall(p[1])
    BY <1>3, CallParts DEF RearmCall
  <2> QED BY <1>4, <2>1, <2>2, Zenon DEF Rearms
<1>6. SameEntry /\ fd'.pending = fd.pending
  BY <1>2, Zenon DEF SameEntry
<1> QED BY <1>0, <1>2, <1>5, <1>6, PollsStart

LEMMA PollsOpens ==
  ASSUME Core, Smp = FALSE, Polls, Opens
  PROVE  Polls'
<1>0. Todo = <<>> /\ Todo' \in Seq(StartCalls)
  BY OpensSafe, Zenon
<1>1. CASE (\E q \in Queue : Arrive(q)) \/ HangUp
  BY <1>1, PollsFileEvent, Zenon
<1>2. CASE \E t \in Thread, a \in Async, q \in Queue, timed \in Timed : RegisterAsync(t, a, q, timed)
  BY <1>2, PollsRegister, Zenon
<1>3. CASE \E a \in Async : AsyncTimeout(a)
  <2>1. PICK b \in Async : AsyncTimeout(b)
    BY <1>3, Zenon
  <2> DEFINE r == [asy[b] EXCEPT !.timeout = FALSE]
  <2>2. asy' = [asy EXCEPT ![b] = r] /\ UNCHANGED <<queue, ready, fd>> /\ r.status = asy[b].status
    BY <2>1, Zenon DEF AsyncTimeout, qVars, fileVars, Core, TypeOK, AsyncType
  <2> HIDE DEF r
  <2>3. PollEvents' \subseteq PollEvents
    BY <2>2, StatusSet, EventsShrink, Zenon DEF Core
  <2>4. SameEntry /\ fd'.pending = fd.pending
    BY <2>2, Zenon DEF SameEntry
  <2> QED BY <1>0, <2>2, <2>3, <2>4, PollsStart, Zenon
<1>4. CASE \E t \in Thread : SetCompletionInfo(t) \/ KillThread(t) \/ Apc(t) \/
             \E which \in {None, t} \cup Async : CancelAsync(t, which)
  <2>1. UNCHANGED <<asy, queue>> /\ ready' \subseteq ready
    BY <1>4, Zenon DEF SetCompletionInfo, KillThread, Apc, Select, SelectResult, ClientIo, CancelAsync, qVars, fileVars
  <2>2. SameEntry /\ fd'.pending = fd.pending
    <3>1. fd \in FdType /\ (fd' = fd \/ fd' = [fd EXCEPT !.port = TRUE])
      BY <1>4, Zenon DEF SetCompletionInfo, KillThread, Apc, Select, SelectResult, ClientIo, CancelAsync, Core, TypeOK
    <3> QED BY <3>1, Zenon DEF SameEntry, FdType
  <2>3. PollEvents' = PollEvents
    BY <2>1, EventsSame
  <2> QED BY <1>0, <2>1, <2>2, <2>3, PollsStart
<1> QED BY <1>1, <1>2, <1>3, <1>4, Zenon DEF Opens

LEMMA PollsNext ==
  ASSUME ListFacts, Core, Smp = FALSE, Ports, Polls, [Next]_vars
  PROVE  Polls'
<1>1. ASSUME NEW c \in Ctx, Step(c) PROVE Polls'
  <2>1. ASSUME FreeQueue(c) \/ FdDestroyEnd(c) PROVE Polls'
    <3>1. work[c] # <<>> /\ Arg(c).op \in {"free_async_queue", "fd_destroyed"}
      BY <2>1, Zenon DEF FreeQueue, FdDestroyEnd, Now, Arg
    <3>2. Todo[1] = Arg(c) /\ 1 \in DOMAIN Todo
      BY <3>1, HeadFine, Zenon
    <3>3. ~fd.open
      BY <3>1, <3>2, Zenon DEF Ports
    <3>4. fd'.open = fd.open
      BY <2>1, Zenon DEF FreeQueue, FdDestroyEnd, Core, TypeOK, FdType
    <3> QED BY <3>3, <3>4, Zenon DEF Polls
  <2> QED BY <1>1, <2>1, PollsSetFdEvents, PollsPollWake, PollsFdPollEvent, PollsAfter, PollsPollEvent,
             PollsRearm, PollsReselect, PollsTerminate, PollsPlain, PollsRelease, PollsWakeUp, PollsResult,
             PollsRestart DEF Step, FdStep, AsyncStep
<1>2. CASE (\E t \in Thread : CloseFd(t)) \/ \E first \in BOOLEAN : ProcessExit(first)
  <2>1. ~fd'.open
    BY <1>2, Zenon DEF CloseFd, ProcessExit, Core, TypeOK, FdType
  <2> QED BY <2>1, Zenon DEF Polls
<1>3. CASE Opens
  BY <1>3, PollsOpens, Zenon
<1>4. CASE UNCHANGED vars
  <2>1. Todo' = Todo /\ UNCHANGED <<fd, asy, queue, ready>>
    BY <1>4, Zenon DEF vars, qVars, fileVars, Todo
  <2>2. PollEvents' = PollEvents
    BY <2>1, EventsSame, Zenon
  <2> QED BY <2>1, <2>2, Zenon DEF Polls
<1> QED BY <1>1, <1>2, <1>3, <1>4 DEF Next, ThreadRequest, Opens
=============================================================================

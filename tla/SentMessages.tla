---------------------------- MODULE SentMessages ----------------------------
(***************************************************************************)
(* Messages that threads send to each other and the results they wait for  *)
(* (queue.c), with the client's side of it (user32's message.c).           *)
(*                                                                         *)
(* A result belongs to the queue of its sender and to that of its          *)
(* receiver, and is freed when neither needs it.  Its receiver may reply,  *)
(* early or at the end, lose its window, end or be killed; its timeout may *)
(* expire; its sender may end: in any order.  A client that waits for a    *)
(* result handles the messages sent to it meanwhile, so both sides are     *)
(* stacks.                                                                 *)
(***************************************************************************)
EXTENDS Integers, FiniteSets, SequencesExt

CONSTANTS Thread,
          Hook,         \* the thread with the low-level hook
          Focus,        \* the thread whose window gets hardware messages
          MaxResults,   \* bound on the results that exist at a time
          MaxSends,     \* bound on the messages that are sent
          None

Result == 1 .. MaxResults

ASSUME SentMessagesAssumption ==
  /\ Hook \in Thread /\ Focus \in Thread /\ None \notin Thread \cup Result
  /\ MaxResults \in Nat /\ MaxSends \in Nat

Bit == {"sendmessage", "smresult", "postmessage", "input"}
AllInput == {"sendmessage", "postmessage", "input"}    \* QS_ALLINPUT

\* struct message: the type and the result; "win" is FALSE for messages that
\* are not for a window of the thread
Message == [type : {"unicode", "callback", "notify", "hook_ll", "callback_result"},
            result : Result \cup {None}, win : BOOLEAN]

\* struct msg_queue.  "state" says who holds the object: "live" is the queue of
\* a thread, "orphan" one that only the handle of its process keeps, "none" a
\* destroyed one.  "asleep" is a thread in the wait queue.
Queue == [state : {"live", "orphan", "none"}, window : BOOLEAN,
          sent : Seq(Message), posted : Nat, quit : BOOLEAN,
          bits : SUBSET Bit, changed : SUBSET Bit,
          wakeMask : SUBSET Bit, changedMask : SUBSET Bit, asleep : BOOLEAN,
          sendResult : Seq(Result), callbackResult : Seq(Result),
          recvResult : Seq(Result), input : Nat]

NewQueue ==
  [state |-> "live", window |-> TRUE, sent |-> <<>>, posted |-> 0, quit |-> FALSE,
   bits |-> {}, changed |-> {}, wakeMask |-> {}, changedMask |-> {}, asleep |-> FALSE,
   sendResult |-> <<>>, callbackResult |-> <<>>, recvResult |-> <<>>, input |-> 0]
Destroyed == [NewQueue EXCEPT !.state = "none", !.window = FALSE]

\* struct message_result.  "msg" says that the message is still queued,
\* "callback" and "hardware" that there is a callback_msg or a hardware_msg.
Value == {"pending", "zero", "nonzero", "denied", "timeout"}
ResultType == [sender : Thread \cup {None}, receiver : Thread \cup {None}, msg : BOOLEAN,
               value : Value, timeout : BOOLEAN, callback : BOOLEAN, hardware : BOOLEAN]
Free == [sender |-> None, receiver |-> None, msg |-> FALSE, value |-> "pending",
         timeout |-> FALSE, callback |-> FALSE, hardware |-> FALSE]

\* What a client does, from the message loop at the bottom of its stack to the
\* innermost call: "app", "get" and "sleep" are the loop; "mask", "peek",
\* "reply" and "sleep" a call of wait_message_reply and retrieve_reply for the
\* result; "proc", "notify" and "hook" a procedure that handles a message, and
\* "accept" and "reject" the return of a hook that has let the message pass or
\* not.  "block" is SMTO_BLOCK.
Frame == [at : {"app", "get", "mask", "peek", "reply", "sleep", "proc", "notify", "hook",
                "accept", "reject"},
          result : Result \cup {None}, block : BOOLEAN]

VARIABLES queue,    \* thread->queue
          result,   \* the results, by address
          frames,   \* the client's stack, innermost call first
          sends     \* messages sent so far

vars == <<queue, result, frames, sends>>

TypeOK ==
  /\ queue \in [Thread -> Queue]
  /\ result \in [Result -> ResultType]
  /\ frames \in [Thread -> Seq(Frame)]
  /\ sends \in 0 .. MaxSends

\* All threads have entered their message loops.
Init ==
  /\ queue = [t \in Thread |-> NewQueue]
  /\ result = [r \in Result |-> Free]
  /\ frames = [t \in Thread |-> <<[at |-> "app", result |-> None, block |-> FALSE]>>]
  /\ sends = 0

-----------------------------------------------------------------------------
(* The functions of queue.c, on s = [q |-> queue, r |-> result].            *)

Server == [q |-> queue, r |-> result]
Becomes(s) == queue' = s.q /\ result' = s.r

\* is_signaled
Signaled(q) == q.bits \cap q.wakeMask # {} \/ q.changed \cap q.changedMask # {}

\* msg_queue_satisfied
Satisfied(q) == [q EXCEPT !.wakeMask = {}, !.changedMask = {}, !.asleep = FALSE]

\* set_queue_bits, with the wake-up of the thread that waits for its queue
SetBits(s, t, bits) ==
  LET q == [s.q[t] EXCEPT !.bits = @ \cup bits, !.changed = @ \cup bits] IN
  [s EXCEPT !.q[t] = IF q.asleep /\ Signaled(q) THEN Satisfied(q) ELSE q]

\* clear_queue_bits
Cleared(q, bits) == [q EXCEPT !.bits = @ \ bits, !.changed = @ \ bits]

\* queue_hardware_message
QueueHardware(s) ==
  IF s.q[Focus].window
    THEN SetBits([s EXCEPT !.q[Focus].input = @ + 1], Focus, {"input"})
    ELSE s

\* free_result
FreeResult(s, r) == [s EXCEPT !.r[r] = Free]

\* remove_result_from_sender
RemoveFromSender(s, r) ==
  LET t == s.r[r].sender
      left == [s EXCEPT !.q[t].sendResult = Remove(@, r),
                        !.q[t].callbackResult = Remove(@, r), !.r[r].sender = None]
  IN IF s.r[r].receiver = None THEN FreeResult(left, r) ELSE left

\* store_message_result: the hardware message ...
StoreHardware(s, r, value) ==
  LET done == [s EXCEPT !.r[r].value = value, !.r[r].timeout = FALSE, !.r[r].hardware = FALSE] IN
  IF s.r[r].hardware /\ value # "nonzero" THEN QueueHardware(done) ELSE done

\* ... and the sender
StoreSender(s, r) ==
  LET t == s.r[r].sender IN
  IF t = None
    THEN IF s.r[r].receiver = None THEN FreeResult(s, r) ELSE s
  ELSE IF s.r[r].callback
    THEN LET msg == [type |-> "callback_result", result |-> None, win |-> FALSE]
             called == [s EXCEPT !.q[t].sent = Append(@, msg), !.r[r].callback = FALSE]
         IN RemoveFromSender(SetBits(called, t, {"sendmessage"}), r)
  ELSE IF Head(s.q[t].sendResult) = r THEN SetBits(s, t, {"smresult"}) ELSE s

Store(s, r, value) == StoreSender(StoreHardware(s, r, value), r)

\* free_message
FreeMessage(s, msg) ==
  IF msg.result = None THEN s
  ELSE Store([s EXCEPT !.r[msg.result].msg = FALSE, !.r[msg.result].receiver = None],
             msg.result, "denied")

\* the bits that remove_queue_message and receive_message clear
SendListBits(q) == IF q.sent = <<>> THEN Cleared(q, {"sendmessage"}) ELSE q
PostListBits(q) == IF q.posted = 0 /\ ~q.quit THEN Cleared(q, {"postmessage"}) ELSE q

\* remove_queue_message of the i-th sent message
RemoveMessage(s, t, i) ==
  LET msg == s.q[t].sent[i] IN
  FreeMessage([s EXCEPT !.q[t] = SendListBits([@ EXCEPT !.sent = RemoveAt(@, i)])], msg)

\* Mutant: a result that no sender waits for is freed with its hardware message.
ReplyMessageForgets(s, t, value, remove) ==
  LET r == Head(s.q[t].recvResult)
      popped == [s EXCEPT !.q[t].recvResult = Tail(@), !.r[r].receiver = None]
      u == IF remove THEN popped ELSE s
  IN IF remove /\ u.r[r].sender = None THEN FreeResult(u, r)
     ELSE IF u.r[r].value = "pending" THEN Store(u, r, value) ELSE u

\* reply_message
ReplyMessage(s, t, value, remove) ==
  LET r == Head(s.q[t].recvResult)
      popped == [s EXCEPT !.q[t].recvResult = Tail(@), !.r[r].receiver = None]
      u == IF remove THEN popped ELSE s
  IN IF remove /\ u.r[r].sender = None /\ ~u.r[r].hardware THEN FreeResult(u, r)
     ELSE IF u.r[r].value = "pending" THEN Store(u, r, value) ELSE u

\* cleanup_results: the results of the sender ...
CleanupSender(s, t) ==
  FoldLeft(RemoveFromSender, s, s.q[t].sendResult \o s.q[t].callbackResult)

\* ... and of the receiver
CleanupReceiver(s, t) ==
  LET Deny(u, r) == ReplyMessage(u, t, "denied", TRUE) IN FoldLeft(Deny, s, s.q[t].recvResult)

\* msg_queue_destroy
DestroyQueue(s, t) ==
  LET clean == CleanupReceiver(CleanupSender(s, t), t) IN
  [FoldLeft(FreeMessage, clean, clean.q[t].sent) EXCEPT !.q[t] = Destroyed]

\* queue_cleanup_window, for the window of the thread if it has one
CleanupWindow(s, t) ==
  LET msgs == SelectSeq(s.q[t].sent, LAMBDA m : m.win)
      others == [s.q[t] EXCEPT !.sent = SelectSeq(@, LAMBDA m : ~m.win), !.posted = 0, !.window = FALSE]
  IN IF s.q[t].window
       THEN FoldLeft(FreeMessage, [s EXCEPT !.q[t] = PostListBits(SendListBits(others))], msgs)
       ELSE s

-----------------------------------------------------------------------------
(* Requests.  The client's calls are next to them.                          *)

Live(t) == queue[t].state = "live"
Running(t) == Live(t) /\ ~queue[t].asleep
Top(t) == Head(frames[t])
At(t, place) == Running(t) /\ Top(t).at = place

Goto(t, place) == frames' = [frames EXCEPT ![t] = <<[@[1] EXCEPT !.at = place]>> \o Tail(@)]
Wait(t, r, block) ==
  frames' = [frames EXCEPT ![t] = <<[at |-> "mask", result |-> r, block |-> block]>> \o @]
Return(t) == frames' = [frames EXCEPT ![t] = Tail(@)]

\* application code: the body of the message loop or a window procedure
InApp(t) == Running(t) /\ Top(t).at \in {"app", "proc", "notify"}
MaySend(t) == InApp(t) /\ sends < MaxSends /\ sends' = sends + 1

\* alloc_message_result
NewResult(t, u, type, timed) ==
  [sender |-> t, receiver |-> u, msg |-> TRUE, value |-> "pending", timeout |-> timed,
   callback |-> type = "callback", hardware |-> type = "hook_ll"]

\* Mutant: the result is put at the end of the sender's list.
SentLast(t, u, type, timed, r) ==
  LET list == IF type = "callback" THEN "callbackResult" ELSE "sendResult"
      msg == [type |-> type, result |-> r, win |-> type # "hook_ll"]
      s == [Server EXCEPT !.r[r] = NewResult(t, u, type, timed), !.q[t][list] = Append(@, r),
                          !.q[u].sent = Append(@, msg)]
  IN Becomes(SetBits(s, u, {"sendmessage"}))

\* what send_message and send_hook_ll_message do for a message with a result
Sent(t, u, type, timed, r) ==
  LET list == IF type = "callback" THEN "callbackResult" ELSE "sendResult"
      msg == [type |-> type, result |-> r, win |-> type # "hook_ll"]
      s == [Server EXCEPT !.r[r] = NewResult(t, u, type, timed), !.q[t][list] = <<r>> \o @,
                          !.q[u].sent = Append(@, msg)]
  IN Becomes(SetBits(s, u, {"sendmessage"}))

Unused(r) == result[r] = Free /\ \A x \in 1 .. r - 1 : result[x] # Free

\* send_message from put_message_in_queue, of SendMessage, SendMessageTimeout
\* (with or without SMTO_BLOCK) and SendMessageCallback.  The client has looked
\* up the thread of the window before; the window may be gone by now.
SendMessage(t, u, type, timed, block) ==
  /\ MaySend(t) /\ t # u /\ Live(u)
  /\ \E r \in Result :
       /\ Unused(r)
       /\ Sent(t, u, type, timed, r)
       /\ IF type = "callback" THEN UNCHANGED frames ELSE Wait(t, r, block)

\* ... and of SendNotifyMessage
SendNotify(t, u) ==
  /\ MaySend(t) /\ t # u /\ Live(u)
  /\ LET msg == [type |-> "notify", result |-> None, win |-> TRUE] IN
     Becomes(SetBits([Server EXCEPT !.q[u].sent = Append(@, msg)], u, {"sendmessage"}))
  /\ UNCHANGED frames

\* ... and of PostMessage
PostMessage(t, u) ==
  /\ MaySend(t) /\ Live(u)
  /\ Becomes(SetBits([Server EXCEPT !.q[u].posted = @ + 1], u, {"postmessage"}))
  /\ UNCHANGED frames

\* post_quit_message
PostQuitMessage(t) ==
  /\ MaySend(t)
  /\ Becomes(SetBits([Server EXCEPT !.q[t].quit = TRUE], t, {"postmessage"}))
  /\ UNCHANGED frames

\* send_hardware_message of a key; a hook whose queue is hung is left out
SendHardware(t, hung) ==
  /\ MaySend(t)
  /\ IF Live(Hook) /\ ~hung
       THEN \E r \in Result : /\ Unused(r) /\ Sent(t, Hook, "hook_ll", TRUE, r)
                              /\ Wait(t, r, FALSE)
       ELSE Becomes(QueueHardware(Server)) /\ UNCHANGED frames

\* the masks of wait_message_reply
ReplyMask(t) == IF Top(t).block THEN {"smresult"} ELSE {"smresult", "sendmessage"}

\* ... which looks at all wake bits, those it does not wait for too
AfterMask(q) == IF "smresult" \in q.bits THEN "reply"
                ELSE IF "sendmessage" \in q.bits THEN "peek" ELSE "sleep"

\* Mutant: the masks are cleared although the client goes on to wait.
SetQueueMaskCleared(t) ==
  LET q == [queue[t] EXCEPT !.wakeMask = ReplyMask(t), !.changedMask = ReplyMask(t)] IN
  /\ At(t, "mask")
  /\ queue' = [queue EXCEPT ![t] = Satisfied(q)]
  /\ Goto(t, AfterMask(q))
  /\ UNCHANGED <<result, sends>>

\* set_queue_mask with skip_wait, from wait_message_reply
SetQueueMask(t) ==
  LET q == [queue[t] EXCEPT !.wakeMask = ReplyMask(t), !.changedMask = ReplyMask(t)] IN
  /\ At(t, "mask")
  /\ queue' = [queue EXCEPT ![t] = IF Signaled(q) THEN Satisfied(q) ELSE q]
  /\ Goto(t, AfterMask(q))
  /\ UNCHANGED <<result, sends>>

\* Mutant: the bit is cleared whatever the next result is.
GetMessageReplyClears(t) ==
  LET s == RemoveFromSender(Server, Head(queue[t].sendResult)) IN
  /\ At(t, "reply")
  /\ Becomes([s EXCEPT !.q[t] = Cleared(@, {"smresult"})])
  /\ Return(t)
  /\ UNCHANGED sends

\* get_message_reply with cancel, from retrieve_reply
GetMessageReply(t) ==
  LET q == queue[t]
      r == Head(q.sendResult)
      s == RemoveFromSender(Server, r)
      next == s.q[t].sendResult
  IN
  /\ At(t, "reply")
  /\ Becomes(IF next = <<>> \/ s.r[Head(next)].value = "pending"
                THEN [s EXCEPT !.q[t] = Cleared(@, {"smresult"})] ELSE s)
  /\ Return(t)
  /\ UNCHANGED sends

\* the wait for the queue
Sleep(t) ==
  /\ At(t, "sleep")
  /\ queue' = [queue EXCEPT ![t] = IF Signaled(@) THEN Satisfied(@) ELSE [@ EXCEPT !.asleep = TRUE]]
  /\ Goto(t, IF Len(frames[t]) = 1 THEN "get" ELSE "mask")
  /\ UNCHANGED <<result, sends>>

\* get_message finds a sent message: receive_message, and peek_message calls
\* the procedure for it
ReceiveMessage(t) ==
  LET msg == Head(queue[t].sent)
      r == msg.result
      s == [Server EXCEPT !.q[t] = SendListBits([@ EXCEPT !.sent = Tail(@)])]
  IN
  /\ Running(t) /\ Top(t).at \in {"app", "get", "peek"} /\ queue[t].sent # <<>>
  /\ IF r = None THEN Becomes(s)
     ELSE Becomes([s EXCEPT !.q[t].recvResult = <<r>> \o @, !.r[r].msg = FALSE])
  /\ LET caller == [Top(t) EXCEPT !.at = IF @ = "app" THEN "get" ELSE @]
         place == CASE msg.type = "notify" -> "notify" [] msg.type = "hook_ll" -> "hook"
                    [] OTHER -> "proc"
         proc == IF msg.type = "callback_result" THEN <<>>
                 ELSE <<[at |-> place, result |-> r, block |-> FALSE]>>
     IN frames' = [frames EXCEPT ![t] = proc \o <<caller>> \o Tail(@)]
  /\ UNCHANGED sends

\* get_hardware_message, which drops the messages of a window that is gone,
\* and release_hardware_message of the one that is found
InputLeft(q) == IF q.window /\ q.input > 0 THEN q.input - 1 ELSE 0
GetHardware(q) ==
  IF InputLeft(q) > 0 THEN [q EXCEPT !.input = @ - 1]
  ELSE Cleared([q EXCEPT !.input = 0], {"input"})

\* get_message for GetMessage, without sent messages: a posted message, then
\* the quit message, then a hardware message, or the masks for the wait
GetMessage(t) ==
  LET q == [queue[t] EXCEPT !.changed = @ \ {"postmessage", "input"}]
      found == q.posted > 0 \/ q.quit \/ (q.window /\ q.input > 0)
  IN
  /\ Running(t) /\ Top(t).at \in {"app", "get"} /\ queue[t].sent = <<>>
  /\ queue' = [queue EXCEPT ![t] =
                 IF q.posted > 0 THEN PostListBits([q EXCEPT !.posted = @ - 1])
                 ELSE IF q.quit THEN PostListBits([q EXCEPT !.quit = FALSE])
                 ELSE IF found THEN GetHardware(q)
                 ELSE [GetHardware(q) EXCEPT !.wakeMask = {"sendmessage"}, !.changedMask = AllInput]]
  /\ Goto(t, IF found THEN "app" ELSE "sleep")
  /\ UNCHANGED <<result, sends>>

\* get_message for process_sent_messages, which asks for sent messages only
\* but gets the quit message too
PeekMessage(t) ==
  LET q == queue[t] IN
  /\ At(t, "peek") /\ q.sent = <<>>
  /\ queue' = [queue EXCEPT ![t] =
                 IF q.quit THEN PostListBits([q EXCEPT !.quit = FALSE])
                 ELSE [q EXCEPT !.wakeMask = {}, !.changedMask = {}]]
  /\ Goto(t, "mask")
  /\ UNCHANGED <<result, sends>>

\* the hook lets the message pass or rejects it
ReturnFromHook(t, verdict) ==
  /\ At(t, "hook") /\ Goto(t, verdict) /\ UNCHANGED <<queue, result, sends>>

\* the procedure returns, or the hook has, and reply_message with "remove" follows
ReturnFromProc(t, value) ==
  /\ At(t, "proc") \/ At(t, IF value = "zero" THEN "accept" ELSE "reject")
  /\ Becomes(ReplyMessage(Server, t, value, TRUE))
  /\ Return(t)
  /\ UNCHANGED sends

\* SendNotifyMessage has no result
ReturnFromNotify(t) ==
  /\ At(t, "notify") /\ Return(t) /\ UNCHANGED <<queue, result, sends>>

\* ReplyMessage in a window procedure
EarlyReply(t, value) ==
  /\ At(t, "proc") /\ result[Top(t).result].value = "pending"
  /\ Becomes(ReplyMessage(Server, t, value, FALSE))
  /\ UNCHANGED <<frames, sends>>

\* result_timeout
ResultTimeout(r) ==
  LET u == result[r].receiver
      i == CHOOSE k \in DOMAIN queue[u].sent : queue[u].sent[k].result = r
      unsent == [Server EXCEPT !.q[u].sent[i].result = None]
      s == IF result[r].msg
             THEN [RemoveMessage(unsent, u, i) EXCEPT !.r[r].msg = FALSE, !.r[r].receiver = None]
             ELSE Server
  IN
  /\ result[r].timeout
  /\ Becomes(Store([s EXCEPT !.r[r].timeout = FALSE], r, "timeout"))
  /\ UNCHANGED <<frames, sends>>

\* destroy_window, with detach_window_thread
DestroyWindow(t) ==
  /\ InApp(t) /\ queue[t].window
  /\ Becomes(CleanupWindow(Server, t))
  /\ UNCHANGED <<frames, sends>>

\* The thread ends; thread_detach has closed the handle of the queue, so that
\* free_msg_queue destroys it.
ExitThread(t) ==
  /\ InApp(t)
  /\ Becomes(DestroyQueue(CleanupWindow(Server, t), t))
  /\ frames' = [frames EXCEPT ![t] = <<>>]
  /\ UNCHANGED sends

\* The thread is killed: the handle in its process keeps the queue ...
KillThread(t) ==
  /\ Live(t)
  /\ Becomes([CleanupWindow(Server, t) EXCEPT !.q[t].state = "orphan", !.q[t].asleep = FALSE])
  /\ frames' = [frames EXCEPT ![t] = <<>>]
  /\ UNCHANGED sends

\* ... until the process ends.
CloseHandles(t) ==
  /\ queue[t].state = "orphan"
  /\ Becomes(DestroyQueue(Server, t))
  /\ UNCHANGED <<frames, sends>>

Client(t) ==
  \/ SetQueueMask(t) \/ GetMessageReply(t) \/ Sleep(t) \/ ReceiveMessage(t)
  \/ GetMessage(t) \/ PeekMessage(t) \/ ReturnFromNotify(t)
  \/ \E value \in {"zero", "nonzero"} : ReturnFromProc(t, value)
  \/ \E verdict \in {"accept", "reject"} : ReturnFromHook(t, verdict)

\* A timeout need not ever expire: TRUE stands for INFINITE too.
App(t) ==
  \/ \E u \in Thread :
       \/ \E block \in BOOLEAN : SendMessage(t, u, "unicode", TRUE, block)
       \/ SendMessage(t, u, "callback", FALSE, FALSE)
       \/ SendNotify(t, u) \/ PostMessage(t, u)
  \/ \E hung \in BOOLEAN : SendHardware(t, hung)
  \/ EarlyReply(t, "zero") \/ PostQuitMessage(t) \/ DestroyWindow(t) \/ ExitThread(t)

Next ==
  \/ \E t \in Thread : Client(t) \/ App(t) \/ KillThread(t) \/ CloseHandles(t)
  \/ \E r \in Result : ResultTimeout(r)

Spec == Init /\ [][Next]_vars

\* Threads run, and the procedures they call return.
FairSpec == Spec /\ \A t \in Thread : WF_vars(Client(t))

-----------------------------------------------------------------------------
(* Properties.                                                              *)

Occurs(x, q) == Cardinality({i \in DOMAIN q : q[i] = x})

ResultsOf(t, places) ==
  LET fs == SelectSeq(frames[t], LAMBDA f : f.result # None /\ f.at \in places) IN
  [i \in DOMAIN fs |-> fs[i].result]

\* A result is on a list of the queue it names as its sender, and with its
\* message or on the stack of the queue it names as its receiver, and nowhere
\* else; it is freed when it names neither, and a timeout waits only for a
\* result without an answer (the assertion of result_timeout).  The results on
\* the two stacks of a queue are those of the calls on the stack of its client:
\* a client that replies to the message it handles, or asks for the reply to
\* the one it sent, means the result on top.
ResultsOwned ==
  /\ \A r \in Result, t \in Thread :
       LET x == result[r]
           q == queue[t]
       IN
       /\ Occurs(r, q.sendResult \o q.callbackResult) = IF x.sender = t THEN 1 ELSE 0
       /\ Cardinality({i \in DOMAIN q.sent : q.sent[i].result = r})
            = IF x.receiver = t /\ x.msg THEN 1 ELSE 0
       /\ Occurs(r, q.recvResult) = IF x.receiver = t /\ ~x.msg THEN 1 ELSE 0
       /\ x.sender = None /\ x.receiver = None => x = Free
       /\ x.timeout => x.value = "pending"
  /\ \A t \in Thread : Live(t) =>
       /\ queue[t].sendResult = ResultsOf(t, {"mask", "peek", "reply", "sleep"})
       /\ queue[t].recvResult = ResultsOf(t, {"proc", "hook", "accept", "reject"})

\* The wake bits a thread sleeps on say whether there are sent messages, and
\* posted or quit messages; QS_SMRESULT is set when the last message it sent has
\* its answer (and may be set before: alloc_message_result does not clear it).
BitsMatch ==
  \A t \in Thread :
    LET q == queue[t] IN
    /\ "sendmessage" \in q.bits <=> q.sent # <<>>
    /\ "postmessage" \in q.bits <=> q.posted > 0 \/ q.quit
    /\ q.sendResult # <<>> /\ result[Head(q.sendResult)].value # "pending" => "smresult" \in q.bits

\* The first answer stays: a result that has a value keeps it until it is freed.
\* A hardware message that waited for the hook is queued when the result gets
\* its answer, whichever it is and however it comes, unless that answer is the
\* return of a hook that has rejected the message or there is no window for it.
OneAnswer ==
  [][LET decided == {r \in Result : result[r].hardware /\ ~result'[r].hardware}
         added == queue'[Focus].input - queue[Focus].input
         rejected == \E t \in Thread : /\ At(t, "reject") /\ frames'[t] = Tail(frames[t])
                                       /\ decided = {Top(t).result}
     IN
     /\ \A r \in Result : result[r].value # "pending" =>
                             result'[r] = Free \/ result'[r].value = result[r].value
     /\ decided # {} /\ queue'[Focus].window =>
          added = Cardinality(decided) \/ (rejected /\ added = 0)]_vars

\* "Wait until a sent message gets replied to" (wait_message_reply): a client asks
\* for the reply to the last message it sent when that message has one.  It does
\* not hold with three sends, one of them nested: alloc_message_result leaves
\* the QS_SMRESULT of an earlier result set, and the nested send is cancelled.
RepliedWhenAsked ==
  \A t \in Thread : At(t, "reply") => result[Head(queue[t].sendResult)].value # "pending"

\* After the last send all calls return, also when threads send to each other:
\* with an answer or, for a nested send that finds the QS_SMRESULT of another
\* one, without.  There are two exceptions.  A thread that was killed with a
\* message that it had not answered: the result stays with the queue, which its
\* process still holds.  And SMTO_BLOCK: who waits with it is not woken for the
\* message of another who waits.
SendReturns ==
  <>[](\/ \A t \in Thread : Live(t) => queue[t].sendResult = <<>>
       \/ \E u \in Thread : queue[u].state = "orphan" /\ queue[u].recvResult \o queue[u].sent # <<>>
       \/ \E u \in Thread : /\ Live(u) /\ queue[u].asleep /\ Top(u).block
                            /\ \E i \in DOMAIN queue[u].sent : queue[u].sent[i].result # None)

=============================================================================

------------------------- MODULE WakeChannel_proofs -------------------------
(***************************************************************************)
(* Two arguments about wake_info and its completion, for every behaviour of  *)
(* the server and the client.                                                *)
(*                                                                         *)
(* Until replies cross, the channel does what a pipe does: it implements     *)
(* WakePipe, and the reply of kill_thread reaches its thread.  This rests on *)
(* where a reply can be: the stack of waits of the server is the stack of    *)
(* calls of the client, except for the top call, whose reply may be on its   *)
(* way.                                                                      *)
(*                                                                         *)
(* When replies cross, a call may be left without its reply, or return with  *)
(* that of another call of the same depth.  But as long as there are no      *)
(* stray replies, the replies that are on their way or kept by a call are at *)
(* most the calls whose wait has ended: the program, which makes its next    *)
(* call when the last one has returned, never meets a reply of the last one. *)
(***************************************************************************)
EXTENDS WakeChannel, SequenceTheorems, TLAPS

Reply == [cookie : 0 .. 3, signaled : {"object", "timeout", "killed"}]
Frame == {f \in [cookie : Cookie, pc : {"read", "copy", "check", "back"},
                 got : Reply, stolen : Seq(Reply)] :
            f.pc = "back" => f.stolen # <<>>}

\* The stacks of waits, and of calls: the handler's on top of the program's.
Stack == {<<>>, <<1>>, <<2>>, <<2, 1>>}

Holds(s, c) == \E i \in DOMAIN s : s[i] = c

Cookies(s) == [i \in 1 .. Len(s) |-> s[i].cookie]

\* Only the call on top is doing anything but wait for its reply.
LowerRead(s) == \A i \in 2 .. Len(s) : s[i].pc = "read"

Types ==
  /\ waits \in Seq(Cookie)
  /\ frames \in Seq(Frame)
  /\ Cookies(frames) \in Stack
  /\ alive \in BOOLEAN
  /\ done \in Nat
  /\ slot \in Reply
  /\ ended \in [Cookie -> {"object", "timeout", "killed"}]
  /\ ~alive => frames = <<>>
  /\ frames # <<>> /\ Tail(frames) # <<>> => Head(Tail(frames)).pc # "copy"

\* A reply is in wake_info, or the client has read it and not looked at it yet.
OnItsWay == done > 0 \/ At("copy") \/ At("check")

Message == IF At("check") THEN Head(frames).got ELSE slot

\* At most one is.
Single == done = 0 \/ (done = 1 /\ (frames = <<>> \/ At("read")))

\* The places a reply can be in, while the client runs.  Either none is on its
\* way, or one that SELECT_SIGNAL_AND_WAIT left behind: each call is pending.
NoReply ==
  /\ Single /\ ~At("back")
  /\ OnItsWay => Message.cookie = Junk
  /\ Cookies(frames) = waits

\* The call on top has seen the status its wait ended with.
Seen == Head(frames).got.signaled = ended[Head(frames).cookie]

\* The reply to the call on top is, or has been seen and others go back.
TopReply ==
  /\ frames # <<>> /\ Single
  /\ Tail(Cookies(frames)) = waits
  /\ OnItsWay \/ At("back")
  /\ OnItsWay => Message.cookie = Head(frames).cookie
  /\ LET m == IF At("back") THEN Head(frames).got ELSE Message
     IN  m.signaled = ended[Head(frames).cookie]

\* The reply of kill_thread is, and maybe others before it.  A call that has
\* read its own reply has another one below it.
KillReply ==
  /\ frames # <<>> /\ waits = <<>>
  /\ \/ slot.cookie = Killed /\ (done > 0 \/ At("copy"))
     \/ At("check") /\ Head(frames).got.cookie = Killed
  /\ At("check") /\ Head(frames).got.cookie = Head(frames).cookie
       => Seen /\ Tail(frames) # <<>>
  /\ At("back") => Seen

\* Holds until replies cross.
ChannelInv ==
  /\ waits \in Stack
  /\ LowerRead(frames)
  /\ alive => NoReply \/ TopReply \/ KillReply
  /\ killed /\ alive => sigquit \/ KillReply

\* How many replies a call has read and not passed on, and how many the calls
\* have.
Held(f) == IF f.pc = "read" THEN Len(f.stolen) ELSE Len(f.stolen) + 1
Taken(s) == IF s = <<>> THEN 0
            ELSE Held(Head(s)) + (IF Tail(s) = <<>> THEN 0 ELSE Held(Head(Tail(s))))

\* There are at most as many replies as calls whose wait has ended.
Conserved == done + Taken(frames) + Len(waits) <= Len(frames)

\* The program's call is there, and its wait has ended.
Answered == Holds(Cookies(frames), 1) /\ ~Holds(waits, 1)

\* A reply with the program's cookie is the one to that call: a says whether
\* there is such a call, e with what status its wait ended.
Own(r, a, e) == r.cookie = 1 => a /\ r.signaled = e
OwnFrame(f, a, e) ==
  /\ f.pc \in {"check", "back"} => Own(f.got, a, e)
  /\ \A j \in 1 .. Len(f.stolen) : Own(f.stolen[j], a, e)
OwnFrames(s, a, e) == \A i \in 1 .. Len(s) : OwnFrame(s[i], a, e)

\* Holds while the client runs and there are no stray replies.
OwnInv ==
  /\ Conserved
  /\ done > 0 \/ At("copy") => Own(slot, Answered, ended[1])
  /\ OwnFrames(frames, Answered, ended[1])
  /\ Holds(waits, 1) => Holds(Cookies(frames), 1)
  /\ \A i \in 1 .. Len(waits) : waits[i] = 1 => i = Len(waits)

-----------------------------------------------------------------------------
(* Stacks.                                                                  *)

LEMMA EmptyHolds == \A c : ~Holds(<<>>, c)
BY DEF Holds

LEMMA SingleHolds == \A c, d : Holds(<<d>>, c) <=> c = d
<1> SUFFICES ASSUME NEW c, NEW d PROVE Holds(<<d>>, c) <=> c = d
  OBVIOUS
<1>1. DOMAIN <<d>> = {1} /\ <<d>>[1] = d
  OBVIOUS
<1> QED BY <1>1 DEF Holds

LEMMA StackHolds == \A s \in Stack : \A c : Holds(s, c) => c \in Cookie
<1> SUFFICES ASSUME NEW s \in Stack, NEW c, Holds(s, c) PROVE c \in Cookie
  OBVIOUS
<1>1. CASE s = <<2, 1>>
  <2>1. DOMAIN s = {1, 2} /\ s[1] = 2 /\ s[2] = 1
    BY <1>1
  <2> QED BY <2>1 DEF Holds, Cookie
<1> QED BY <1>1, EmptyHolds, SingleHolds DEF Stack, Cookie

LEMMA StackPop ==
  ASSUME NEW s \in Stack, s # <<>>
  PROVE  /\ Head(s) \in Cookie /\ Tail(s) \in Stack
         /\ \A c \in Cookie : Holds(s, c) <=> c = Head(s) \/ Holds(Tail(s), c)
         /\ ~Holds(Tail(s), Head(s))
<1>1. CASE s = <<1>>
  <2>1. Head(s) = 1 /\ Tail(s) = <<>>
    BY <1>1
  <2> QED BY <1>1, <2>1, EmptyHolds, SingleHolds DEF Stack, Cookie
<1>2. CASE s = <<2>>
  <2>1. Head(s) = 2 /\ Tail(s) = <<>>
    BY <1>2
  <2> QED BY <1>2, <2>1, EmptyHolds, SingleHolds DEF Stack, Cookie
<1>3. CASE s = <<2, 1>>
  <2>1. Head(s) = 2 /\ Tail(s) = <<1>>
    BY <1>3
  <2>2. \A c \in Cookie : Holds(s, c)
    <3>1. s[1] = 2 /\ s[2] = 1 /\ 1 \in DOMAIN s /\ 2 \in DOMAIN s
      BY <1>3
    <3> QED BY <3>1 DEF Cookie, Holds
  <2>3. \A c \in Cookie : Holds(Tail(s), c) <=> c = 1
    <3>1. \A c : Holds(<<1>>, c) <=> c = 1
      BY SingleHolds, Zenon
    <3> QED BY <2>1, <3>1, Zenon
  <2> QED BY <2>1, <2>2, <2>3 DEF Stack, Cookie
<1> QED BY <1>1, <1>2, <1>3 DEF Stack

LEMMA StackPush ==
  ASSUME NEW s \in Stack, s # <<>> => Head(s) = 1, NEW c \in Cookie, c = 2 \/ s = <<>>
  PROVE  /\ <<c>> \o s \in Stack
         /\ \A d \in Cookie : Holds(<<c>> \o s, d) <=> d = c \/ Holds(s, d)
         /\ ~Holds(s, c)
<1>1. CASE s = <<>>
  <2>1. <<c>> \o s = <<c>>
    BY <1>1
  <2> QED BY <1>1, <2>1, EmptyHolds, SingleHolds DEF Stack, Cookie
<1>2. CASE s # <<>>
  <2>1. s = <<1>> /\ c = 2
    BY <1>2 DEF Stack
  <2>2. <<c>> \o s = <<2, 1>>
    <3>1. <<2>> \o <<1>> = <<2, 1>>
      <4> DEFINE r == <<2>> \o <<1>>
      <4>1. <<2>> \in Seq(Nat) /\ <<1>> \in Seq(Nat)
        OBVIOUS
      <4>2. r \in Seq(Nat) /\ Len(r) = 2 /\ r[1] = 2 /\ r[2] = 1
        BY <4>1
      <4>3. <<2, 1>> \in Seq(Nat) /\ Len(<<2, 1>>) = 2 /\ <<2, 1>>[1] = 2 /\ <<2, 1>>[2] = 1
        OBVIOUS
      <4> HIDE DEF r
      <4>4. \A i \in 1 .. Len(r) : r[i] = <<2, 1>>[i]
        BY <4>2, <4>3
      <4>5. r = <<2, 1>>
        BY <4>2, <4>3, <4>4, SeqEqual
      <4> QED BY <4>5 DEF r
    <3> QED BY <2>1, <3>1, Zenon
  <2>3. \A d \in Cookie : Holds(<<c>> \o s, d)
    <3> DEFINE r == <<c>> \o s
    <3>1. r[1] = 2 /\ r[2] = 1 /\ 1 \in DOMAIN r /\ 2 \in DOMAIN r
      BY <2>2
    <3> HIDE DEF r
    <3>2. \A d \in Cookie : Holds(r, d)
      BY <3>1 DEF Cookie, Holds
    <3> QED BY <3>2 DEF r
  <2>4. \A d \in Cookie : Holds(s, d) <=> d = 1
    <3>1. \A d : Holds(<<1>>, d) <=> d = 1
      BY SingleHolds, Zenon
    <3> QED BY <2>1, <3>1, Zenon
  <2> QED BY <2>1, <2>2, <2>3, <2>4 DEF Stack, Cookie
<1> QED BY <1>1, <1>2

LEMMA CookiesSeq ==
  ASSUME NEW s \in Seq(Frame)
  PROVE  /\ Cookies(s) \in Seq(Cookie) /\ Len(Cookies(s)) = Len(s)
         /\ \A i \in 1 .. Len(s) : Cookies(s)[i] = s[i].cookie
         /\ Cookies(s) = <<>> <=> s = <<>>
<1>1. \A i \in 1 .. Len(s) : s[i].cookie \in Cookie
  <2>1. \A f \in Frame : f.cookie \in Cookie
    BY DEF Frame
  <2>2. \A i \in 1 .. Len(s) : s[i] \in Frame
    OBVIOUS
  <2> QED BY <2>1, <2>2
<1>2. Cookies(s) \in Seq(Cookie) /\ Len(Cookies(s)) = Len(s)
  BY <1>1 DEF Cookies
<1>3. \A i \in 1 .. Len(s) : Cookies(s)[i] = s[i].cookie
  BY DEF Cookies
<1>4. (s = <<>> <=> Len(s) = 0) /\ (Cookies(s) = <<>> <=> Len(Cookies(s)) = 0)
  BY <1>2, EmptySeq
<1> QED BY <1>2, <1>3, <1>4

LEMMA CookiesPop ==
  ASSUME NEW s \in Seq(Frame), s # <<>>
  PROVE  /\ Cookies(s) # <<>> /\ Head(Cookies(s)) = Head(s).cookie
         /\ Cookies(Tail(s)) = Tail(Cookies(s))
<1>1. Tail(s) \in Seq(Frame) /\ Len(Tail(s)) = Len(s) - 1 /\ Len(s) \in Nat /\ Len(s) # 0
  OBVIOUS
<1>2. /\ Cookies(s) \in Seq(Cookie) /\ Len(Cookies(s)) = Len(s) /\ Cookies(s) # <<>>
      /\ \A i \in 1 .. Len(s) : Cookies(s)[i] = s[i].cookie
  BY CookiesSeq
<1>3. /\ Cookies(Tail(s)) \in Seq(Cookie) /\ Len(Cookies(Tail(s))) = Len(s) - 1
      /\ \A i \in 1 .. Len(s) - 1 : Cookies(Tail(s))[i] = Tail(s)[i].cookie
  BY <1>1, CookiesSeq
<1>4. Head(Cookies(s)) = Head(s).cookie
  BY <1>1, <1>2
<1>5. /\ Tail(Cookies(s)) \in Seq(Cookie) /\ Len(Tail(Cookies(s))) = Len(s) - 1
      /\ \A i \in 1 .. Len(s) - 1 : Tail(Cookies(s))[i] = Cookies(s)[i + 1]
  BY <1>2
<1>6. \A i \in 1 .. Len(s) - 1 : Tail(s)[i] = s[i + 1] /\ i + 1 \in 1 .. Len(s)
  BY <1>1
<1>7. \A i \in 1 .. Len(s) - 1 : Cookies(Tail(s))[i] = Tail(Cookies(s))[i]
  BY <1>2, <1>3, <1>5, <1>6
<1>8. Cookies(Tail(s)) = Tail(Cookies(s))
  BY <1>3, <1>5, <1>7, SeqEqual
<1> QED BY <1>2, <1>4, <1>8

LEMMA CookiesPush ==
  ASSUME NEW s \in Seq(Frame), NEW f \in Frame
  PROVE  Cookies(<<f>> \o s) = <<f.cookie>> \o Cookies(s)
<1>1. /\ <<f>> \o s \in Seq(Frame) /\ Len(<<f>> \o s) = Len(s) + 1 /\ Len(s) \in Nat
      /\ \A i \in 1 .. Len(s) + 1 : (<<f>> \o s)[i] = IF i = 1 THEN f ELSE s[i - 1]
  OBVIOUS
<1>2. /\ Cookies(s) \in Seq(Cookie) /\ Len(Cookies(s)) = Len(s)
      /\ \A i \in 1 .. Len(s) : Cookies(s)[i] = s[i].cookie
  BY CookiesSeq
<1>3. /\ Cookies(<<f>> \o s) \in Seq(Cookie) /\ Len(Cookies(<<f>> \o s)) = Len(s) + 1
      /\ \A i \in 1 .. Len(s) + 1 : Cookies(<<f>> \o s)[i] = (<<f>> \o s)[i].cookie
  BY <1>1, CookiesSeq
<1>4. f.cookie \in Cookie
  BY DEF Frame
<1>5. /\ <<f.cookie>> \o Cookies(s) \in Seq(Cookie)
      /\ Len(<<f.cookie>> \o Cookies(s)) = Len(s) + 1
      /\ \A i \in 1 .. Len(s) + 1 :
           (<<f.cookie>> \o Cookies(s))[i] = IF i = 1 THEN f.cookie ELSE Cookies(s)[i - 1]
  BY <1>1, <1>2, <1>4
<1>6. ASSUME NEW i \in 1 .. Len(s) + 1
      PROVE  Cookies(<<f>> \o s)[i] = (<<f.cookie>> \o Cookies(s))[i]
  <2>1. CASE i = 1
    BY <1>1, <1>3, <1>5, <2>1
  <2>2. CASE i # 1
    <3>1. i - 1 \in 1 .. Len(s)
      BY <1>1, <2>2
    <3> QED BY <1>1, <1>2, <1>3, <1>5, <2>2, <3>1
  <2> QED BY <2>1, <2>2
<1> QED BY <1>3, <1>5, <1>6, SeqEqual

\* The top call changes, but not its cookie.
LEMMA CookiesTop ==
  ASSUME NEW s \in Seq(Frame), s # <<>>, NEW f \in Frame, f.cookie = Head(s).cookie
  PROVE  Cookies(<<f>> \o Tail(s)) = Cookies(s)
<1>1. Tail(s) \in Seq(Frame)
  OBVIOUS
<1>2. Cookies(<<f>> \o Tail(s)) = <<f.cookie>> \o Cookies(Tail(s))
  BY <1>1, CookiesPush
<1>3. Cookies(s) \in Seq(Cookie) /\ Cookies(s) # <<>>
  BY CookiesSeq
<1>4. Cookies(s) = <<Head(Cookies(s))>> \o Tail(Cookies(s))
  BY <1>3
<1> QED BY <1>2, <1>4, CookiesPop

-----------------------------------------------------------------------------
(* The calls of the client.                                                 *)

LEMMA FrameHead ==
  ASSUME NEW s \in Seq(Frame), s # <<>>
  PROVE  Head(s) \in Frame /\ Tail(s) \in Seq(Frame)
OBVIOUS

LEMMA FramePush ==
  ASSUME NEW s \in Seq(Frame), NEW f \in Frame
  PROVE  /\ <<f>> \o s \in Seq(Frame) /\ <<f>> \o s # <<>>
         /\ Head(<<f>> \o s) = f /\ Tail(<<f>> \o s) = s
         /\ (\A i \in 1 .. Len(s) : s[i].pc = "read") => LowerRead(<<f>> \o s)
<1> DEFINE r == <<f>> \o s
<1>1. /\ r \in Seq(Frame) /\ Len(r) = Len(s) + 1 /\ Len(s) \in Nat /\ r # <<>>
      /\ Head(r) = f /\ Tail(r) = s
      /\ \A i \in 2 .. Len(s) + 1 : r[i] = s[i - 1] /\ i - 1 \in 1 .. Len(s)
  OBVIOUS
<1> HIDE DEF r
<1>2. (\A i \in 1 .. Len(s) : s[i].pc = "read") => LowerRead(r)
  BY <1>1 DEF LowerRead
<1> QED BY <1>1, <1>2 DEF r

\* The call on top changes.
LEMMA TopChanges ==
  ASSUME NEW s \in Seq(Frame), s # <<>>, LowerRead(s), NEW f \in Frame,
         f.cookie = Head(s).cookie
  PROVE  LET r == <<f>> \o Tail(s) IN
         /\ r \in Seq(Frame) /\ r # <<>> /\ Head(r) = f
         /\ Cookies(r) = Cookies(s) /\ LowerRead(r)
<1>1. Tail(s) \in Seq(Frame)
  BY FrameHead
<1>2. \A i \in 1 .. Len(Tail(s)) : Tail(s)[i].pc = "read"
  <2>1. \A i \in 1 .. Len(Tail(s)) : Tail(s)[i] = s[i + 1] /\ i + 1 \in 2 .. Len(s)
    OBVIOUS
  <2> QED BY <2>1 DEF LowerRead
<1> QED BY <1>1, <1>2, FramePush, CookiesTop

\* The call on top returns.
LEMMA TopReturns ==
  ASSUME NEW s \in Seq(Frame), s # <<>>, LowerRead(s)
  PROVE  /\ Tail(s) \in Seq(Frame) /\ Cookies(Tail(s)) = Tail(Cookies(s))
         /\ LowerRead(Tail(s))
         /\ Tail(s) # <<>> => Head(Tail(s)).pc = "read"
<1>1. Tail(s) \in Seq(Frame) /\ Len(s) \in Nat /\ Len(Tail(s)) = Len(s) - 1
  OBVIOUS
<1>2. \A i \in 1 .. Len(Tail(s)) : Tail(s)[i] = s[i + 1] /\ i + 1 \in 2 .. Len(s)
  OBVIOUS
<1>3. \A i \in 1 .. Len(Tail(s)) : Tail(s)[i].pc = "read"
  BY <1>2 DEF LowerRead
<1>4. LowerRead(Tail(s))
  BY <1>1, <1>3 DEF LowerRead
<1>5. Tail(s) # <<>> => Head(Tail(s)) = Tail(s)[1] /\ 1 \in 1 .. Len(Tail(s))
  BY <1>1
<1> QED BY <1>1, <1>3, <1>4, <1>5, CookiesPop


LEMMA FramesShort ==
  ASSUME NEW s \in Seq(Frame), Cookies(s) \in Stack
  PROVE  /\ Len(s) \in {0, 1, 2}
         /\ s # <<>> /\ Head(s).cookie = 1 => Tail(s) = <<>>
<1>1. Len(Cookies(s)) = Len(s)
  BY CookiesSeq
<1>2. Len(<<>>) = 0 /\ Len(<<1>>) = 1 /\ Len(<<2>>) = 1 /\ Len(<<2, 1>>) = 2
  OBVIOUS
<1>3. Len(s) \in {0, 1, 2}
  BY <1>1, <1>2 DEF Stack
<1>4. ASSUME s # <<>>, Head(s).cookie = 1 PROVE Tail(s) = <<>>
  <2>1. Cookies(s) # <<>> /\ Head(Cookies(s)) = 1
    BY <1>4, CookiesPop
  <2>2. Head(<<2>>) = 2 /\ Head(<<2, 1>>) = 2
    OBVIOUS
  <2>3. Cookies(s) = <<1>>
    BY <2>1, <2>2 DEF Stack
  <2>4. Len(s) = 1
    BY <1>1, <1>2, <2>3
  <2>5. Tail(s) \in Seq(Frame) /\ Len(Tail(s)) = 0
    BY <1>4, <2>4
  <2> QED BY <2>5, EmptySeq
<1> QED BY <1>3, <1>4

\* A frame is a record with its four fields.
LEMMA FrameFields ==
  ASSUME NEW f \in Frame
  PROVE  /\ f.cookie \in Cookie /\ f.pc \in {"read", "copy", "check", "back"}
         /\ f.got \in Reply /\ f.stolen \in Seq(Reply)
         /\ f.pc = "back" => f.stolen # <<>>
BY DEF Frame

-----------------------------------------------------------------------------
(* The steps of the client, and the types.                                  *)

LEMMA InitTypes == Init => Types
<1> SUFFICES ASSUME Init PROVE Types
  OBVIOUS
<1>1. frames = <<>> /\ frames \in Seq(Frame) /\ waits \in Seq(Cookie)
  BY DEF Init
<1>2. Cookies(frames) = <<>>
  BY <1>1, CookiesSeq
<1> QED BY <1>1, <1>2 DEF Init, Types, Stack, Reply, Killed, Cookie

\* A step that changes the call on top.
LEMMA TopStep ==
  ASSUME Types, frames # <<>>, NEW f \in Frame, f.cookie = Head(frames).cookie, SetTop(f)
  PROVE  /\ frames' \in Seq(Frame) /\ frames' # <<>> /\ Head(frames') = f
         /\ Tail(frames') = Tail(frames) /\ Len(frames') = Len(frames)
         /\ Cookies(frames') = Cookies(frames) /\ alive
         /\ LowerRead(frames) => LowerRead(frames')
<1>1. frames \in Seq(Frame) /\ Tail(frames) \in Seq(Frame) /\ alive
  BY FrameHead DEF Types
<1>2. /\ frames' \in Seq(Frame) /\ frames' # <<>> /\ Head(frames') = f
      /\ Tail(frames') = Tail(frames)
  BY <1>1, FramePush DEF SetTop
<1>3. Cookies(frames') = Cookies(frames)
  BY <1>1, CookiesTop DEF SetTop
<1>4. Len(frames') = Len(frames)
  BY <1>1, <1>2, <1>3, CookiesSeq
<1>5. LowerRead(frames) => LowerRead(frames')
  BY <1>1, TopChanges DEF SetTop
<1> QED BY <1>1, <1>2, <1>3, <1>4, <1>5

LEMMA ReadStep ==
  ASSUME Types, Read
  PROVE  \E f \in Frame :
           /\ f.cookie = Head(frames).cookie /\ SetTop(f) /\ f.pc = "copy"
           /\ f.stolen = Head(frames).stolen
           /\ frames # <<>> /\ At("read") /\ done > 0 /\ done' = done - 1
           /\ UNCHANGED <<waits, slot, alive, ended, killed, sigquit, crossed, stray>>
<1> DEFINE f == [Head(frames) EXCEPT !.pc = "copy"]
<1>1. Head(frames) \in Frame /\ frames # <<>>
  BY FrameHead DEF Read, At, Types
<1>2. f \in Frame /\ f.cookie = Head(frames).cookie /\ f.pc = "copy" /\ f.stolen = Head(frames).stolen
  BY <1>1 DEF Frame
<1>3. /\ At("read") /\ done > 0 /\ done' = done - 1 /\ SetTop(f)
      /\ UNCHANGED <<waits, slot, alive, ended, killed, sigquit, crossed, stray>>
  BY DEF Read, serverVars, history
<1> QED BY <1>1, <1>2, <1>3

LEMMA CopyStep ==
  ASSUME Types, Copy
  PROVE  \E f \in Frame :
           /\ f.cookie = Head(frames).cookie /\ SetTop(f) /\ f.pc = "check"
           /\ f.stolen = Head(frames).stolen /\ f.got = slot
           /\ frames # <<>> /\ At("copy")
           /\ UNCHANGED <<waits, slot, done, alive, ended, killed, sigquit, crossed, stray>>
<1> DEFINE f == [Head(frames) EXCEPT !.pc = "check", !.got = slot]
<1>1. Head(frames) \in Frame /\ frames # <<>> /\ slot \in Reply
  BY FrameHead DEF Copy, At, Types
<1>2. /\ f \in Frame /\ f.cookie = Head(frames).cookie /\ f.pc = "check"
      /\ f.stolen = Head(frames).stolen /\ f.got = slot
  BY <1>1 DEF Frame
<1>3. /\ At("copy") /\ SetTop(f)
      /\ UNCHANGED <<waits, slot, done, alive, ended, killed, sigquit, crossed, stray>>
  BY DEF Copy, serverVars, history
<1> QED BY <1>1, <1>2, <1>3

\* __wait_select_reply aborts the thread, returns, finds that it has replies to
\* put back, or keeps one.
CheckAborts ==
  Head(frames).got.cookie = Killed /\ alive' = FALSE /\ frames' = <<>>
CheckReturns ==
  /\ Head(frames).got.cookie = Head(frames).cookie
  /\ frames' = Tail(frames) /\ UNCHANGED alive
CheckGoesBack ==
  /\ Head(frames).got.cookie = Head(frames).cookie /\ UNCHANGED alive
  /\ \E f \in Frame : /\ f.cookie = Head(frames).cookie /\ SetTop(f) /\ f.pc = "back"
                      /\ f.got = Head(frames).got /\ f.stolen = Head(frames).stolen
CheckKeeps ==
  /\ Head(frames).got.cookie \notin {Killed, Head(frames).cookie} /\ UNCHANGED alive
  /\ \E f \in Frame : /\ f.cookie = Head(frames).cookie /\ SetTop(f) /\ f.pc = "read"
                      /\ f.stolen = <<Head(frames).got>> \o Head(frames).stolen

LEMMA CheckStep ==
  ASSUME Types, Check
  PROVE  /\ frames # <<>> /\ Head(frames) \in Frame /\ At("check") /\ alive
         /\ UNCHANGED <<waits, slot, done, ended, killed, sigquit, crossed, stray>>
         /\ CheckAborts \/ CheckReturns \/ CheckGoesBack \/ CheckKeeps
<1> DEFINE f == Head(frames)
<1>1. frames # <<>> /\ f \in Frame /\ alive
  BY FrameHead DEF Check, At, Types
<1>2. At("check") /\ UNCHANGED <<waits, slot, done, ended, killed, sigquit, crossed, stray>>
  BY DEF Check, serverVars, history
<1>3. CASE f.got.cookie = Killed /\ alive' = FALSE /\ frames' = <<>>
  BY <1>1, <1>2, <1>3 DEF CheckAborts
<1>4. CASE f.got.cookie = f.cookie /\ UNCHANGED alive /\ f.stolen = <<>> /\ frames' = Tail(frames)
  BY <1>1, <1>2, <1>4 DEF CheckReturns
<1>5. CASE f.got.cookie = f.cookie /\ UNCHANGED alive /\ f.stolen # <<>> /\ SetTop([f EXCEPT !.pc = "back"])
  <2> DEFINE g == [f EXCEPT !.pc = "back"]
  <2>1. /\ g \in Frame /\ g.cookie = f.cookie /\ g.pc = "back" /\ g.got = f.got
        /\ g.stolen = f.stolen
    BY <1>1, <1>5 DEF Frame
  <2>2. SetTop(g)
    BY <1>5
  <2> HIDE DEF g
  <2> QED BY <1>1, <1>2, <1>5, <2>1, <2>2 DEF CheckGoesBack
<1>6. CASE /\ f.got.cookie \notin {Killed, f.cookie} /\ UNCHANGED alive
           /\ SetTop([f EXCEPT !.pc = "read", !.stolen = <<f.got>> \o f.stolen])
  <2> DEFINE g == [f EXCEPT !.pc = "read", !.stolen = <<f.got>> \o f.stolen]
  <2>0. f.stolen \in Seq(Reply) /\ f.got \in Reply
    BY <1>1, FrameFields
  <2>1. <<f.got>> \o f.stolen \in Seq(Reply)
    BY <2>0
  <2>2. g \in Frame /\ g.cookie = f.cookie /\ g.pc = "read" /\ g.stolen = <<f.got>> \o f.stolen
    BY <1>1, <2>1 DEF Frame
  <2>3. SetTop(g)
    BY <1>6
  <2> HIDE DEF g
  <2> QED BY <1>1, <1>2, <1>6, <2>2, <2>3 DEF CheckKeeps
<1> QED BY <1>3, <1>4, <1>5, <1>6 DEF Check

\* write() is the last one of a call, or there is another one to put back.
PutBackReturns == frames' = Tail(frames)
PutBackMore ==
  \E f \in Frame : /\ f.cookie = Head(frames).cookie /\ SetTop(f) /\ f.pc = "back"
                   /\ f.got = Head(frames).got /\ f.stolen = Tail(Head(frames).stolen)

LEMMA PutBackStep ==
  ASSUME Types, PutBack
  PROVE  /\ frames # <<>> /\ Head(frames) \in Frame /\ At("back") /\ alive
         /\ Head(frames).stolen \in Seq(Reply) /\ Head(frames).stolen # <<>>
         /\ slot' = Head(Head(frames).stolen) /\ slot' \in Reply
         /\ crossed' = (crossed \/ done > 0)
         /\ UNCHANGED <<waits, done, alive, ended, killed, sigquit, stray>>
         /\ PutBackReturns \/ PutBackMore
<1> DEFINE f == Head(frames)
<1>1. frames # <<>> /\ f \in Frame /\ alive /\ f.pc = "back"
  BY FrameHead DEF PutBack, At, Types
<1>2. f.stolen \in Seq(Reply) /\ f.stolen # <<>>
  BY <1>1, FrameFields
<1>3. Head(f.stolen) \in Reply /\ Tail(f.stolen) \in Seq(Reply)
  BY <1>2
<1>4. /\ At("back") /\ slot' = Head(f.stolen) /\ crossed' = (crossed \/ done > 0)
      /\ UNCHANGED <<waits, done, alive, ended, killed, sigquit, stray>>
  BY DEF PutBack, serverVars
<1>5. CASE frames' = Tail(frames)
  BY <1>1, <1>2, <1>3, <1>4, <1>5 DEF PutBackReturns
<1>6. CASE Tail(f.stolen) # <<>> /\ SetTop([f EXCEPT !.stolen = Tail(f.stolen)])
  <2> DEFINE g == [f EXCEPT !.stolen = Tail(f.stolen)]
  <2>1. /\ g \in Frame /\ g.cookie = f.cookie /\ g.pc = "back" /\ g.got = f.got
        /\ g.stolen = Tail(f.stolen)
    BY <1>1, <1>3, <1>6 DEF Frame
  <2>2. SetTop(g)
    BY <1>6
  <2> HIDE DEF g
  <2> QED BY <1>1, <1>2, <1>3, <1>4, <2>1, <2>2 DEF PutBackMore
<1> QED BY <1>5, <1>6 DEF PutBack

\* A select that has to wait, and the handler of SIGUSR1: a call begins.
Begins(c) ==
  /\ alive /\ (c = 2 \/ frames = <<>>)
  /\ frames # <<>> => Head(frames).cookie = 1 /\ Head(frames).pc # "copy"
  /\ waits' = <<c>> \o waits /\ frames' = <<NewFrame(c)>> \o frames
  /\ UNCHANGED <<slot, done, alive, ended, killed, sigquit, stray>>

LEMMA SelectStep ==
  ASSUME Types, Select
  PROVE  /\ frames = <<>> /\ alive /\ crossed' = crossed
         /\ \/ Begins(1)
            \/ UNCHANGED <<waits, frames, slot, done, alive, ended, killed, sigquit, stray>>
<1>1. /\ alive /\ frames = <<>>
      /\ UNCHANGED <<slot, done, alive, ended, killed, sigquit, stray, crossed>>
  BY DEF Select, history
<1>2. CASE waits' = <<1>> \o waits /\ frames' = <<NewFrame(1)>>
  <2>1. <<NewFrame(1)>> \o <<>> = <<NewFrame(1)>>
    OBVIOUS
  <2>2. frames' = <<NewFrame(1)>> \o frames
    BY <1>1, <1>2, <2>1, Zenon
  <2> QED BY <1>1, <1>2, <2>2 DEF Begins
<1> QED BY <1>1, <1>2 DEF Select

LEMMA HandlerStep ==
  ASSUME Types, Handler
  PROVE  \/ Begins(2) /\ Cross
         \/ UNCHANGED <<waits, frames, slot, done, alive, ended, killed, sigquit, stray, crossed>>
BY DEF Handler, Begins

\* The new call waits in read().
LEMMA BeginFrames ==
  ASSUME Types, NEW c \in Cookie, Begins(c)
  PROVE  \E f \in Frame :
           /\ f.cookie = c /\ f.pc = "read" /\ f.stolen = <<>>
           /\ frames' = <<f>> \o frames
           /\ frames' \in Seq(Frame) /\ frames' # <<>>
           /\ Head(frames') = f /\ Tail(frames') = frames
           /\ Len(frames') = Len(frames) + 1 /\ Len(frames) \in {0, 1}
           /\ Cookies(frames') = <<c>> \o Cookies(frames) /\ Cookies(frames') \in Stack
           /\ (\A i \in 1 .. Len(frames) : frames[i].pc = "read") => LowerRead(frames')
<1> DEFINE f == NewFrame(c)
<1>1. f \in Frame /\ f.cookie = c /\ f.pc = "read" /\ f.stolen = <<>>
  BY DEF NewFrame, Frame, Types
<1> HIDE DEF f
<1>2. frames' = <<f>> \o frames /\ frames \in Seq(Frame) /\ Cookies(frames) \in Stack
  BY DEF f, Begins, Types
<1>3. /\ frames' \in Seq(Frame) /\ frames' # <<>> /\ Head(frames') = f /\ Tail(frames') = frames
      /\ (\A i \in 1 .. Len(frames) : frames[i].pc = "read") => LowerRead(frames')
  BY <1>1, <1>2, FramePush
<1>4. Cookies(frames') = <<c>> \o Cookies(frames)
  BY <1>1, <1>2, CookiesPush
<1>5. Cookies(frames) # <<>> => Head(Cookies(frames)) = 1
  BY <1>2, CookiesSeq, CookiesPop DEF Begins
<1>6. c = 2 \/ Cookies(frames) = <<>>
  BY <1>2, CookiesSeq DEF Begins
<1>7. Cookies(frames') \in Stack
  BY <1>2, <1>4, <1>5, <1>6, StackPush
<1>8. Len(frames') = Len(frames) + 1 /\ Len(frames) \in Nat
  BY <1>1, <1>2
<1>9. Len(frames) \in {0, 1}
  BY <1>3, <1>7, <1>8, FramesShort
<1> QED BY <1>1, <1>2, <1>3, <1>4, <1>7, <1>8, <1>9

LEMMA TopTypes ==
  ASSUME Types, frames # <<>>, NEW f \in Frame, f.cookie = Head(frames).cookie, SetTop(f),
         UNCHANGED <<waits, alive, ended>>, done' \in Nat, slot' \in Reply
  PROVE  Types'
BY TopStep DEF Types

LEMMA PopTypes ==
  ASSUME Types, frames # <<>>, frames' = Tail(frames),
         UNCHANGED <<waits, done, alive, ended>>, slot' \in Reply
  PROVE  Types'
<1>1. frames \in Seq(Frame) /\ Cookies(frames) \in Stack /\ alive
  BY DEF Types
<1>2. Cookies(frames) # <<>> /\ Cookies(frames') = Tail(Cookies(frames))
  BY <1>1, CookiesPop
<1>3. frames' \in Seq(Frame) /\ Cookies(frames') \in Stack
  BY <1>1, <1>2, FrameHead, StackPop
<1>4. frames' # <<>> => Tail(frames') = <<>>
  <2>1. Len(frames) \in {0, 1, 2} /\ Len(frames') = Len(frames) - 1
    BY <1>1, FramesShort
  <2>2. frames' # <<>> => Tail(frames') \in Seq(Frame) /\ Len(Tail(frames')) = 0
    BY <1>3, <2>1
  <2> QED BY <2>2, EmptySeq
<1> QED BY <1>1, <1>3, <1>4 DEF Types

LEMMA QuitTypes ==
  ASSUME Types, alive' = FALSE, frames' = <<>>, UNCHANGED <<waits, slot, done, ended>>
  PROVE  Types'
<1>1. frames' \in Seq(Frame)
  OBVIOUS
<1>2. Cookies(frames') = <<>>
  BY <1>1, CookiesSeq
<1> QED BY <1>1, <1>2 DEF Types, Stack

LEMMA NextTypes ==
  ASSUME Types, [Next]_vars
  PROVE  Types'
<1> USE DEF Types
<1>s. ASSUME UNCHANGED <<waits, frames, slot, done, alive, ended>> PROVE Types'
  BY <1>s
<1>b. ASSUME NEW c \in Cookie, Begins(c) PROVE Types'
  <2>1. frames' \in Seq(Frame) /\ Cookies(frames') \in Stack /\ Tail(frames') = frames
    BY <1>b, BeginFrames
  <2>2. <<c>> \o waits \in Seq(Cookie)
    OBVIOUS
  <2> QED BY <1>b, <2>1, <2>2 DEF Begins
<1>1. CASE WakeThread
  <2>1. PICK st \in {"object", "timeout"} :
          /\ slot' = [cookie |-> Head(waits), signaled |-> st] /\ done' = done + 1
          /\ ended' = [ended EXCEPT ![Head(waits)] = st]
    BY <1>1 DEF WakeThread, Send
  <2>2. /\ waits # <<>> /\ waits' = Tail(waits) /\ UNCHANGED <<frames, alive>>
    BY <1>1 DEF WakeThread, Satisfied, clientVars
  <2>3. Head(waits) \in Cookie /\ Tail(waits) \in Seq(Cookie)
    BY <2>2
  <2>4. slot' \in Reply /\ done' \in Nat
    BY <2>1, <2>3 DEF Reply, Cookie
  <2>5. ended' \in [Cookie -> {"object", "timeout", "killed"}]
    BY <2>1, <2>3
  <2> QED BY <2>2, <2>3, <2>4, <2>5
<1>2. CASE Timeout
  <2>1. /\ slot' = [cookie |-> 1, signaled |-> "timeout"] /\ done' = done + 1
        /\ ended' = [ended EXCEPT ![1] = "timeout"]
        /\ waits # <<>> /\ waits' = Tail(waits) /\ UNCHANGED <<frames, alive>>
    BY <1>2 DEF Timeout, Send, clientVars
  <2>2. Tail(waits) \in Seq(Cookie) /\ slot' \in Reply /\ done' \in Nat
    BY <2>1 DEF Reply
  <2>3. ended' \in [Cookie -> {"object", "timeout", "killed"}]
    BY <2>1 DEF Cookie
  <2> QED BY <2>1, <2>2, <2>3
<1>3. CASE WakeThreadEnd \/ SetEvent \/ Suspend \/ Resume
  BY <1>3, <1>s DEF WakeThreadEnd, SetEvent, Suspend, Resume, clientVars, history
<1>4. CASE Kill
  <2>1. waits' = <<>> /\ UNCHANGED <<frames, alive, ended>>
    BY <1>4 DEF Kill, history
  <2>2. slot' \in Reply /\ done' \in Nat
    BY <1>4 DEF Kill, Send, Reply, Killed
  <2>3. waits' \in Seq(Cookie)
    BY <2>1
  <2> QED BY <2>1, <2>2, <2>3
<1>5. CASE Select
  BY <1>5, <1>s, <1>b, SelectStep DEF Cookie
<1>6. CASE SignalAndWait
  <2>1. UNCHANGED <<waits, frames, alive, ended>>
    BY <1>6 DEF SignalAndWait, clientVars
  <2>2. slot' \in Reply /\ done' \in Nat
    BY <1>6 DEF SignalAndWait, Send, Reply, Junk
  <2> QED BY <2>1, <2>2
<1>7. CASE Handler
  BY <1>7, <1>s, <1>b, HandlerStep DEF Cookie
<1>8. CASE Quit
  BY <1>8, QuitTypes DEF Quit, serverVars, history
<1>9. CASE Read
  <2>1. done > 0 => done - 1 \in Nat
    OBVIOUS
  <2> QED BY <1>9, <2>1, ReadStep, TopTypes
<1>10. CASE Copy
  BY <1>10, CopyStep, TopTypes
<1>11. CASE Check
  <2>1. /\ frames # <<>> /\ UNCHANGED <<waits, slot, done, ended>>
        /\ CheckAborts \/ CheckReturns \/ CheckGoesBack \/ CheckKeeps
    BY <1>11, CheckStep
  <2>2. CASE CheckAborts
    BY <2>1, <2>2, QuitTypes DEF CheckAborts
  <2>3. CASE CheckReturns
    BY <2>1, <2>3, PopTypes DEF CheckReturns
  <2>4. CASE CheckGoesBack
    BY <2>1, <2>4, TopTypes DEF CheckGoesBack
  <2>5. CASE CheckKeeps
    BY <2>1, <2>5, TopTypes DEF CheckKeeps
  <2> QED BY <2>1, <2>2, <2>3, <2>4, <2>5
<1>12. CASE PutBack
  <2>1. /\ frames # <<>> /\ slot' \in Reply /\ UNCHANGED <<waits, done, alive, ended>>
        /\ PutBackReturns \/ PutBackMore
    BY <1>12, PutBackStep
  <2> QED BY <2>1, PopTypes, TopTypes DEF PutBackReturns, PutBackMore
<1>13. CASE UNCHANGED vars
  BY <1>13, <1>s DEF vars, serverVars, clientVars, history
<1> QED
  BY <1>1, <1>2, <1>3, <1>4, <1>5, <1>6, <1>7, <1>8, <1>9, <1>10, <1>11, <1>12, <1>13
  DEF Next, Wake, Client

-----------------------------------------------------------------------------
(* Until replies cross.                                                     *)

LEMMA InitChannel == Init => ChannelInv
<1> SUFFICES ASSUME Init PROVE ChannelInv
  OBVIOUS
<1>0. frames = <<>> /\ frames \in Seq(Frame) /\ Len(frames) = 0
  BY DEF Init
<1>1. Cookies(frames) = <<>>
  BY <1>0, CookiesSeq
<1>2. NoReply
  BY <1>0, <1>1 DEF Init, NoReply, Single, OnItsWay, At
<1> QED BY <1>0, <1>2 DEF Init, ChannelInv, LowerRead, Stack

\* When nothing is on its way, every call of a running client is pending.
LEMMA QuietCalls ==
  ASSUME Types, ChannelInv, Quiet
  PROVE  /\ ~OnItsWay /\ ~At("back") /\ done = 0 /\ ~KillReply
         /\ frames # <<>> => At("read")
         /\ alive => Cookies(frames) = waits
<1>1. /\ done = 0 /\ ~At("back") /\ ~At("copy") /\ ~At("check")
      /\ frames # <<>> => At("read")
  BY DEF Quiet, At
<1>2. ~OnItsWay /\ ~KillReply /\ ~TopReply
  BY <1>1 DEF OnItsWay, KillReply, TopReply
<1> QED BY <1>1, <1>2 DEF ChannelInv, NoReply

LEMMA SameChannel ==
  ASSUME ChannelInv, UNCHANGED <<waits, frames, slot, done, alive, ended, killed>>,
         sigquit => sigquit'
  PROVE  ChannelInv'
BY DEF ChannelInv, NoReply, TopReply, KillReply, Single, Seen, OnItsWay, Message, At

\* wake_thread and thread_timeout: the top wait ends and its reply is sent.
LEMMA ReplyChannel ==
  ASSUME Types, ChannelInv, Quiet, waits # <<>>, NEW st \in {"object", "timeout"},
         slot' = [cookie |-> Head(waits), signaled |-> st], done' = done + 1,
         ended' = [ended EXCEPT ![Head(waits)] = st], waits' = Tail(waits),
         UNCHANGED <<frames, alive, killed, sigquit>>
  PROVE  ChannelInv'
<1>1. /\ done = 0 /\ ~KillReply /\ (frames # <<>> => At("read"))
      /\ alive => Cookies(frames) = waits
  BY QuietCalls
<1>2. Head(waits) \in Cookie /\ Tail(waits) \in Stack
  BY StackPop DEF ChannelInv
<1>3. ASSUME alive PROVE TopReply'
  <2>1. Cookies(frames) = waits /\ frames # <<>> /\ frames \in Seq(Frame)
    BY <1>1, <1>3, CookiesSeq DEF Types
  <2>2. Head(frames).cookie = Head(waits)
    BY <2>1, CookiesPop
  <2>3. ended'[Head(frames).cookie] = st
    BY <1>2, <2>2 DEF Types
  <2>4. done' = 1 /\ At("read")' /\ ~At("check")' /\ ~At("back")' /\ ~At("copy")'
    BY <1>1, <2>1 DEF At
  <2> QED BY <2>1, <2>2, <2>3, <2>4 DEF TopReply, OnItsWay, Message, Single
<1>4. killed /\ alive => sigquit
  BY <1>1 DEF ChannelInv
<1> QED BY <1>2, <1>3, <1>4 DEF ChannelInv

\* The reply of kill_thread may be sent while another one is on its way.
LEMMA KillChannel ==
  ASSUME Types, ChannelInv, Kill
  PROVE  ChannelInv'
<1>1. CASE waits = <<>>
  <2>1. sigquit' /\ UNCHANGED <<waits, frames, slot, done, alive, ended>>
    BY <1>1 DEF Kill, history
  <2> QED BY <2>1 DEF ChannelInv, NoReply, TopReply, KillReply, Single, Seen, OnItsWay, Message, At
<1>2. CASE waits # <<>>
  <2>1. /\ slot' = [cookie |-> Killed, signaled |-> "killed"] /\ done' = done + 1
        /\ waits' = <<>> /\ UNCHANGED <<frames, alive, ended, sigquit>>
    BY <1>2 DEF Kill, Send, history
  <2>2. ASSUME alive PROVE KillReply'
    <3>1. ~KillReply
      BY <1>2 DEF KillReply
    <3>2. frames \in Seq(Frame) /\ (frames # <<>> => Head(frames) \in Frame)
      BY FrameHead DEF Types
    <3>3. CASE NoReply
      <4>1. frames # <<>>
        BY <1>2, <3>2, <3>3, CookiesSeq DEF NoReply
      <4>2. Head(frames).cookie # Junk
        BY <3>2, <4>1, FrameFields DEF Cookie, Junk
      <4>3. ~At("back") /\ (At("check") => Head(frames).got.cookie = Junk)
        BY <3>3 DEF NoReply, OnItsWay, Message
      <4> QED BY <2>1, <4>1, <4>2, <4>3 DEF KillReply, At, Types
    <3>4. CASE TopReply
      <4>1. frames # <<>> /\ Tail(frames) # <<>>
        <5>1. frames # <<>> /\ Tail(Cookies(frames)) # <<>>
          BY <1>2, <3>4 DEF TopReply
        <5>2. Tail(Cookies(frames)) = Cookies(Tail(frames)) /\ Tail(frames) \in Seq(Frame)
          BY <3>2, <5>1, CookiesPop
        <5> QED BY <5>1, <5>2, CookiesSeq
      <4>2. At("check") \/ At("back") => Seen
        <5>1. ~(At("check") /\ At("back"))
          BY DEF At
        <5> QED BY <3>4, <5>1 DEF TopReply, Message, Seen
      <4>3. Seen' <=> Seen
        BY <2>1 DEF Seen
      <4> QED BY <2>1, <4>1, <4>2, <4>3 DEF KillReply, At, Types
    <3> QED BY <2>2, <3>1, <3>3, <3>4 DEF ChannelInv
  <2> QED BY <2>1, <2>2 DEF ChannelInv, Stack
<1> QED BY <1>1, <1>2

LEMMA SelfWakeChannel ==
  ASSUME Types, ChannelInv, SignalAndWait, ~crossed'
  PROVE  ChannelInv'
<1>1. /\ Quiet /\ slot' = [cookie |-> Junk, signaled |-> "object"] /\ done' = done + 1
      /\ frames = <<>> /\ alive /\ UNCHANGED <<waits, frames, alive, ended, killed, sigquit>>
  BY DEF SignalAndWait, Send, Cross, clientVars
<1>2. done = 0 /\ Cookies(frames) = waits /\ ~KillReply
  BY <1>1, QuietCalls
<1>3. NoReply'
  BY <1>1, <1>2 DEF NoReply, Single, OnItsWay, Message, At
<1> QED BY <1>1, <1>2, <1>3 DEF ChannelInv

\* A call is told to wait: both stacks grow.
LEMMA BeginChannel ==
  ASSUME Types, ChannelInv, NoReply, ~KillReply, frames # <<>> => At("read"),
         NEW c \in Cookie, Begins(c)
  PROVE  ChannelInv'
<1>1. PICK f \in Frame :
        /\ f.pc = "read" /\ frames' # <<>> /\ Head(frames') = f
        /\ Cookies(frames') = <<c>> \o Cookies(frames) /\ Cookies(frames') \in Stack
        /\ (\A i \in 1 .. Len(frames) : frames[i].pc = "read") => LowerRead(frames')
  BY BeginFrames
<1>2. \A i \in 1 .. Len(frames) : frames[i].pc = "read"
  <2>1. frames \in Seq(Frame) /\ LowerRead(frames)
    BY DEF Types, ChannelInv
  <2>2. frames # <<>> => Head(frames) = frames[1]
    BY <2>1
  <2>3. ASSUME NEW i \in 1 .. Len(frames) PROVE frames[i].pc = "read"
    <3>1. frames # <<>> /\ (i = 1 \/ i \in 2 .. Len(frames))
      BY <2>1
    <3> QED BY <2>1, <2>2, <3>1 DEF LowerRead, At
  <2> QED BY <2>3
<1>3. Cookies(frames') = waits' /\ UNCHANGED <<slot, done, alive, killed, sigquit>>
  BY <1>1 DEF NoReply, Begins
<1>4. At("read")' /\ ~At("back")' /\ ~At("copy")' /\ ~At("check")'
  BY <1>1 DEF At
<1>5. done > 0 => slot.cookie = Junk
  BY DEF NoReply, OnItsWay, Message, At
<1>6. NoReply'
  BY <1>3, <1>4, <1>5 DEF NoReply, Single, OnItsWay, Message
<1> QED BY <1>1, <1>2, <1>3, <1>6 DEF ChannelInv

LEMMA SelectChannel ==
  ASSUME Types, ChannelInv, Select
  PROVE  ChannelInv'
<1>1. CASE Begins(1)
  <2>1. frames = <<>> /\ alive
    BY SelectStep
  <2>2. NoReply /\ ~KillReply
    BY <2>1 DEF ChannelInv, TopReply, KillReply
  <2> QED BY <1>1, <2>1, <2>2, BeginChannel DEF Cookie
<1>2. CASE UNCHANGED <<waits, frames, slot, done, alive, ended, killed, sigquit, stray>>
  BY <1>2, SameChannel
<1> QED BY <1>1, <1>2, SelectStep

LEMMA HandlerChannel ==
  ASSUME Types, ChannelInv, Handler, ~crossed'
  PROVE  ChannelInv'
<1>1. CASE Begins(2) /\ Cross
  <2>1. Quiet /\ alive
    BY <1>1 DEF Cross, Begins
  <2>2. NoReply
    BY <2>1, QuietCalls DEF ChannelInv, TopReply
  <2> QED BY <1>1, <2>1, <2>2, QuietCalls, BeginChannel DEF Cookie
<1>2. CASE UNCHANGED <<waits, frames, slot, done, alive, ended, killed, sigquit, stray, crossed>>
  BY <1>2, SameChannel
<1> QED BY <1>1, <1>2, HandlerStep

LEMMA QuitChannel ==
  ASSUME ChannelInv, alive' = FALSE, frames' = <<>>, UNCHANGED waits
  PROVE  ChannelInv'
<1>1. LowerRead(<<>>)
  BY DEF LowerRead
<1> QED BY <1>1 DEF ChannelInv

LEMMA ReadChannel ==
  ASSUME Types, ChannelInv, Read
  PROVE  ChannelInv'
<1>1. PICK f \in Frame :
        /\ f.cookie = Head(frames).cookie /\ SetTop(f) /\ f.pc = "copy"
        /\ frames # <<>> /\ At("read") /\ done > 0 /\ done' = done - 1
        /\ UNCHANGED <<waits, slot, alive, ended, killed, sigquit>>
  BY ReadStep
<1>2. /\ frames' # <<>> /\ Head(frames') = f /\ Tail(frames') = Tail(frames)
      /\ Cookies(frames') = Cookies(frames) /\ LowerRead(frames') /\ alive
  BY <1>1, TopStep DEF ChannelInv
<1>3. At("copy")' /\ ~At("read")' /\ ~At("check")' /\ ~At("back")' /\ ~At("check") /\ ~At("back")
  BY <1>1, <1>2 DEF At
<1>4. OnItsWay /\ OnItsWay' /\ Message' = Message
  BY <1>1, <1>3 DEF OnItsWay, Message
<1>5. Single => Single'
  BY <1>1 DEF Single, Types
<1>6. NoReply => NoReply'
  BY <1>1, <1>2, <1>3, <1>4, <1>5 DEF NoReply
<1>7. TopReply => TopReply'
  BY <1>1, <1>2, <1>3, <1>4, <1>5 DEF TopReply
<1>8. KillReply => KillReply'
  BY <1>1, <1>2, <1>3 DEF KillReply
<1> QED BY <1>1, <1>2, <1>6, <1>7, <1>8 DEF ChannelInv

LEMMA CopyChannel ==
  ASSUME Types, ChannelInv, Copy
  PROVE  ChannelInv'
<1>1. PICK f \in Frame :
        /\ f.cookie = Head(frames).cookie /\ SetTop(f) /\ f.pc = "check" /\ f.got = slot
        /\ frames # <<>> /\ At("copy")
        /\ UNCHANGED <<waits, slot, done, alive, ended, killed, sigquit>>
  BY CopyStep
<1>2. /\ frames' # <<>> /\ Head(frames') = f /\ Tail(frames') = Tail(frames)
      /\ Cookies(frames') = Cookies(frames) /\ LowerRead(frames') /\ alive
  BY <1>1, TopStep DEF ChannelInv
<1>3. At("check")' /\ ~At("back")' /\ ~At("check") /\ ~At("back") /\ ~At("read")
  BY <1>1, <1>2 DEF At
<1>4. OnItsWay /\ OnItsWay' /\ Message' = Message
  BY <1>1, <1>2, <1>3 DEF OnItsWay, Message
<1>5. Single => Single'
  BY <1>1, <1>2, <1>3 DEF Single, Types
<1>6. NoReply => NoReply'
  BY <1>1, <1>2, <1>3, <1>4, <1>5 DEF NoReply
<1>7. TopReply => TopReply'
  BY <1>1, <1>2, <1>3, <1>4, <1>5 DEF TopReply
<1>8. KillReply => KillReply'
  <2>1. f.cookie # Killed
    BY FrameFields DEF Cookie, Killed
  <2>2. KillReply => slot.cookie = Killed
    BY <1>3 DEF KillReply
  <2> QED BY <1>1, <1>2, <1>3, <2>1, <2>2 DEF KillReply
<1> QED BY <1>1, <1>2, <1>6, <1>7, <1>8 DEF ChannelInv

\* A call returns when its reply is on its way, or when it has put others back.
LEMMA ReturnChannel ==
  ASSUME Types, ChannelInv, TopReply, ~KillReply, frames' = Tail(frames), done = 0,
         UNCHANGED <<waits, done, alive, killed, sigquit>>
  PROVE  ChannelInv'
<1>1. frames \in Seq(Frame) /\ frames # <<>> /\ LowerRead(frames)
  BY DEF ChannelInv, Types, TopReply
<1>2. /\ Cookies(frames') = Tail(Cookies(frames)) /\ LowerRead(frames')
      /\ frames' # <<>> => Head(frames').pc = "read"
  BY <1>1, TopReturns
<1>3. Cookies(frames') = waits
  BY <1>2 DEF TopReply
<1>4. ~At("back")' /\ ~At("copy")' /\ ~At("check")' /\ ~OnItsWay'
  BY <1>2 DEF At, OnItsWay
<1>5. NoReply'
  BY <1>3, <1>4 DEF NoReply, Single
<1> QED BY <1>2, <1>5 DEF ChannelInv

\* The reply the client looks at.
LEMMA CheckTop ==
  ASSUME Types, ChannelInv, At("check")
  PROVE  /\ frames # <<>> /\ Head(frames) \in Frame /\ alive /\ OnItsWay
         /\ Message = Head(frames).got /\ Head(frames).cookie \in {1, 2}
         /\ ~At("back") /\ ~At("read") /\ ~At("copy") /\ (Single => done = 0)
<1>1. frames # <<>> /\ Head(frames) \in Frame /\ alive
  BY FrameHead DEF At, Types
<1>2. Head(frames).cookie \in {1, 2}
  BY <1>1, FrameFields DEF Cookie
<1> QED BY <1>1, <1>2 DEF At, OnItsWay, Message, Single

LEMMA CheckChannel ==
  ASSUME Types, ChannelInv, Check
  PROVE  ChannelInv'
<1> DEFINE t == Head(frames)
<1>1. /\ frames # <<>> /\ t \in Frame /\ At("check") /\ alive
      /\ UNCHANGED <<waits, slot, done, ended, killed, sigquit>>
      /\ CheckAborts \/ CheckReturns \/ CheckGoesBack \/ CheckKeeps
  BY CheckStep
<1>2. /\ OnItsWay /\ Message = t.got /\ t.cookie \in {1, 2} /\ ~At("back") /\ ~At("read")
      /\ ~At("copy") /\ (Single => done = 0)
  BY <1>1, CheckTop
<1>3. CASE CheckAborts
  BY <1>1, <1>3, QuitChannel DEF CheckAborts
<1>4. ASSUME t.got.cookie = t.cookie
      PROVE  /\ TopReply \/ KillReply
             /\ TopReply => done = 0 /\ ~KillReply /\ t.got.signaled = ended[t.cookie]
             /\ KillReply => /\ slot.cookie = Killed /\ done > 0 /\ Seen /\ Tail(frames) # <<>>
  <2>1. ~NoReply
    BY <1>2, <1>4 DEF NoReply, Junk
  <2>2. KillReply => /\ slot.cookie = Killed /\ done > 0 /\ Seen /\ Tail(frames) # <<>>
    BY <1>1, <1>2, <1>4 DEF KillReply, Killed
  <2>3. TopReply => done = 0 /\ t.got.signaled = ended[t.cookie]
    BY <1>2 DEF TopReply
  <2> QED BY <1>1, <2>1, <2>2, <2>3 DEF ChannelInv
<1>5. CASE CheckReturns
  <2>1. t.got.cookie = t.cookie /\ frames' = Tail(frames) /\ alive' = alive
    BY <1>5 DEF CheckReturns
  <2>2. CASE TopReply
    BY <1>1, <1>4, <2>1, <2>2, ReturnChannel
  <2>3. CASE KillReply
    <3>1. slot.cookie = Killed /\ done > 0 /\ frames' # <<>>
      BY <1>4, <2>1, <2>3
    <3>2. LowerRead(frames') /\ Head(frames').pc = "read"
      BY <1>1, <2>1, <3>1, TopReturns DEF Types, ChannelInv
    <3>3. KillReply'
      BY <1>1, <2>3, <3>1, <3>2 DEF KillReply, At
    <3> QED BY <1>1, <3>2, <3>3 DEF ChannelInv
  <2> QED BY <1>4, <2>1, <2>2, <2>3
<1>6. CASE CheckGoesBack
  <2>1. t.got.cookie = t.cookie /\ alive' = alive
    BY <1>6 DEF CheckGoesBack
  <2>2. PICK f \in Frame : f.cookie = t.cookie /\ SetTop(f) /\ f.pc = "back" /\ f.got = t.got
    BY <1>6 DEF CheckGoesBack
  <2>3. /\ LowerRead(frames') /\ frames' # <<>> /\ Head(frames') = f
        /\ Cookies(frames') = Cookies(frames)
    BY <1>1, <2>2, TopStep DEF ChannelInv
  <2>4. At("back")' /\ ~At("copy")' /\ ~At("check")'
    BY <2>2, <2>3 DEF At
  <2>5. TopReply => TopReply'
    <3>1. TopReply => ~OnItsWay' /\ Single'
      BY <1>1, <1>4, <2>1, <2>4 DEF OnItsWay, Single
    <3> QED BY <1>1, <1>4, <2>1, <2>2, <2>3, <2>4, <3>1 DEF TopReply
  <2>6. KillReply => KillReply'
    BY <1>1, <1>4, <2>1, <2>2, <2>3, <2>4 DEF KillReply, Seen
  <2> QED BY <1>1, <1>4, <2>1, <2>3, <2>5, <2>6 DEF ChannelInv
<1>7. CASE CheckKeeps
  <2>1. t.got.cookie \notin {Killed, t.cookie} /\ alive' = alive
    BY <1>7 DEF CheckKeeps
  <2>2. PICK f \in Frame : f.cookie = t.cookie /\ SetTop(f) /\ f.pc = "read"
    BY <1>7 DEF CheckKeeps
  <2>3. /\ LowerRead(frames') /\ frames' # <<>> /\ Head(frames') = f
        /\ Cookies(frames') = Cookies(frames)
    BY <1>1, <2>2, TopStep DEF ChannelInv
  <2>4. At("read")' /\ ~At("back")' /\ ~At("copy")' /\ ~At("check")'
    BY <2>2, <2>3 DEF At
  <2>5. ~TopReply
    BY <1>2, <2>1 DEF TopReply
  <2>6. NoReply => NoReply'
    <3>1. NoReply => ~OnItsWay' /\ Single'
      BY <1>1, <1>2, <2>4 DEF NoReply, OnItsWay, Single
    <3> QED BY <1>1, <2>3, <2>4, <3>1 DEF NoReply
  <2>7. KillReply => KillReply'
    <3>1. KillReply => slot.cookie = Killed /\ done > 0
      BY <1>2, <2>1 DEF KillReply
    <3> QED BY <1>1, <2>3, <2>4, <3>1 DEF KillReply
  <2> QED BY <1>1, <2>1, <2>3, <2>5, <2>6, <2>7 DEF ChannelInv
<1> QED BY <1>1, <1>3, <1>5, <1>6, <1>7

\* A reply is put back when none is on its way.
LEMMA BackTop ==
  ASSUME Types, ChannelInv, At("back"), alive
  PROVE  /\ frames # <<>> /\ (done = 0 => TopReply /\ ~KillReply)
         /\ Head(frames).got.signaled = ended[Head(frames).cookie]
         /\ KillReply => done > 0
<1>1. ~At("read") /\ ~At("copy") /\ ~At("check") /\ frames # <<>>
  BY DEF At
<1>2. ~NoReply
  BY DEF NoReply
<1>3. KillReply => done > 0 /\ Seen
  BY <1>1 DEF KillReply
<1>4. TopReply => Head(frames).got.signaled = ended[Head(frames).cookie]
  BY DEF TopReply
<1> QED BY <1>1, <1>2, <1>3, <1>4 DEF ChannelInv, Seen

LEMMA PutBackChannel ==
  ASSUME Types, ChannelInv, PutBack, ~crossed'
  PROVE  ChannelInv'
<1> DEFINE t == Head(frames)
<1>1. /\ frames # <<>> /\ At("back") /\ alive /\ ~(done > 0) /\ done \in Nat
      /\ UNCHANGED <<waits, done, alive, ended, killed, sigquit>>
      /\ PutBackReturns \/ PutBackMore
  BY PutBackStep DEF Types
<1>2. done = 0 /\ TopReply /\ ~KillReply
  BY <1>1, BackTop
<1>3. CASE PutBackReturns
  BY <1>1, <1>2, <1>3, ReturnChannel DEF PutBackReturns
<1>4. CASE PutBackMore
  <2>1. PICK f \in Frame : f.cookie = t.cookie /\ SetTop(f) /\ f.pc = "back" /\ f.got = t.got
    BY <1>4 DEF PutBackMore
  <2>2. /\ LowerRead(frames') /\ frames' # <<>> /\ Head(frames') = f
        /\ Cookies(frames') = Cookies(frames)
    BY <1>1, <2>1, TopStep DEF ChannelInv
  <2>3. At("back")' /\ ~At("copy")' /\ ~At("check")' /\ ~OnItsWay' /\ Single'
    BY <1>1, <1>2, <2>1, <2>2 DEF At, OnItsWay, Single
  <2>4. TopReply'
    BY <1>1, <1>2, <2>1, <2>2, <2>3 DEF TopReply
  <2> QED BY <1>1, <1>2, <2>2, <2>4 DEF ChannelInv
<1> QED BY <1>1, <1>3, <1>4

LEMMA NextChannel ==
  ASSUME Types, ~crossed => ChannelInv, [Next]_vars
  PROVE  (~crossed => ChannelInv)'
<1>0. crossed' \/ ~crossed
  BY DEF Next, Wake, WakeThread, WakeThreadEnd, Timeout, SetEvent, Suspend, Resume, Kill, Select,
         SignalAndWait, Handler, Quit, Client, Read, Copy, Check, PutBack, Cross, history, vars
<1> SUFFICES ASSUME ~crossed', ChannelInv PROVE ChannelInv'
  BY <1>0
<1>1. CASE WakeThread
  <2>1. PICK st \in {"object", "timeout"} :
          /\ slot' = [cookie |-> Head(waits), signaled |-> st] /\ done' = done + 1
          /\ ended' = [ended EXCEPT ![Head(waits)] = st]
    BY <1>1 DEF WakeThread, Send
  <2>2. /\ Quiet /\ waits # <<>> /\ waits' = Tail(waits)
        /\ UNCHANGED <<frames, alive, killed, sigquit>>
    BY <1>1 DEF WakeThread, Satisfied, clientVars, Cross
  <2> QED BY <2>1, <2>2, ReplyChannel
<1>2. CASE Timeout
  <2>1. /\ slot' = [cookie |-> Head(waits), signaled |-> "timeout"] /\ done' = done + 1
        /\ ended' = [ended EXCEPT ![Head(waits)] = "timeout"]
        /\ Quiet /\ waits # <<>> /\ waits' = Tail(waits)
        /\ UNCHANGED <<frames, alive, killed, sigquit>>
    BY <1>2 DEF Timeout, Send, clientVars, Cross
  <2> QED BY <2>1, ReplyChannel
<1>3. CASE WakeThreadEnd \/ SetEvent \/ Suspend \/ Resume
  BY <1>3, SameChannel DEF WakeThreadEnd, SetEvent, Suspend, Resume, clientVars, history
<1>4. CASE Quit
  BY <1>4, QuitChannel DEF Quit, serverVars
<1>5. CASE UNCHANGED vars
  BY <1>5, SameChannel DEF vars, serverVars, clientVars, history
<1> QED
  BY <1>1, <1>2, <1>3, <1>4, <1>5, KillChannel, SelectChannel, SelfWakeChannel, HandlerChannel,
     ReadChannel, CopyChannel, CheckChannel, PutBackChannel DEF Next, Wake, Client

LEMMA ChannelAlways == Spec => [](Types /\ (~crossed => ChannelInv))
<1>1. Init => Types /\ (~crossed => ChannelInv)
  BY InitTypes, InitChannel
<1>2. Types /\ (~crossed => ChannelInv) /\ [Next]_vars => (Types /\ (~crossed => ChannelInv))'
  BY NextTypes, NextChannel
<1> QED BY <1>1, <1>2, PTL DEF Spec

\* kill_thread, "if it is waiting on the socket, we don't need to send a
\* SIGQUIT": until replies cross, a thread that is killed and still there has
\* been sent SIGQUIT, or is in a call that will read the reply of kill_thread,
\* even if that was written over another reply or before another was copied.
THEOREM KillIsAnnounced == Spec => []KillAnnounced
<1>1. (~crossed => ChannelInv) => KillAnnounced
  BY DEF ChannelInv, KillReply, KillAnnounced
<1> QED BY <1>1, ChannelAlways, PTL

-----------------------------------------------------------------------------
(* Without stray replies.                                                   *)

LEMMA HeldNat ==
  ASSUME NEW f \in Frame
  PROVE  Held(f) \in Nat /\ (f.pc # "read" => Held(f) >= 1)
<1>1. Len(f.stolen) \in Nat
  BY FrameFields
<1>2. CASE f.pc = "read"
  BY <1>1, <1>2 DEF Held
<1>3. CASE f.pc # "read"
  <2>1. Held(f) = Len(f.stolen) + 1
    BY <1>3 DEF Held
  <2> QED BY <1>1, <2>1
<1> QED BY <1>2, <1>3

LEMMA NatSums ==
  /\ \A a, b \in Nat : b + 0 = b /\ a + b \in Nat
  /\ \A n \in {0, 1} : n + 1 \in {0, 1, 2}
OBVIOUS

LEMMA TakenTop ==
  ASSUME NEW s \in Seq(Frame), s # <<>>, NEW r \in Seq(Frame), r # <<>>, Tail(r) = Tail(s)
  PROVE  /\ Taken(s) \in Nat /\ Taken(r) \in Nat
         /\ Taken(r) - Held(Head(r)) = Taken(s) - Held(Head(s))
<1>1. Head(s) \in Frame /\ Head(r) \in Frame /\ Tail(s) \in Seq(Frame)
  BY FrameHead
<1>2. Held(Head(s)) \in Nat /\ Held(Head(r)) \in Nat
  BY <1>1, HeldNat
<1>3. Tail(s) # <<>> => Held(Head(Tail(s))) \in Nat
  BY <1>1, FrameHead, HeldNat
<1>4. CASE Tail(s) = <<>>
  <2>1. Taken(s) = Held(Head(s)) + 0 /\ Taken(r) = Held(Head(r)) + 0
    BY <1>4 DEF Taken
  <2> QED BY <1>2, <2>1
<1>5. CASE Tail(s) # <<>>
  <2>1. /\ Taken(s) = Held(Head(s)) + Held(Head(Tail(s)))
        /\ Taken(r) = Held(Head(r)) + Held(Head(Tail(s)))
    BY <1>5 DEF Taken
  <2> QED BY <1>2, <1>3, <1>5, <2>1
<1> QED BY <1>4, <1>5

LEMMA TakenPop ==
  ASSUME NEW s \in Seq(Frame), s # <<>>, Len(s) \in {0, 1, 2}
  PROVE  /\ Taken(s) = Held(Head(s)) + Taken(Tail(s))
         /\ Taken(Tail(s)) \in Nat /\ Held(Head(s)) \in Nat /\ Taken(s) \in Nat
<1>1. Head(s) \in Frame /\ Tail(s) \in Seq(Frame) /\ Len(Tail(s)) \in {0, 1}
  <2>1. Len(Tail(s)) = Len(s) - 1 /\ Len(s) # 0
    OBVIOUS
  <2> QED BY <2>1, FrameHead
<1>2. Held(Head(s)) \in Nat
  BY <1>1, HeldNat
<1>3. CASE Tail(s) = <<>>
  BY <1>2, <1>3 DEF Taken
<1>4. CASE Tail(s) # <<>>
  <2>1. Len(Tail(s)) = 1
    BY <1>1, <1>4, EmptySeq
  <2>2. Tail(Tail(s)) = <<>>
    <3>1. Tail(Tail(s)) \in Seq(Frame) /\ Len(Tail(Tail(s))) = 0
      BY <1>1, <1>4, <2>1
    <3> QED BY <3>1, EmptySeq
  <2>3. Held(Head(Tail(s))) \in Nat
    BY <1>1, <1>4, FrameHead, HeldNat
  <2>4. /\ Taken(s) = Held(Head(s)) + Held(Head(Tail(s)))
        /\ Taken(Tail(s)) = Held(Head(Tail(s))) + 0
    BY <1>4, <2>2 DEF Taken
  <2>5. Taken(Tail(s)) = Held(Head(Tail(s)))
    BY <2>3, <2>4, NatSums, Zenon
  <2> QED BY <1>2, <2>3, <2>4, <2>5, NatSums, Zenon
<1> QED BY <1>3, <1>4

\* The calls below the top, and those above a new one.
LEMMA OwnSplit ==
  ASSUME NEW s \in Seq(Frame), s # <<>>, NEW a, NEW e
  PROVE  OwnFrames(s, a, e) <=> OwnFrame(Head(s), a, e) /\ OwnFrames(Tail(s), a, e)
<1>1. /\ Tail(s) \in Seq(Frame) /\ Len(s) \in Nat /\ Len(s) >= 1 /\ Len(Tail(s)) = Len(s) - 1
      /\ Head(s) = s[1]
      /\ \A i \in 1 .. Len(s) - 1 : Tail(s)[i] = s[i + 1]
  OBVIOUS
<1>2. ASSUME OwnFrames(s, a, e) PROVE OwnFrame(Head(s), a, e) /\ OwnFrames(Tail(s), a, e)
  <2>1. OwnFrame(s[1], a, e)
    BY <1>1, <1>2 DEF OwnFrames
  <2>2. ASSUME NEW i \in 1 .. Len(Tail(s)) PROVE OwnFrame(Tail(s)[i], a, e)
    <3>1. i + 1 \in 1 .. Len(s) /\ Tail(s)[i] = s[i + 1]
      BY <1>1
    <3> QED BY <1>2, <3>1 DEF OwnFrames
  <2> QED BY <1>1, <2>1, <2>2 DEF OwnFrames
<1>3. ASSUME OwnFrame(Head(s), a, e), OwnFrames(Tail(s), a, e) PROVE OwnFrames(s, a, e)
  <2>1. ASSUME NEW i \in 1 .. Len(s) PROVE OwnFrame(s[i], a, e)
    <3>1. CASE i = 1
      BY <1>1, <1>3, <3>1
    <3>2. CASE i # 1
      <4>1. i - 1 \in 1 .. Len(Tail(s)) /\ Tail(s)[i - 1] = s[i]
        BY <1>1, <3>2
      <4>2. OwnFrame(Tail(s)[i - 1], a, e)
        BY <1>3, <4>1 DEF OwnFrames
      <4> QED BY <4>1, <4>2
    <3> QED BY <3>1, <3>2
  <2> QED BY <2>1 DEF OwnFrames
<1> QED BY <1>2, <1>3

\* Nothing that was no reply to the program becomes one to another call.
LEMMA OwnMore ==
  ASSUME NEW s, NEW a, NEW e, NEW b, NEW d, a => b /\ d = e, OwnFrames(s, a, e)
  PROVE  OwnFrames(s, b, d)
BY DEF OwnFrames, OwnFrame, Own

LEMMA OwnEmpty == \A a, e : OwnFrames(<<>>, a, e)
BY DEF OwnFrames

LEMMA HoldsTail ==
  ASSUME NEW s \in Seq(Cookie), s # <<>>, NEW c
  PROVE  /\ Holds(s, c) <=> c = Head(s) \/ Holds(Tail(s), c)
         /\ Len(Tail(s)) = Len(s) - 1 /\ Len(s) \in Nat /\ Len(s) >= 1
<1>1. /\ Tail(s) \in Seq(Cookie) /\ Len(s) \in Nat /\ Len(s) >= 1 /\ Len(Tail(s)) = Len(s) - 1
      /\ Head(s) = s[1]
      /\ \A i \in 1 .. Len(s) - 1 : Tail(s)[i] = s[i + 1]
      /\ DOMAIN s = 1 .. Len(s) /\ DOMAIN Tail(s) = 1 .. Len(s) - 1
  OBVIOUS
<1>2. ASSUME Holds(s, c), c # Head(s) PROVE Holds(Tail(s), c)
  <2>1. PICK i \in 1 .. Len(s) : s[i] = c
    BY <1>1, <1>2 DEF Holds
  <2>2. i - 1 \in 1 .. Len(s) - 1 /\ Tail(s)[i - 1] = s[i]
    BY <1>1, <1>2, <2>1
  <2> QED BY <1>1, <2>1, <2>2 DEF Holds
<1>3. ASSUME Holds(Tail(s), c) PROVE Holds(s, c)
  <2>1. PICK i \in 1 .. Len(s) - 1 : Tail(s)[i] = c
    BY <1>1, <1>3 DEF Holds
  <2>2. i + 1 \in 1 .. Len(s) /\ s[i + 1] = c
    BY <1>1, <2>1
  <2> QED BY <1>1, <2>2 DEF Holds
<1>4. Holds(s, Head(s))
  BY <1>1 DEF Holds
<1> QED BY <1>1, <1>2, <1>3, <1>4

LEMMA HoldsPush ==
  ASSUME NEW s \in Seq(Cookie), NEW d \in Cookie, NEW c
  PROVE  /\ Holds(<<d>> \o s, c) <=> c = d \/ Holds(s, c)
         /\ Len(<<d>> \o s) = Len(s) + 1
<1> DEFINE r == <<d>> \o s
<1>1. r \in Seq(Cookie) /\ r # <<>> /\ Head(r) = d /\ Tail(r) = s /\ Len(r) = Len(s) + 1
  OBVIOUS
<1> HIDE DEF r
<1>2. Holds(r, c) <=> c = d \/ Holds(s, c)
  BY <1>1, HoldsTail
<1> QED BY <1>1, <1>2 DEF r

LEMMA OwnParts ==
  ASSUME OwnInv
  PROVE  /\ done + Taken(frames) + Len(waits) <= Len(frames)
         /\ \A i \in 1 .. Len(waits) : waits[i] = 1 => i = Len(waits)
BY DEF OwnInv, Conserved

LEMMA SameOwn ==
  ASSUME OwnInv, UNCHANGED <<waits, frames, slot, done, ended>>
  PROVE  OwnInv'
BY DEF OwnInv, Conserved, Answered, At

\* wake_thread and thread_timeout: a wait becomes a reply.
Replies(st) ==
  /\ waits # <<>> /\ waits' = Tail(waits)
  /\ slot' = [cookie |-> Head(waits), signaled |-> st] /\ done' = done + 1
  /\ ended' = [ended EXCEPT ![Head(waits)] = st]
  /\ UNCHANGED frames

LEMMA ReplyOwn ==
  ASSUME Types, OwnInv, NEW st \in {"object", "timeout"}, Replies(st)
  PROVE  OwnInv'
<1>1. /\ waits \in Seq(Cookie) /\ Head(waits) \in {1, 2} /\ frames \in Seq(Frame) /\ done \in Nat
      /\ ended \in [Cookie -> {"object", "timeout", "killed"}] /\ Head(waits) = waits[1]
      /\ \A i \in 1 .. Len(waits) - 1 : waits'[i] = waits[i + 1]
      /\ waits # <<>> /\ waits' \in Seq(Cookie)
  BY DEF Types, Cookie, Replies
<1>0. done' = done + 1 /\ frames' = frames /\ done \in Nat
  BY <1>1 DEF Replies
<1>2. /\ Holds(waits, 1) <=> 1 = Head(waits) \/ Holds(waits', 1)
      /\ Len(waits') = Len(waits) - 1 /\ Len(waits) \in Nat /\ Len(waits) >= 1
  BY <1>1, HoldsTail DEF Replies
<1>3. Taken(frames) \in Nat /\ Len(frames) \in Nat
  BY <1>1, TakenTop DEF Taken
<1>4. Conserved'
  <2>1. done' + Taken(frames') + Len(waits') <= Len(frames')
    BY <1>0, <1>2, <1>3, OwnParts
  <2> QED BY <2>1 DEF Conserved
<1>5. ASSUME NEW i \in 1 .. Len(waits'), waits'[i] = 1 PROVE i = Len(waits')
  <2>1. i + 1 \in 1 .. Len(waits) /\ waits[i + 1] = 1
    BY <1>1, <1>2, <1>5
  <2>2. i + 1 = Len(waits)
    BY <2>1, OwnParts
  <2> QED BY <1>2, <2>2
<1>6. CASE Head(waits) = 2
  <2>1. ended'[1] = ended[1] /\ Answered' = Answered /\ slot'.cookie = 2
    BY <1>1, <1>2, <1>6 DEF Answered, Cookie, Replies
  <2>2. Own(slot', Answered', ended'[1])
    BY <2>1 DEF Own
  <2>3. OwnFrames(frames', Answered', ended'[1])
    BY <1>0, <2>1 DEF OwnInv
  <2>4. Holds(waits', 1) => Holds(Cookies(frames'), 1)
    BY <1>0, <1>2 DEF OwnInv
  <2> QED BY <1>4, <1>5, <2>2, <2>3, <2>4 DEF OwnInv
<1>7. CASE Head(waits) = 1
  <2>1. Len(waits) = 1
    BY <1>1, <1>2, <1>7, OwnParts
  <2>2. ~Holds(waits', 1)
    <3>1. waits' \in Seq(Cookie) /\ Len(waits') = 0
      BY <1>1, <1>2, <2>1
    <3> QED BY <3>1, EmptySeq, EmptyHolds
  <2>3. Holds(Cookies(frames), 1) /\ ~Answered /\ Answered'
    BY <1>0, <1>2, <1>7, <2>2 DEF OwnInv, Answered
  <2>4. ended'[1] = st /\ slot'.signaled = st
    BY <1>1, <1>7 DEF Cookie, Replies
  <2>5. OwnFrames(frames', Answered', ended'[1])
    BY <1>0, <2>3, OwnMore DEF OwnInv
  <2> QED BY <1>4, <1>5, <2>2, <2>3, <2>4, <2>5 DEF OwnInv, Own
<1> QED BY <1>1, <1>6, <1>7

LEMMA KillOwn ==
  ASSUME Types, OwnInv, Kill
  PROVE  OwnInv'
<1>1. CASE waits = <<>>
  BY <1>1, SameOwn DEF Kill, history
<1>2. CASE waits # <<>>
  <2>1. /\ slot' = [cookie |-> Killed, signaled |-> "killed"] /\ done' = done + 1
        /\ waits' = <<>> /\ UNCHANGED <<frames, ended>>
    BY <1>2 DEF Kill, Send, history
  <2>2. Taken(frames) \in Nat /\ Len(frames) \in Nat /\ Len(waits) \in Nat /\ Len(waits) >= 1
    BY <1>2, TakenTop, HoldsTail DEF Taken, Types
  <2>3. Len(waits') = 0 /\ ~Holds(waits', 1)
    BY <2>1, EmptyHolds
  <2>4. Conserved'
    BY <2>1, <2>2, <2>3 DEF OwnInv, Conserved, Types
  <2>5. Answered => Answered'
    BY <2>1, <2>3 DEF Answered
  <2>6. OwnFrames(frames, Answered', ended[1])
    BY <2>5, OwnMore DEF OwnInv
  <2>7. slot'.cookie # 1
    BY <2>1 DEF Killed
  <2> QED BY <2>1, <2>3, <2>4, <2>6, <2>7 DEF OwnInv, Own
<1> QED BY <1>1, <1>2

\* A program that makes its next call has nothing pending and nothing unread.
LEMMA BeginOwn ==
  ASSUME Types, OwnInv, NEW c \in Cookie, Begins(c)
  PROVE  OwnInv'
<1>1. PICK f \in Frame :
        /\ f.cookie = c /\ f.pc = "read" /\ f.stolen = <<>>
        /\ frames' \in Seq(Frame) /\ frames' # <<>> /\ Head(frames') = f /\ Tail(frames') = frames
        /\ Len(frames') = Len(frames) + 1 /\ Len(frames) \in {0, 1}
        /\ Cookies(frames') = <<c>> \o Cookies(frames)
  BY BeginFrames
<1>2. /\ waits \in Seq(Cookie) /\ frames \in Seq(Frame) /\ Cookies(frames) \in Seq(Cookie)
      /\ done \in Nat /\ waits' = <<c>> \o waits /\ (c = 2 \/ frames = <<>>)
      /\ UNCHANGED <<slot, done, ended>>
  BY CookiesSeq DEF Types, Begins
<1>3. /\ Holds(waits', 1) <=> 1 = c \/ Holds(waits, 1)
      /\ Len(waits') = Len(waits) + 1 /\ Len(waits) \in Nat
      /\ Holds(Cookies(frames'), 1) <=> 1 = c \/ Holds(Cookies(frames), 1)
  BY <1>1, <1>2, HoldsPush
<1>4. Held(f) = 0
  BY <1>1 DEF Held
<1>5. Len(frames') \in {0, 1, 2}
  <2>1. Len(frames') = Len(frames) + 1 /\ Len(frames) \in {0, 1}
    BY <1>1
  <2> QED BY <2>1, NatSums, Zenon
<1>6. Taken(frames') = Taken(frames) /\ Taken(frames) \in Nat
  <2>1. Taken(frames') = Held(f) + Taken(frames) /\ Taken(frames) \in Nat
    BY <1>1, <1>5, TakenPop
  <2> QED BY <1>4, <2>1
<1>7. Conserved'
  BY <1>1, <1>2, <1>3, <1>6 DEF OwnInv, Conserved
<1>8. \A a, e : OwnFrame(f, a, e)
  BY <1>1 DEF OwnFrame
<1>9. ~At("copy")'
  BY <1>1 DEF At
<1>10. c = 1 => done = 0 /\ Len(waits) = 0
  <2>1. c = 1 => Len(frames) = 0
    BY <1>2
  <2> QED BY <1>2, <1>3, <1>6, <2>1 DEF OwnInv, Conserved
<1>11. ASSUME NEW i \in 1 .. Len(waits'), waits'[i] = 1 PROVE i = Len(waits')
  <2>1. waits'[i] = IF i = 1 THEN c ELSE waits[i - 1]
    BY <1>2, <1>3
  <2>2. CASE i = 1
    BY <1>3, <1>10, <1>11, <2>1, <2>2
  <2>3. CASE i # 1
    <3>1. i - 1 \in 1 .. Len(waits) /\ waits[i - 1] = 1
      BY <1>3, <1>11, <2>1, <2>3
    <3> QED BY <1>3, <3>1 DEF OwnInv
  <2> QED BY <2>2, <2>3
<1>12. CASE c = 1
  <2>1. OwnFrames(frames', Answered', ended'[1])
    <3>1. Tail(frames') = <<>>
      BY <1>1, <1>2, <1>12
    <3> QED BY <1>1, <1>8, <3>1, OwnSplit, OwnEmpty
  <2> QED BY <1>2, <1>3, <1>7, <1>9, <1>10, <1>11, <1>12, <2>1 DEF OwnInv
<1>13. CASE c # 1
  <2>1. Answered' = Answered
    BY <1>3, <1>13 DEF Answered
  <2>2. OwnFrames(frames', Answered', ended'[1])
    BY <1>1, <1>2, <1>8, <2>1, OwnSplit DEF OwnInv
  <2> QED BY <1>2, <1>3, <1>7, <1>9, <1>11, <1>13, <2>1, <2>2 DEF OwnInv
<1> QED BY <1>12, <1>13

\* The call on top takes a reply, looks at it, keeps it or gives it back.
LEMMA TopOwn ==
  ASSUME Types, OwnInv, frames # <<>>, NEW f \in Frame, f.cookie = Head(frames).cookie, SetTop(f),
         UNCHANGED <<waits, ended>>, done' \in Nat,
         done' + Held(f) <= done + Held(Head(frames)),
         OwnFrame(f, Answered, ended[1]),
         done' > 0 \/ f.pc = "copy" => Own(slot', Answered, ended[1])
  PROVE  OwnInv'
<1>1. /\ frames' \in Seq(Frame) /\ frames' # <<>> /\ Head(frames') = f
      /\ Tail(frames') = Tail(frames) /\ Len(frames') = Len(frames)
      /\ Cookies(frames') = Cookies(frames)
  BY TopStep
<1>2. frames \in Seq(Frame) /\ waits \in Seq(Cookie) /\ done \in Nat /\ Head(frames) \in Frame
  BY FrameHead DEF Types
<1>3. /\ Taken(frames) \in Nat /\ Taken(frames') \in Nat
      /\ Taken(frames') - Held(f) = Taken(frames) - Held(Head(frames))
  BY <1>1, <1>2, TakenTop
<1>4. Held(f) \in Nat /\ Held(Head(frames)) \in Nat
  BY <1>2, HeldNat
<1>5. Len(frames) \in Nat /\ Len(waits) \in Nat
  BY <1>2
<1>6. Conserved'
  BY <1>1, <1>2, <1>3, <1>4, <1>5 DEF OwnInv, Conserved
<1>7. Answered' = Answered
  BY <1>1 DEF Answered
<1>8. OwnFrames(frames', Answered', ended'[1])
  BY <1>1, <1>2, <1>7, OwnSplit DEF OwnInv
<1>9. At("copy")' => f.pc = "copy"
  BY <1>1 DEF At
<1> QED BY <1>1, <1>6, <1>7, <1>8, <1>9 DEF OwnInv

\* The call on top returns.  If it is the program's, it leaves nothing behind.
LEMMA ReturnOwn ==
  ASSUME Types, OwnInv, frames # <<>>, Head(frames).pc # "read", frames' = Tail(frames),
         UNCHANGED <<waits, done, ended>>, done > 0 => Own(slot', Answered, ended[1])
  PROVE  OwnInv' /\ (Head(frames).cookie = 1 => done = 0 /\ waits = <<>>)
<1>1. /\ frames \in Seq(Frame) /\ waits \in Seq(Cookie) /\ done \in Nat /\ Head(frames) \in Frame
      /\ Len(frames) \in {0, 1, 2} /\ Len(waits) \in Nat
      /\ Head(frames).cookie = 1 => Tail(frames) = <<>>
  BY FrameHead, FramesShort DEF Types
<1>2. /\ Taken(frames) = Held(Head(frames)) + Taken(frames') /\ Taken(frames') \in Nat
      /\ Held(Head(frames)) \in Nat /\ Held(Head(frames)) >= 1
  BY <1>1, TakenPop, HeldNat
<1>3. Len(frames') = Len(frames) - 1 /\ Len(frames) >= 1 /\ frames' \in Seq(Frame)
  BY <1>1
<1>4. Conserved'
  BY <1>1, <1>2, <1>3 DEF OwnInv, Conserved
<1>5. ASSUME Len(frames) = 1 PROVE done = 0 /\ Len(waits) = 0
  BY <1>1, <1>2, <1>5 DEF OwnInv, Conserved
<1>6. ASSUME Head(frames).cookie = 1 PROVE Len(frames) = 1
  <2>1. Len(frames') = 0
    BY <1>1, <1>6
  <2> QED BY <1>1, <1>3, <2>1
<1>7. Len(waits) = 0 => waits = <<>>
  BY <1>1, EmptySeq
<1>8. OwnInv'
  <2>1. ~At("copy")'
    BY DEF At, Types
  <2>2. CASE Head(frames).cookie = 1
    <3>1. done = 0 /\ waits = <<>> /\ frames' = <<>> /\ Len(waits) = 0
      BY <1>1, <1>5, <1>6, <1>7, <2>2
    <3>2. ~Holds(waits', 1)
      BY <3>1, EmptyHolds
    <3>3. Len(waits') = 0 /\ ~(done' > 0) /\ OwnFrames(frames', Answered', ended'[1])
      <4>1. Len(waits') = 0 /\ done' = 0
        BY <3>1
      <4>2. OwnFrames(frames', Answered', ended'[1])
        BY <3>1, OwnEmpty, Zenon
      <4> QED BY <4>1, <4>2
    <3>4. \A i \in 1 .. Len(waits') : waits'[i] = 1 => i = Len(waits')
      BY <3>3
    <3> QED BY <1>4, <2>1, <3>2, <3>3, <3>4 DEF OwnInv
  <2>3. CASE Head(frames).cookie # 1
    <3>1. /\ Cookies(frames) # <<>> /\ Cookies(frames) \in Seq(Cookie)
          /\ Head(Cookies(frames)) = Head(frames).cookie /\ Cookies(frames') = Tail(Cookies(frames))
      BY <1>1, CookiesPop, CookiesSeq
    <3>2. Holds(Cookies(frames), 1) <=> Holds(Cookies(frames'), 1)
      BY <2>3, <3>1, HoldsTail
    <3>3. Answered' = Answered
      BY <3>2 DEF Answered
    <3>4. OwnFrames(frames', Answered', ended'[1])
      BY <1>1, <3>3, OwnSplit DEF OwnInv
    <3> QED BY <1>4, <2>1, <3>2, <3>3, <3>4 DEF OwnInv
  <2> QED BY <2>2, <2>3
<1> QED BY <1>5, <1>6, <1>7, <1>8

LEMMA CheckOwn ==
  ASSUME Types, OwnInv, Check, alive'
  PROVE  OwnInv'
<1> DEFINE t == Head(frames)
<1>1. /\ frames # <<>> /\ t \in Frame /\ t.pc = "check" /\ t.pc # "read"
      /\ UNCHANGED <<waits, slot, done, ended>> /\ done \in Nat
      /\ CheckAborts \/ CheckReturns \/ CheckGoesBack \/ CheckKeeps
  BY CheckStep DEF At, Types
<1>2. OwnFrame(t, Answered, ended[1]) /\ frames \in Seq(Frame)
  BY <1>1, OwnSplit DEF OwnInv, Types
<1>3. done > 0 => Own(slot', Answered, ended[1])
  BY <1>1 DEF OwnInv
<1>4. CASE CheckReturns
  BY <1>1, <1>3, <1>4, ReturnOwn DEF CheckReturns
<1>5. CASE CheckGoesBack
  <2>1. PICK f \in Frame : /\ f.cookie = t.cookie /\ SetTop(f) /\ f.pc = "back"
                           /\ f.got = t.got /\ f.stolen = t.stolen
    BY <1>5 DEF CheckGoesBack
  <2>2. Held(f) = Held(t) /\ Held(t) \in Nat
    BY <1>1, <2>1, HeldNat DEF Held
  <2>3. OwnFrame(f, Answered, ended[1])
    BY <1>1, <1>2, <2>1 DEF OwnFrame
  <2> QED BY <1>1, <1>3, <2>1, <2>2, <2>3, TopOwn
<1>6. CASE CheckKeeps
  <2>1. PICK f \in Frame : /\ f.cookie = t.cookie /\ SetTop(f) /\ f.pc = "read"
                           /\ f.stolen = <<t.got>> \o t.stolen
    BY <1>6 DEF CheckKeeps
  <2>2. t.stolen \in Seq(Reply) /\ t.got \in Reply
    BY <1>1, FrameFields
  <2>3. /\ Len(f.stolen) = Len(t.stolen) + 1 /\ Len(t.stolen) \in Nat
        /\ \A j \in 1 .. Len(f.stolen) :
             f.stolen[j] = IF j = 1 THEN t.got ELSE t.stolen[j - 1]
    BY <2>1, <2>2
  <2>4. Held(f) = Held(t) /\ Held(t) \in Nat
    BY <1>1, <2>1, <2>3, HeldNat DEF Held
  <2>5. ASSUME NEW j \in 1 .. Len(f.stolen) PROVE Own(f.stolen[j], Answered, ended[1])
    <3>1. CASE j = 1
      BY <1>1, <1>2, <2>3, <3>1 DEF OwnFrame
    <3>2. CASE j # 1
      <4>1. j - 1 \in 1 .. Len(t.stolen) /\ f.stolen[j] = t.stolen[j - 1]
        BY <2>3, <3>2
      <4> QED BY <1>2, <4>1 DEF OwnFrame
    <3> QED BY <3>1, <3>2
  <2>6. OwnFrame(f, Answered, ended[1])
    BY <2>1, <2>5 DEF OwnFrame
  <2> QED BY <1>1, <1>3, <2>1, <2>4, <2>6, TopOwn
<1>7. ~CheckAborts
  BY DEF CheckAborts
<1> QED BY <1>1, <1>4, <1>5, <1>6, <1>7

LEMMA PutBackOwn ==
  ASSUME Types, OwnInv, PutBack
  PROVE  OwnInv'
<1> DEFINE t == Head(frames)
<1>1. /\ frames # <<>> /\ t \in Frame /\ t.pc = "back" /\ t.pc # "read" /\ done \in Nat
      /\ t.stolen \in Seq(Reply) /\ t.stolen # <<>> /\ slot' = Head(t.stolen)
      /\ UNCHANGED <<waits, done, ended>>
      /\ PutBackReturns \/ PutBackMore
  BY PutBackStep DEF At, Types
<1>2. OwnFrame(t, Answered, ended[1]) /\ frames \in Seq(Frame)
  BY <1>1, OwnSplit DEF OwnInv, Types
<1>3. Own(slot', Answered, ended[1])
  <2>1. Head(t.stolen) = t.stolen[1] /\ 1 \in 1 .. Len(t.stolen)
    BY <1>1
  <2> QED BY <1>1, <1>2, <2>1 DEF OwnFrame
<1>4. CASE PutBackReturns
  <2>1. frames' = Tail(frames) /\ UNCHANGED <<waits, done, ended>>
    BY <1>1, <1>4, Zenon DEF PutBackReturns
  <2> QED BY <1>1, <1>3, <2>1, ReturnOwn
<1>5. CASE PutBackMore
  <2>1. PICK f \in Frame : /\ f.cookie = t.cookie /\ SetTop(f) /\ f.pc = "back"
                           /\ f.got = t.got /\ f.stolen = Tail(t.stolen)
    BY <1>5 DEF PutBackMore
  <2>2. /\ Len(f.stolen) = Len(t.stolen) - 1 /\ Len(t.stolen) \in Nat /\ Len(t.stolen) >= 1
        /\ \A j \in 1 .. Len(f.stolen) : j + 1 \in 1 .. Len(t.stolen) /\ f.stolen[j] = t.stolen[j + 1]
    BY <1>1, <2>1
  <2>3. Held(f) <= Held(t) /\ Held(t) \in Nat /\ Held(f) \in Nat
    BY <1>1, <2>1, <2>2, HeldNat DEF Held
  <2>4. OwnFrame(f, Answered, ended[1])
    BY <1>1, <1>2, <2>1, <2>2 DEF OwnFrame
  <2>5. done' \in Nat /\ done' + Held(f) <= done + Held(t)
    <3>1. done \in Nat /\ done' = done
      BY <1>1
    <3> QED BY <2>3, <3>1
  <2>6. UNCHANGED <<waits, ended>> /\ f.cookie = Head(frames).cookie /\ SetTop(f)
    BY <1>1, <2>1, Zenon
  <2> QED BY <1>1, <1>3, <2>4, <2>5, <2>6, TopOwn
<1> QED BY <1>1, <1>4, <1>5

LEMMA NextOwn ==
  ASSUME Types, alive /\ ~stray => OwnInv, [Next]_vars
  PROVE  (alive /\ ~stray => OwnInv)'
<1>0. alive' /\ ~stray' => alive /\ ~stray
  BY DEF Next, Wake, WakeThread, WakeThreadEnd, Timeout, SetEvent, Suspend, Resume, Kill, Select,
         SignalAndWait, Handler, Quit, Client, Read, Copy, Check, PutBack, history, vars, clientVars
<1> SUFFICES ASSUME alive', ~stray', OwnInv PROVE OwnInv'
  BY <1>0
<1>1. CASE WakeThread
  <2>1. PICK st \in {"object", "timeout"} :
          /\ slot' = [cookie |-> Head(waits), signaled |-> st] /\ done' = done + 1
          /\ ended' = [ended EXCEPT ![Head(waits)] = st]
    BY <1>1 DEF WakeThread, Send
  <2>2. waits # <<>> /\ waits' = Tail(waits) /\ UNCHANGED frames
    BY <1>1 DEF WakeThread, Satisfied, clientVars
  <2> QED BY <2>1, <2>2, ReplyOwn DEF Replies
<1>2. CASE Timeout
  <2>1. /\ slot' = [cookie |-> Head(waits), signaled |-> "timeout"] /\ done' = done + 1
        /\ ended' = [ended EXCEPT ![Head(waits)] = "timeout"]
        /\ waits # <<>> /\ waits' = Tail(waits) /\ UNCHANGED frames
    BY <1>2 DEF Timeout, Send, clientVars
  <2> QED BY <2>1, ReplyOwn DEF Replies
<1>3. CASE WakeThreadEnd \/ SetEvent \/ Suspend \/ Resume
  BY <1>3, SameOwn DEF WakeThreadEnd, SetEvent, Suspend, Resume, clientVars, history
<1>4. CASE Select
  <2>1. CASE Begins(1)
    BY <2>1, BeginOwn DEF Cookie
  <2>2. CASE UNCHANGED <<waits, frames, slot, done, alive, ended, killed, sigquit, stray>>
    BY <2>2, SameOwn
  <2> QED BY <1>4, <2>1, <2>2, SelectStep
<1>5. CASE SignalAndWait
  BY <1>5 DEF SignalAndWait
<1>6. CASE Handler
  <2>1. CASE Begins(2)
    BY <2>1, BeginOwn DEF Cookie
  <2>2. CASE UNCHANGED <<waits, frames, slot, done, alive, ended, killed, sigquit, stray, crossed>>
    BY <2>2, SameOwn
  <2> QED BY <1>6, <2>1, <2>2, HandlerStep
<1>7. CASE Quit
  BY <1>7 DEF Quit
<1>8. CASE Read
  <2>1. PICK f \in Frame :
          /\ f.cookie = Head(frames).cookie /\ SetTop(f) /\ f.pc = "copy"
          /\ f.stolen = Head(frames).stolen
          /\ frames # <<>> /\ At("read") /\ done > 0 /\ done' = done - 1
          /\ UNCHANGED <<waits, slot, ended>>
    BY <1>8, ReadStep
  <2>2. done \in Nat /\ frames \in Seq(Frame) /\ Head(frames) \in Frame
    BY <2>1, FrameHead DEF Types
  <2>3. done' \in Nat /\ done' + Held(f) <= done + Held(Head(frames))
    <3>1. Len(f.stolen) \in Nat
      BY FrameFields
    <3> QED BY <2>1, <2>2, <3>1 DEF Held, At
  <2>4. OwnFrame(Head(frames), Answered, ended[1])
    BY <2>1, <2>2, OwnSplit DEF OwnInv
  <2>5. OwnFrame(f, Answered, ended[1])
    BY <2>1, <2>4 DEF OwnFrame
  <2>6. Own(slot', Answered, ended[1])
    BY <2>1 DEF OwnInv
  <2> QED BY <2>1, <2>3, <2>5, <2>6, TopOwn
<1>9. CASE Copy
  <2>1. PICK f \in Frame :
          /\ f.cookie = Head(frames).cookie /\ SetTop(f) /\ f.pc = "check"
          /\ f.stolen = Head(frames).stolen /\ f.got = slot
          /\ frames # <<>> /\ At("copy") /\ UNCHANGED <<waits, slot, done, ended>>
    BY <1>9, CopyStep
  <2>2. done \in Nat /\ frames \in Seq(Frame) /\ Head(frames) \in Frame
    BY <2>1, FrameHead DEF Types
  <2>3. Held(f) = Held(Head(frames)) /\ Held(f) \in Nat
    BY <2>1, HeldNat DEF Held, At
  <2>4. OwnFrame(Head(frames), Answered, ended[1]) /\ Own(slot, Answered, ended[1])
    BY <2>1, <2>2, OwnSplit DEF OwnInv
  <2>5. OwnFrame(f, Answered, ended[1])
    BY <2>1, <2>4 DEF OwnFrame
  <2> QED BY <2>1, <2>2, <2>3, <2>4, <2>5, TopOwn
<1>10. CASE UNCHANGED vars
  BY <1>10, SameOwn DEF vars, serverVars, clientVars, history
<1> QED
  BY <1>1, <1>2, <1>3, <1>4, <1>5, <1>6, <1>7, <1>8, <1>9, <1>10, KillOwn, CheckOwn, PutBackOwn
  DEF Next, Wake, Client

LEMMA OwnAlways == Spec => [](Types /\ (alive /\ ~stray => OwnInv))
<1>1. Init => Types /\ OwnInv
  <2> SUFFICES ASSUME Init PROVE OwnInv
    BY InitTypes
  <2>1. waits = <<>> /\ frames = <<>> /\ Len(waits) = 0 /\ Len(frames) = 0 /\ done = 0
    BY DEF Init
  <2>2. ~Holds(waits, 1)
    BY <2>1, EmptyHolds
  <2> QED BY <2>1, <2>2, OwnEmpty DEF OwnInv, Conserved, Taken, At
<1>2. Types /\ (alive /\ ~stray => OwnInv) /\ [Next]_vars => (Types /\ (alive /\ ~stray => OwnInv))'
  BY NextTypes, NextOwn
<1> QED BY <1>1, <1>2, PTL DEF Spec

\* send_thread_wakeup and the client: as long as SELECT_SIGNAL_AND_WAIT leaves
\* no stray replies, there are never more replies on their way and kept than
\* calls of wait_select_reply whose wait has ended, whatever crosses what.
THEOREM RepliesConserved == Spec => [](alive /\ ~stray => Conserved)
<1>1. (alive /\ ~stray => OwnInv) => (alive /\ ~stray => Conserved)
  BY DEF OwnInv
<1> QED BY <1>1, OwnAlways, PTL

-----------------------------------------------------------------------------
(* Selects return.                                                          *)

\* A call returns in __wait_select_reply, or after its last write().
LEMMA Shrinks ==
  ASSUME Types, [Next]_vars, Len(frames') < Len(frames), alive'
  PROVE  (Check /\ CheckReturns) \/ (PutBack /\ PutBackReturns)
<1>0. frames \in Seq(Frame) /\ Len(frames) \in Nat
  BY DEF Types
<1>s. frames' # frames
  BY <1>0
<1>t. ASSUME frames # <<>>, NEW f \in Frame, f.cookie = Head(frames).cookie, SetTop(f) PROVE FALSE
  <2>1. Len(frames') = Len(frames)
    BY <1>t, TopStep
  <2> QED BY <1>0, <2>1
<1>b. ASSUME NEW c \in Cookie, Begins(c) PROVE FALSE
  <2>1. Len(frames') = Len(frames) + 1
    BY <1>b, BeginFrames
  <2> QED BY <1>0, <2>1
<1>1. CASE Wake \/ Timeout \/ SetEvent \/ Suspend \/ Resume \/ Kill \/ SignalAndWait \/ UNCHANGED vars
  BY <1>s, <1>1 DEF Wake, WakeThread, WakeThreadEnd, Timeout, SetEvent, Suspend, Resume, Kill,
                    SignalAndWait, vars, clientVars
<1>2. CASE Select
  BY <1>s, <1>b, <1>2, SelectStep DEF Cookie
<1>3. CASE Handler
  BY <1>s, <1>b, <1>3, HandlerStep DEF Cookie
<1>4. CASE Quit
  BY <1>4 DEF Quit
<1>5. CASE Read
  BY <1>t, <1>5, ReadStep
<1>6. CASE Copy
  BY <1>t, <1>6, CopyStep
<1>7. CASE Check
  <2>1. /\ frames # <<>>
        /\ CheckAborts \/ CheckReturns \/ CheckGoesBack \/ CheckKeeps
    BY <1>7, CheckStep
  <2>2. ~CheckAborts
    BY DEF CheckAborts
  <2>3. ~CheckGoesBack
    BY <1>t, <2>1 DEF CheckGoesBack
  <2>4. ~CheckKeeps
    BY <1>t, <2>1 DEF CheckKeeps
  <2> QED BY <1>7, <2>1, <2>2, <2>3, <2>4
<1>8. CASE PutBack
  BY <1>t, <1>8, PutBackStep DEF PutBackMore
<1> QED BY <1>1, <1>2, <1>3, <1>4, <1>5, <1>6, <1>7, <1>8 DEF Next, Client

\* Until replies cross, its wait has ended, with the status it has seen.
LEMMA SeenOwn ==
  ASSUME Types, ChannelInv,
         \/ At("check") /\ Head(frames).got.cookie = Head(frames).cookie
         \/ At("back") /\ alive
  PROVE  Seen /\ ~Holds(waits, Head(frames).cookie) /\ frames # <<>>
<1>0. frames # <<>> /\ alive
  BY DEF At, Types
<1>1. Seen /\ (TopReply \/ KillReply)
  <2>1. CASE At("check") /\ Head(frames).got.cookie = Head(frames).cookie
    <3>1. Message = Head(frames).got /\ Head(frames).cookie \in {1, 2} /\ OnItsWay /\ ~At("back")
      BY <2>1, CheckTop
    <3>2. ~NoReply
      BY <2>1, <3>1 DEF NoReply, Junk
    <3>3. TopReply => Seen
      BY <3>1 DEF TopReply, Seen
    <3>4. KillReply => Seen
      BY <2>1 DEF KillReply
    <3> QED BY <1>0, <3>2, <3>3, <3>4 DEF ChannelInv
  <2>2. CASE At("back")
    <3>1. ~NoReply
      BY <2>2 DEF NoReply
    <3> QED BY <1>0, <2>2, <3>1, BackTop DEF ChannelInv, Seen
  <2> QED BY <2>1, <2>2
<1>2. ~Holds(waits, Head(frames).cookie)
  <2>1. CASE KillReply
    BY <2>1, EmptyHolds DEF KillReply
  <2>2. CASE TopReply
    <3>1. /\ Cookies(frames) # <<>> /\ Head(Cookies(frames)) = Head(frames).cookie
          /\ Cookies(frames) \in Stack /\ Tail(Cookies(frames)) = waits
      BY <1>0, <2>2, CookiesPop DEF Types, TopReply
    <3>2. ~Holds(Tail(Cookies(frames)), Head(Cookies(frames)))
      BY <3>1, StackPop
    <3> QED BY <3>1, <3>2
  <2> QED BY <1>1, <2>1, <2>2
<1> QED BY <1>0, <1>1, <1>2

\* Without stray replies, so it is for the program's calls even later.
LEMMA ProgramOwn ==
  ASSUME Types, OwnInv, Head(frames).cookie = 1, frames' = Tail(frames),
         \/ Check /\ CheckReturns
         \/ PutBack
  PROVE  Seen /\ ~Holds(waits, 1)
<1>1. CASE Check /\ CheckReturns
  <2>1. /\ frames # <<>> /\ At("check") /\ UNCHANGED <<waits, slot, done, ended>>
        /\ Head(frames).got.cookie = 1
    BY <1>1, CheckStep DEF CheckReturns
  <2>2. Head(frames).pc = "check" /\ Head(frames).pc # "read" /\ frames \in Seq(Frame)
    BY <2>1 DEF At, Types
  <2>3. done > 0 => Own(slot', Answered, ended[1])
    BY <2>1 DEF OwnInv
  <2>4. UNCHANGED <<waits, done, ended>>
    BY <2>1
  <2>5. waits = <<>>
    BY <2>1, <2>2, <2>3, <2>4, ReturnOwn
  <2>6. OwnFrame(Head(frames), Answered, ended[1])
    BY <2>1, <2>2, OwnSplit DEF OwnInv
  <2>7. Head(frames).got.signaled = ended[1]
    BY <2>1, <2>2, <2>6 DEF OwnFrame, Own
  <2> QED BY <2>5, <2>7, EmptyHolds DEF Seen
<1>2. CASE PutBack
  <2>1. frames # <<>> /\ At("back") /\ Head(frames) \in Frame /\ Head(frames).stolen # <<>>
    BY <1>2, PutBackStep
  <2>2. Head(frames).pc = "back" /\ Head(frames).pc # "read" /\ frames \in Seq(Frame)
    BY <2>1 DEF At, Types
  <2>3. Len(frames) = 1
    <3>1. Tail(frames) = <<>> /\ Len(frames) \in {0, 1, 2}
      BY <2>1, <2>2, FramesShort DEF Types
    <3>2. Len(Tail(frames)) = Len(frames) - 1
      BY <2>1, <2>2
    <3>0. Len(<<>>) = 0
      OBVIOUS
    <3>3. Len(Tail(frames)) = 0
      BY <3>0, <3>1, Zenon
    <3>4. \A n \in {0, 1, 2} : n - 1 = 0 => n = 1
      OBVIOUS
    <3> QED BY <3>1, <3>2, <3>3, <3>4, Zenon
  <2>4. Held(Head(frames)) >= 2 /\ Held(Head(frames)) \in Nat
    <3>1. Head(frames).stolen \in Seq(Reply)
      BY <2>1, FrameFields
    <3>2. Len(Head(frames).stolen) \in Nat /\ Len(Head(frames).stolen) >= 1
      BY <2>1, <3>1
    <3>3. Held(Head(frames)) = Len(Head(frames).stolen) + 1
      BY <2>2 DEF Held
    <3> QED BY <3>2, <3>3
  <2>5. Taken(frames) = Held(Head(frames)) + Taken(Tail(frames)) /\ Taken(Tail(frames)) \in Nat
    BY <2>1, <2>2, <2>3, TakenPop
  <2>6. done \in Nat /\ Len(waits) \in Nat
    BY DEF Types
  <2>7. done + Taken(frames) + Len(waits) <= Len(frames)
    BY OwnParts
  <2>8. FALSE
    BY <2>3, <2>4, <2>5, <2>6, <2>7
  <2> QED BY <2>8
<1> QED BY <1>1, <1>2

\* A select returns when the server has ended its wait, and with the status of
\* that wait: any select until replies cross, those of the program even then,
\* as long as no stray reply was sent.
THEOREM RepliesAreOwn == Spec => ReturnsOwnStatus
<1> DEFINE f == Head(frames)
           Inv == /\ Types
                  /\ ~crossed => ChannelInv
                  /\ alive /\ ~stray => OwnInv
           Returns == /\ Len(frames') < Len(frames) /\ alive'
                      /\ ~crossed \/ (f.cookie = 1 /\ ~stray)
                      => ~Pending(f.cookie) /\ f.got.signaled = ended[f.cookie]
<1>1. Inv /\ [Next]_vars => [Returns]_vars
  <2> SUFFICES ASSUME Inv, [Next]_vars, Len(frames') < Len(frames), alive',
                      ~crossed \/ (f.cookie = 1 /\ ~stray)
               PROVE  ~Pending(f.cookie) /\ f.got.signaled = ended[f.cookie]
    OBVIOUS
  <2>1. (Check /\ CheckReturns) \/ (PutBack /\ PutBackReturns)
    BY Shrinks
  <2>2. frames' = Tail(frames) /\ alive
    BY <2>1, CheckStep, PutBackStep DEF CheckReturns, PutBackReturns
  <2>3. CASE ~crossed
    <3>1. \/ At("check") /\ f.got.cookie = f.cookie
          \/ At("back") /\ alive
      BY <2>1, CheckStep, PutBackStep DEF CheckReturns
    <3>2. Seen /\ ~Holds(waits, f.cookie)
      BY <2>3, <3>1, SeenOwn
    <3> QED BY <3>2 DEF Seen, Pending, Holds
  <2>4. CASE f.cookie = 1 /\ ~stray
    <3>1. Seen /\ ~Holds(waits, 1)
      BY <2>1, <2>2, <2>4, ProgramOwn
    <3> QED BY <2>4, <3>1 DEF Seen, Pending, Holds
  <2> QED BY <2>3, <2>4
<1> QED BY <1>1, ChannelAlways, OwnAlways, PTL DEF Spec, ReturnsOwnStatus

-----------------------------------------------------------------------------
(* The channel is a pipe.                                                   *)

\* What the pipe knows of the call with cookie c, when the client's calls are s
\* and the server's waits w.
CallIn(s, w, c) == IF ~Holds(Cookies(s), c) THEN "idle"
                   ELSE IF Holds(w, c) THEN "waiting" ELSE "sent"

CallsIn(s, w) == [c \in Cookie |-> CallIn(s, w, c)]

\* CallsIn is the refinement mapping, before and after a step.
LEMMA CallMapped ==
  ASSUME NEW s \in Seq(Frame), NEW w
  PROVE  [c \in Cookie |-> IF ~(\E i \in DOMAIN s : s[i].cookie = c) THEN "idle"
                           ELSE IF \E i \in DOMAIN w : w[i] = c THEN "waiting" ELSE "sent"]
         = CallsIn(s, w)
<1>1. ASSUME NEW c \in Cookie
      PROVE  (\E i \in DOMAIN s : s[i].cookie = c) <=> Holds(Cookies(s), c)
  <2>1. /\ DOMAIN s = 1 .. Len(s) /\ DOMAIN Cookies(s) = 1 .. Len(s)
        /\ \A i \in 1 .. Len(s) : Cookies(s)[i] = s[i].cookie
    BY CookiesSeq
  <2> QED BY <2>1 DEF Holds
<1>2. ASSUME NEW c \in Cookie
      PROVE  (\E i \in DOMAIN w : w[i] = c) <=> Holds(w, c)
  BY DEF Holds
<1> QED BY <1>1, <1>2 DEF CallsIn, CallIn

\* A step of the channel is a step of the pipe if it is one of the calls as
\* CallsIn gives them.
PipeStep ==
  LET k == CallsIn(frames, waits)
      n == CallsIn(frames', waits')
  IN  \/ n = k /\ alive' = alive
      \/ \E c \in Cookie : alive /\ k[c] = "idle" /\ n = [k EXCEPT ![c] = "waiting"] /\ alive' = alive
      \/ \E c \in Cookie : k[c] = "sent" /\ n = [k EXCEPT ![c] = "idle"] /\ alive' = alive
      \/ \E C \in SUBSET Cookie :
           /\ C # {} /\ (\A c \in C : k[c] = "waiting")
           /\ n = [c \in Cookie |-> IF c \in C THEN "sent" ELSE k[c]]
           /\ alive' = alive
      \/ alive' = FALSE /\ n = [c \in Cookie |-> "idle"]

LEMMA PipeStepMapped ==
  ASSUME frames \in Seq(Frame), frames' \in Seq(Frame), PipeStep, ~crossed, ~crossed'
  PROVE  [Pipe!Next]_(Pipe!vars)
<1> DEFINE k == [c \in Cookie |-> IF ~Waiting(c) THEN "idle"
                                  ELSE IF Pending(c) THEN "waiting" ELSE "sent"]
<1>1. k = CallsIn(frames, waits)
  BY CallMapped DEF Waiting, Pending
<1>2. k' = CallsIn(frames', waits')
  BY CallMapped DEF Waiting, Pending
<1>3. PipeStep => \/ k' = k /\ alive' = alive
                  \/ \E c \in Cookie : alive /\ k[c] = "idle" /\ k' = [k EXCEPT ![c] = "waiting"] /\ alive' = alive
                  \/ \E c \in Cookie : k[c] = "sent" /\ k' = [k EXCEPT ![c] = "idle"] /\ alive' = alive
                  \/ \E C \in SUBSET Cookie :
                       /\ C # {} /\ (\A c \in C : k[c] = "waiting")
                       /\ k' = [c \in Cookie |-> IF c \in C THEN "sent" ELSE k[c]]
                       /\ alive' = alive
                  \/ alive' = FALSE /\ k' = [c \in Cookie |-> "idle"]
  <2> HIDE DEF k
  <2> QED BY <1>1, <1>2, Zenon DEF PipeStep
<1> QED
  BY <1>3 DEF Pipe!Next, Pipe!Works, Pipe!vars, Pipe!Call, Pipe!Return, Pipe!Wake, Pipe!Abort

LEMMA SamePipe ==
  ASSUME Cookies(frames') = Cookies(frames), UNCHANGED <<waits, alive>>
  PROVE  PipeStep
BY DEF PipeStep, CallsIn, CallIn

\* The server ends waits: those of calls become replies sent, one that outlived
\* the client's exit nothing.
LEMMA WakesPipe ==
  ASSUME \A c : Holds(waits', c) => Holds(waits, c), UNCHANGED <<frames, alive>>
  PROVE  PipeStep
<1> DEFINE k == CallsIn(frames, waits)
           n == CallsIn(frames', waits')
           C == {c \in Cookie : k[c] = "waiting" /\ ~Holds(waits', c)}
<1>1. \A c \in Cookie : k[c] = CallIn(frames, waits, c) /\ n[c] = CallIn(frames, waits', c)
  BY DEF CallsIn
<1>2. \A c \in Cookie : n[c] = IF c \in C THEN "sent" ELSE k[c]
  BY <1>1 DEF CallIn
<1>3. n = [c \in Cookie |-> n[c]] /\ k = [c \in Cookie |-> k[c]]
  BY DEF CallsIn
<1> HIDE DEF k, n
<1>4. n = [c \in Cookie |-> IF c \in C THEN "sent" ELSE k[c]]
  BY <1>2, <1>3
<1>5. CASE C = {}
  <2>1. n = k
    BY <1>2, <1>3, <1>5
  <2> QED BY <2>1 DEF PipeStep, k, n
<1>6. CASE C # {}
  <2>1. C \in SUBSET Cookie /\ (\A c \in C : k[c] = "waiting")
    OBVIOUS
  <2> HIDE DEF C
  <2>2. \E D \in SUBSET Cookie :
          /\ D # {} /\ (\A c \in D : k[c] = "waiting")
          /\ n = [c \in Cookie |-> IF c \in D THEN "sent" ELSE k[c]]
          /\ alive' = alive
    BY <1>4, <1>6, <2>1
  <2> QED BY <2>2 DEF PipeStep, k, n
<1> QED BY <1>5, <1>6

LEMMA CallPipe ==
  ASSUME Types, ChannelInv, NEW c \in Cookie, Begins(c), frames = <<>> \/ Quiet
  PROVE  PipeStep
<1> DEFINE k == CallsIn(frames, waits)
           n == CallsIn(frames', waits')
<1>1. /\ frames \in Seq(Frame) /\ Cookies(frames') = <<c>> \o Cookies(frames)
      /\ waits' = <<c>> \o waits /\ alive /\ alive' = alive
      /\ (c = 2 \/ frames = <<>>) /\ (frames # <<>> => Head(frames).cookie = 1)
  BY BeginFrames DEF Begins, Types
<1>2. NoReply
  <2>1. frames = <<>> => ~TopReply /\ ~KillReply
    BY DEF TopReply, KillReply
  <2>2. Quiet /\ frames # <<>> => ~OnItsWay /\ ~At("back") /\ done = 0 /\ ~At("copy") /\ ~At("check")
    BY DEF Quiet, OnItsWay, At
  <2>3. Quiet /\ frames # <<>> => ~TopReply /\ ~KillReply
    BY <2>2 DEF TopReply, KillReply
  <2> QED BY <1>1, <2>1, <2>3 DEF ChannelInv
<1>3. Cookies(frames) = waits /\ waits \in Stack /\ Cookies(frames') = waits'
  BY <1>1, <1>2 DEF NoReply, ChannelInv
<1>4. (waits # <<>> => Head(waits) = 1) /\ (c = 2 \/ waits = <<>>)
  BY <1>1, <1>3, CookiesPop, CookiesSeq
<1>5. ~Holds(waits, c) /\ \A d \in Cookie : Holds(waits', d) <=> d = c \/ Holds(waits, d)
  BY <1>1, <1>3, <1>4, StackPush
<1>6. \A d \in Cookie : k[d] = IF Holds(waits, d) THEN "waiting" ELSE "idle"
  BY <1>3 DEF CallsIn, CallIn
<1>7. \A d \in Cookie : n[d] = IF Holds(waits', d) THEN "waiting" ELSE "idle"
  BY <1>3 DEF CallsIn, CallIn
<1>8. n = [d \in Cookie |-> n[d]] /\ k = [d \in Cookie |-> k[d]]
  BY DEF CallsIn
<1> HIDE DEF k, n
<1>9. k[c] = "idle" /\ n = [k EXCEPT ![c] = "waiting"]
  BY <1>5, <1>6, <1>7, <1>8
<1> QED BY <1>1, <1>9 DEF PipeStep, k, n

LEMMA ReturnPipe ==
  ASSUME Types, frames # <<>>, ~Holds(waits, Head(frames).cookie), frames' = Tail(frames),
         UNCHANGED <<waits, alive>>
  PROVE  PipeStep
<1> DEFINE k == CallsIn(frames, waits)
           n == CallsIn(frames', waits')
           t == Head(Cookies(frames))
<1>1. /\ Cookies(frames) # <<>> /\ Cookies(frames') = Tail(Cookies(frames))
      /\ Cookies(frames) \in Stack /\ t = Head(frames).cookie
  BY CookiesPop DEF Types
<1>2. /\ t \in Cookie /\ ~Holds(waits, t) /\ ~Holds(Cookies(frames'), t)
      /\ \A c \in Cookie : Holds(Cookies(frames), c) <=> c = t \/ Holds(Cookies(frames'), c)
  BY <1>1, StackPop
<1>3. \A d \in Cookie : k[d] = IF d = t THEN "sent" ELSE n[d]
  BY <1>2 DEF CallsIn, CallIn
<1>4. n[t] = "idle"
  BY <1>2 DEF CallsIn, CallIn
<1>5. n = [d \in Cookie |-> n[d]] /\ k = [d \in Cookie |-> k[d]]
  BY DEF CallsIn
<1> HIDE DEF k, n, t
<1>6. k[t] = "sent" /\ n = [k EXCEPT ![t] = "idle"]
  BY <1>2, <1>3, <1>4, <1>5
<1> QED BY <1>2, <1>6 DEF PipeStep, k, n

LEMMA AbortPipe ==
  ASSUME alive' = FALSE, frames' = <<>>
  PROVE  PipeStep
<1>1. Cookies(<<>>) = <<>>
  BY EmptySeq, CookiesSeq
<1>2. \A c : ~Holds(Cookies(frames'), c)
  BY <1>1, EmptyHolds
<1> QED BY <1>2 DEF PipeStep, CallsIn, CallIn

LEMMA TopPipe ==
  ASSUME Types, frames # <<>>, NEW f \in Frame, f.cookie = Head(frames).cookie, SetTop(f),
         UNCHANGED <<waits, alive>>
  PROVE  PipeStep
<1>1. Cookies(frames') = Cookies(frames)
  BY TopStep
<1> QED BY <1>1, SamePipe

LEMMA CheckPipe ==
  ASSUME Types, ChannelInv, Check
  PROVE  PipeStep
<1>1. /\ frames # <<>> /\ At("check") /\ UNCHANGED waits
      /\ CheckAborts \/ CheckReturns \/ CheckGoesBack \/ CheckKeeps
  BY CheckStep
<1>2. CASE CheckAborts
  BY <1>2, AbortPipe DEF CheckAborts
<1>3. CASE CheckReturns
  <2>1. ~Holds(waits, Head(frames).cookie)
    BY <1>1, <1>3, SeenOwn DEF CheckReturns
  <2> QED BY <1>1, <1>3, <2>1, ReturnPipe DEF CheckReturns
<1>4. CASE CheckGoesBack
  BY <1>1, <1>4, TopPipe DEF CheckGoesBack
<1>5. CASE CheckKeeps
  BY <1>1, <1>5, TopPipe DEF CheckKeeps
<1> QED BY <1>1, <1>2, <1>3, <1>4, <1>5

LEMMA PutBackPipe ==
  ASSUME Types, ChannelInv, PutBack
  PROVE  PipeStep
<1>1. /\ frames # <<>> /\ At("back") /\ alive /\ UNCHANGED <<waits, alive>>
      /\ PutBackReturns \/ PutBackMore
  BY PutBackStep
<1>2. CASE PutBackReturns
  <2>1. ~Holds(waits, Head(frames).cookie)
    BY <1>1, SeenOwn
  <2> QED BY <1>1, <1>2, <2>1, ReturnPipe DEF PutBackReturns
<1>3. CASE PutBackMore
  BY <1>1, <1>3, TopPipe DEF PutBackMore
<1> QED BY <1>1, <1>2, <1>3

LEMMA NextPipe ==
  ASSUME Types, ChannelInv, [Next]_vars, ~crossed'
  PROVE  PipeStep
<1>0. waits \in Stack
  BY DEF ChannelInv
<1>p. ASSUME waits # <<>> PROVE \A c : Holds(Tail(waits), c) => Holds(waits, c)
  <2>1. \A c : Holds(Tail(waits), c) => c \in Cookie
    BY <1>0, <1>p, StackPop, StackHolds
  <2> QED BY <1>0, <1>p, <2>1, StackPop
<1>1. CASE WakeThread
  BY <1>1, <1>p, WakesPipe DEF WakeThread, Satisfied, clientVars
<1>2. CASE Timeout
  BY <1>2, <1>p, WakesPipe DEF Timeout, clientVars
<1>3. CASE Kill
  <2>1. waits' = <<>> /\ UNCHANGED <<frames, alive>>
    BY <1>3 DEF Kill
  <2> QED BY <2>1, EmptyHolds, WakesPipe
<1>4. CASE WakeThreadEnd \/ SetEvent \/ Suspend \/ Resume \/ SignalAndWait \/ UNCHANGED vars
  <2>1. UNCHANGED <<frames, waits, alive>>
    BY <1>4 DEF WakeThreadEnd, SetEvent, Suspend, Resume, SignalAndWait, vars, clientVars, serverVars
  <2> QED BY <2>1, SamePipe
<1>5. CASE Select
  <2>1. CASE Begins(1)
    BY <1>5, <2>1, SelectStep, CallPipe DEF Cookie
  <2>2. CASE UNCHANGED <<waits, frames, slot, done, alive, ended, killed, sigquit, stray>>
    BY <2>2, SamePipe
  <2> QED BY <1>5, <2>1, <2>2, SelectStep
<1>6. CASE Handler
  <2>1. CASE Begins(2) /\ Cross
    BY <2>1, CallPipe DEF Cross, Cookie
  <2>2. CASE UNCHANGED <<waits, frames, slot, done, alive, ended, killed, sigquit, stray, crossed>>
    BY <2>2, SamePipe
  <2> QED BY <1>6, <2>1, <2>2, HandlerStep
<1>7. CASE Quit
  BY <1>7, AbortPipe DEF Quit
<1>8. CASE Read
  BY <1>8, ReadStep, TopPipe
<1>9. CASE Copy
  BY <1>9, CopyStep, TopPipe
<1> QED
  BY <1>1, <1>2, <1>3, <1>4, <1>5, <1>6, <1>7, <1>8, <1>9, CheckPipe, PutBackPipe
  DEF Next, Wake, Client

\* The structure wake_info and its completion implement the pipe ntdll was
\* written for (WakePipe, without its fairness) until replies cross: each select
\* returns once, and only after the server has ended its wait.
THEOREM ChannelImplementsPipe == Spec => Pipe!Spec
<1> DEFINE Inv == Types /\ (~crossed => ChannelInv)
<1>1. Init => Pipe!Init
  BY DEF Init, Pipe!Init, Waiting
<1>2. Inv /\ Inv' /\ [Next]_vars => [Pipe!Next]_(Pipe!vars)
  <2> SUFFICES ASSUME Inv, Inv', [Next]_vars PROVE [Pipe!Next]_(Pipe!vars)
    OBVIOUS
  <2>1. CASE crossed'
    BY <2>1 DEF Pipe!Next
  <2>2. CASE ~crossed'
    <3>1. ~crossed
      BY <2>2 DEF Next, Wake, WakeThread, WakeThreadEnd, Timeout, SetEvent, Suspend, Resume, Kill,
           Select, SignalAndWait, Handler, Quit, Client, Read, Copy, Check, PutBack, Cross, history,
           vars
    <3>2. PipeStep
      BY <2>2, <3>1, NextPipe
    <3>3. frames \in Seq(Frame) /\ frames' \in Seq(Frame)
      BY DEF Types
    <3> QED BY <2>2, <3>1, <3>2, <3>3, PipeStepMapped
  <2> QED BY <2>1, <2>2
<1> QED BY <1>1, <1>2, ChannelAlways, PTL DEF Spec, Pipe!Spec

=============================================================================

-------------------------- MODULE DbusSessionProofs --------------------------
(***************************************************************************)
(* What DbusSession promises for every serial range, deadline and cap: a   *)
(* call is over at its deadline, it reports the answer to its own request  *)
(* and never throws that answer away, nothing follows half a request, and  *)
(* a pump is quiet only on a live connection.                              *)
(***************************************************************************)
EXTENDS DbusSession, SequenceTheorems, TLAPS

Fields == {"fn", "pc", "id", "serial", "wm", "sent", "armed", "left", "wait",
           "spent", "reads", "drained"}

\* What is needed of the type of the call.
Shape == DOMAIN call = Fields /\ call.left \in Nat /\ call.spent \in Nat /\ call.armed \in BOOLEAN

(* Deadline. spent counts the ticks of a call with a clock, and every tick  *)
(* of such a call is taken from what is left: it blocks in polls for the    *)
(* time left only, never in a receive.                                      *)
Clock ==
  /\ call.armed => call.spent + call.left <= Timeout
  /\ call.armed => call.pc # "blocked"
  /\ call.pc = "start" => call.spent = 0 /\ ~call.armed

TInv == Shape /\ Clock

\* The deadline is a number, in the form the steps below use.
LEMMA DeadlineIsNat == Timeout \in Nat
  BY SessionConstants

\* The fields of no call are those of any call.
LEMMA NoCallFields == DOMAIN NoCall = Fields
  BY DEF NoCall, Fields

\* A call that returned leaves the deadline in order.
LEMMA AtRest ==
  ASSUME call' = NoCall
  PROVE  TInv'
<1>1. Shape'
  BY NoCallFields DEF NoCall, Shape
<1>2. Clock'
  BY DEF NoCall, Clock
<1> QED
  BY <1>1, <1>2 DEF TInv

\* A call that begins has no clock yet.
LEMMA Begins ==
  ASSUME DOMAIN call' = Fields, call'.left = 0, call'.spent = 0, call'.armed \in BOOLEAN, ~call'.armed
  PROVE  TInv'
  BY DEF TInv, Shape, Clock

\* A call that goes on with the same clock keeps to its deadline, unless it
\* goes on to a receive that blocks, or begins again.
LEMMA GoesOn ==
  ASSUME TInv, DOMAIN call' = DOMAIN call,
         call'.armed = call.armed, call'.left = call.left, call'.spent = call.spent,
         call'.pc # "start", call.armed => call'.pc # "blocked"
  PROVE  TInv'
  BY DEF TInv, Shape, Clock

\* No call is running at first.
LEMMA TInvInit == Init => TInv
  BY NoCallFields DEF Init, NoCall, TInv, Shape, Clock

\* No step lets a call with a clock outlive its deadline.
LEMMA TInvNext == TInv /\ [Next]_vars => TInv'
<1> SUFFICES ASSUME TInv, [Next]_vars PROVE TInv'
  OBVIOUS
<1>t. Shape
  BY DEF TInv
<1>1. CASE Open
  <2>1. call' = [NoCall EXCEPT !.fn = "hello", !.pc = "start", !.id = 1, !.serial = serial']
    BY <1>1 DEF Open
  <2>2. /\ DOMAIN call' = Fields /\ call'.left = NoCall.left
        /\ call'.spent = NoCall.spent /\ call'.armed = NoCall.armed
    BY <2>1, NoCallFields DEF Fields
  <2> QED
    BY <2>2, Begins DEF NoCall
<1>2. CASE CloseBus
  BY <1>2 DEF CloseBus, TInv, Shape, Clock
<1>3. CASE MethodBegin
  <2>1. call' = [NoCall EXCEPT !.fn = "method", !.pc = "start",
                               !.id = nreq + 1, !.serial = serial']
    BY <1>3 DEF MethodBegin
  <2>2. /\ DOMAIN call' = Fields /\ call'.left = NoCall.left
        /\ call'.spent = NoCall.spent /\ call'.armed = NoCall.armed
    BY <2>1, NoCallFields DEF Fields
  <2> QED
    BY <2>2, Begins DEF NoCall
<1>4. CASE PumpBegin
  <2>1. call' = [NoCall EXCEPT !.fn = "pump", !.pc = "drain"]
    BY <1>4 DEF PumpBegin
  <2>2. /\ DOMAIN call' = Fields /\ call'.left = NoCall.left
        /\ call'.spent = NoCall.spent /\ call'.armed = NoCall.armed
    BY <2>1, NoCallFields DEF Fields
  <2> QED
    BY <2>2, Begins DEF NoCall
<1>5. CASE CallEnter
  <2>1. CASE call' = NoCall
    BY <2>1, AtRest
  <2>2. ASSUME NEW clock \in BOOLEAN,
               call' = [call EXCEPT !.pc = "write", !.wm = recvd,
                          !.armed = clock, !.left = IF clock THEN Timeout ELSE 0]
        PROVE  TInv'
    <3>1. call.pc = "start" /\ call.spent = 0
      BY <1>5 DEF CallEnter, TInv, Clock
    <3>2. /\ DOMAIN call' = Fields /\ call'.pc = "write" /\ call'.armed = clock
          /\ call'.left = (IF clock THEN Timeout ELSE 0) /\ call'.spent = 0
      BY <2>2, <1>t, <3>1 DEF Shape, Fields
    <3>3. Shape'
      BY <3>2, DeadlineIsNat DEF Shape
    <3>4. Clock'
      BY <3>2, DeadlineIsNat DEF Clock
    <3> QED
      BY <3>3, <3>4 DEF TInv
  <2> QED
    BY <1>5, <2>1, <2>2 DEF CallEnter, Finish, Lost, Continue
<1>6. CASE Write
  <2>1. PICK n \in 1 .. Unit : WriteSome(n)
    BY <1>6 DEF Write
  <2>2. CASE call' = [call EXCEPT !.sent = Unit, !.pc = "look"]
    <3>1. /\ DOMAIN call' = DOMAIN call /\ call'.pc = "look" /\ call'.armed = call.armed
          /\ call'.left = call.left /\ call'.spent = call.spent
      BY <2>2, <1>t DEF Shape, Fields
    <3> QED
      BY <3>1, GoesOn
  <2>3. CASE call' = [call EXCEPT !.sent = @ + n]
    <3>1. /\ DOMAIN call' = DOMAIN call /\ call'.pc = "write" /\ call'.armed = call.armed
          /\ call'.left = call.left /\ call'.spent = call.spent
      BY <2>1, <2>3, <1>t DEF Shape, Fields, WriteSome
    <3> QED
      BY <3>1, GoesOn
  <2> QED
    BY <2>1, <2>2, <2>3 DEF WriteSome, Continue
<1>7. CASE WriteFull \/ WaitRoom \/ WriteFails \/ LookMessage \/ Poll \/ Recv \/ RecvFails
  <2>1. \/ call' = NoCall
        \/ \E pc \in {"room", "write", "look", "recv", "drain"} :
             call' = [call EXCEPT !.pc = pc, !.wait = 0]
    BY <1>7 DEF WriteFull, WaitRoom, WriteFails, LookMessage, Poll, Recv, RecvFails,
                Finish, Lost, Cut, Goto, Continue, Ready, Resume
  <2>2. ASSUME NEW pc \in {"room", "write", "look", "recv", "drain"},
               call' = [call EXCEPT !.pc = pc, !.wait = 0]
        PROVE  TInv'
    <3>1. /\ DOMAIN call' = DOMAIN call /\ call'.pc = pc /\ call'.armed = call.armed
          /\ call'.left = call.left /\ call'.spent = call.spent
      BY <2>2, <1>t DEF Shape, Fields
    <3> QED
      BY <3>1, GoesOn
  <2> QED
    BY <2>1, <2>2, AtRest
<1>8. CASE LookFurther
  <2>1. \/ call' = NoCall
        \/ call' = [call EXCEPT !.pc = "poll", !.wait = 0]
        \/ ~call.armed /\ call' = [call EXCEPT !.pc = "blocked", !.reads = Reads, !.wait = 0]
    BY <1>8 DEF LookFurther, Finish, Lost, Goto, Continue
  <2>2. CASE call' = [call EXCEPT !.pc = "poll", !.wait = 0]
    <3>1. /\ DOMAIN call' = DOMAIN call /\ call'.pc = "poll" /\ call'.armed = call.armed
          /\ call'.left = call.left /\ call'.spent = call.spent
      BY <2>2, <1>t DEF Shape, Fields
    <3> QED
      BY <3>1, GoesOn
  <2>3. CASE ~call.armed /\ call' = [call EXCEPT !.pc = "blocked", !.reads = Reads, !.wait = 0]
    <3>1. /\ DOMAIN call' = DOMAIN call /\ call'.pc = "blocked" /\ call'.armed = call.armed
          /\ call'.left = call.left /\ call'.spent = call.spent
      BY <2>3, <1>t DEF Shape, Fields
    <3> QED
      BY <2>3, <3>1, GoesOn
  <2> QED
    BY <2>1, <2>2, <2>3, AtRest
<1>9. CASE Drain
  <2>1. \/ call' = NoCall
        \/ call' = [call EXCEPT !.drained = @ + 1]
        \/ call' = [call EXCEPT !.pc = "recv", !.reads = @ + 1]
    BY <1>9 DEF Drain, PumpEnd, Finish, Lost, Continue
  <2>2. CASE \/ call' = [call EXCEPT !.drained = @ + 1]
             \/ call' = [call EXCEPT !.pc = "recv", !.reads = @ + 1]
    <3>1. call.pc = "drain"
      BY <1>9 DEF Drain
    <3>2. /\ DOMAIN call' = DOMAIN call /\ call'.pc \in {"drain", "recv"}
          /\ call'.armed = call.armed /\ call'.left = call.left /\ call'.spent = call.spent
      BY <2>2, <3>1, <1>t DEF Shape, Fields
    <3> QED
      BY <3>2, GoesOn
  <2> QED
    BY <2>1, <2>2, AtRest
<1>10. CASE PumpRecvFails
  BY <1>10, AtRest DEF PumpRecvFails, Finish
<1>11. CASE BusAnswers \/ BusSends \/ BusCloses
  BY <1>11 DEF BusAnswers, BusSends, BusCloses, Sends, TInv, Shape, Clock
<1>12. CASE Tick
  <2>1. call' = [call EXCEPT !.left  = IF @ > 0 THEN @ - 1 ELSE 0,
                             !.spent = IF call.armed THEN @ + 1 ELSE 0,
                             !.wait  = IF call.pc = "blocked" THEN @ + 1 ELSE 0]
    BY <1>12 DEF Tick
  <2>2. call.pc # "start" /\ (call.armed => call.left > 0 /\ call.pc # "blocked")
    BY <1>12 DEF Tick, TInv, Clock
  <2>3. /\ DOMAIN call' = Fields /\ call'.pc = call.pc /\ call'.armed = call.armed
        /\ call'.left = (IF call.left > 0 THEN call.left - 1 ELSE 0)
        /\ call'.spent = (IF call.armed THEN call.spent + 1 ELSE 0)
    BY <2>1, <1>t DEF Shape, Fields
  <2>4. Shape'
    BY <2>3, <1>t DEF Shape
  <2>5. Clock'
    BY <2>2, <2>3, <1>t, DeadlineIsNat DEF TInv, Clock, Shape
  <2> QED
    BY <2>4, <2>5 DEF TInv
<1>13. CASE UNCHANGED vars
  BY <1>13 DEF vars, TInv, Shape, Clock
<1> QED
  BY <1>1, <1>2, <1>3, <1>4, <1>5, <1>6, <1>7, <1>8, <1>9, <1>10, <1>11, <1>12, <1>13
     DEF Next, Process

(* A call that read the clock when it began is over at its deadline, for    *)
(* every deadline and however often a poll wakes for nothing                *)
(* (dbus_session.cyr:806-817, :882-909).                                    *)
THEOREM DeadlineKept == Spec => []EndsInTime
<1>1. TInv => EndsInTime
  BY DeadlineIsNat DEF TInv, Shape, Clock, EndsInTime
<1> QED
  BY <1>1, TInvInit, TInvNext, PTL DEF Spec
-----------------------------------------------------------------------------
(* Answers. A message is the answer to the request in progress exactly if   *)
(* it carries its serial and began to arrive after the request was written; *)
(* while Hello runs nothing but its answer is read.                         *)

Messages == [for : Nat, rs : Nat, to : Int, type : {"return", "error", "signal"},
             shape : {"ok", "big", "bad", "invalid"}]

Asking == call.fn \in {"hello", "method"}
Sent   == 1 .. Len(wire)

\* A message is an answer to a request that was made, addressed to us, or
\* one that could be taken for an answer only while our name is not known.
Proper(m) ==
  /\ m.for = 0 => m.shape # "ok" \/ m.rs = 0 \/ m.to = Other
  /\ m.for > 0 => m.for <= nreq /\ m.to = epoch /\ m.type \in {"return", "error"}

\* What was sent and how far it was received and read.
Stream ==
  /\ wire \in Seq(Messages) /\ \A k \in Sent : Proper(wire[k])
  /\ cut \in {0, 1} /\ (~gone => cut = 0)
  /\ pos \in Nat /\ recvd \in Nat /\ recvd <= 2 * Len(wire) - cut

\* Our name: unknown until Hello is answered, then that of this connection.
Names ==
  /\ epoch \in Nat /\ uniq \in {0, epoch} /\ serial \in Nat
  /\ up => epoch > 0
  /\ up /\ call.fn # "hello" => uniq > 0

\* Which call may be where, and that it has a connection.
Kind ==
  /\ call.fn \in {"none", "hello", "method", "pump"}
  /\ call.fn # "none" => up
  /\ call.fn = "none" => call.pc = "idle"
  /\ call.fn = "pump" => call.pc \in {"drain", "recv"}
  /\ call.pc = "drain" => call.fn = "pump"

\* The requests the bus has, and the one in progress.
Asked ==
  /\ nreq \in Nat
  /\ \A q \in pend : q.id \in 1 .. nreq /\ q.serial \in 1 .. MaxSerial
  /\ Asking => call.id \in 1 .. nreq /\ call.serial \in 1 .. MaxSerial /\ call.wm \in Nat

\* Before the request is written nothing answers it, and no answer with its
\* serial is still to arrive.
Fresh ==
  Asking /\ call.pc = "start" =>
    /\ \A q \in pend : q.serial # call.serial /\ q.id # call.id
    /\ \A k \in Sent : wire[k].for > 0 =>
         wire[k].for # call.id /\ (wire[k].rs = call.serial => 2 * (k - 1) < recvd)

\* After that the answers of the request are told by serial and watermark.
Later ==
  Asking /\ call.pc # "start" =>
    /\ call.wm <= recvd
    /\ \A q \in pend : q.serial = call.serial <=> q.id = call.id
    /\ \A k \in Sent : wire[k].for > 0 =>
         ((wire[k].rs = call.serial /\ 2 * (k - 1) >= call.wm) <=> wire[k].for = call.id)

\* Hello is the first request, and its answer is the first message.
HelloFirst ==
  call.fn = "hello" =>
    /\ call.id = 1 /\ call.wm = 0 /\ pos = 0 /\ uniq = 0
    /\ call.pc = "start" => wire = <<>> /\ pend = {}
    /\ \A q \in pend : q.id = 1 /\ q.serial = call.serial
    /\ wire # <<>> => /\ wire[1].for = 1 /\ wire[1].rs = call.serial
                      /\ wire[1].shape = "ok" /\ wire[1].type \in {"return", "error"}

AInv == Stream /\ Names /\ Kind /\ Asked /\ Fresh /\ Later /\ HelloFirst

\* The constants that a step depends on.
LEMMA Constants == MaxSerial \in Nat \ {0} /\ MaxConn \in Nat \ {0}
  BY SessionConstants

\* A serial in range is sent as it is: the wire field holds a u32.
LEMMA SameOnWire == ASSUME NEW n \in 1 .. MaxSerial PROVE OnWire(n) = n
  BY Constants DEF OnWire

\* Where the framer stands after it looked: where it stood, or at the end of
\* what was received. Hello's answer is never discarded as too large.
LEMMA FramePos ==
  ASSUME AInv
  PROVE  /\ FrameNext.pos \in Nat
         /\ call.fn = "hello" => FrameNext.pos = 0
<1>1. FrameNext.pos \in {pos, recvd}
  BY DEF AInv, Stream, FrameNext, Unit
<1>2. ASSUME call.fn = "hello" PROVE FrameNext.pos = 0
  <2>1. pos = 0
    BY <1>2 DEF AInv, HelloFirst
  <2>2. CASE wire = <<>>
    BY <1>1, <2>1, <2>2 DEF AInv, Stream
  <2>3. CASE wire # <<>>
    <3>1. wire[1].shape = "ok" /\ pos \div Unit + 1 = 1 /\ pos % Unit = 0
      BY <1>2, <2>1, <2>3 DEF AInv, HelloFirst, Unit
    <3> QED
      BY <2>1, <3>1 DEF FrameNext, AInv, Stream
  <2> QED
    BY <2>2, <2>3
<1> QED
  BY <1>1, <1>2 DEF AInv, Stream

\* A message that is whole is the next one in the stream.
LEMMA WholeMessage ==
  ASSUME AInv, FrameNext.st = "message"
  PROVE  \E k \in Sent : HeadMessage = wire[k] /\ 2 * (k - 1) = pos
<1>1. recvd = pos + 2 /\ pos % 2 = 0
  BY DEF AInv, Stream, FrameNext, Unit
<1>2. pos \in Nat /\ Len(wire) \in Nat /\ recvd <= 2 * Len(wire)
  BY DEF AInv, Stream
<1> DEFINE k == pos \div 2 + 1
<1>3. k \in Sent /\ 2 * (k - 1) = pos
  BY <1>1, <1>2 DEF Sent
<1>4. HeadMessage = wire[k]
  BY DEF HeadMessage, Unit
<1> HIDE DEF k
<1> QED
  BY <1>3, <1>4

\* What a call takes for its answer is its answer.
LEMMA MineIsOwn ==
  ASSUME AInv, Asking, call.pc = "look", FrameNext.st = "message", Mine(HeadMessage)
  PROVE  HeadMessage.for = call.id
<1>1. PICK k \in Sent : HeadMessage = wire[k] /\ 2 * (k - 1) = pos
  BY WholeMessage
<1>2. /\ wire[k].shape = "ok" /\ wire[k].rs = call.serial
      /\ ~(pos < call.wm) /\ (uniq = 0 \/ wire[k].to = 0 \/ wire[k].to = uniq)
  BY <1>1 DEF Mine, Valid, Predates, DestOk
<1>3. wire[k] \in Messages /\ Proper(wire[k])
  BY DEF AInv, Stream, Sent
<1>4. pos \in Nat /\ call.wm \in Nat /\ call.serial \in 1 .. MaxSerial
  BY DEF AInv, Stream, Asked
<1>5. CASE wire[k].for > 0
  BY <1>1, <1>2, <1>4, <1>5 DEF AInv, Later
<1>6. CASE wire[k].for = 0
  <2>1. wire[k].to = Other
    BY <1>2, <1>3, <1>4, <1>6, Constants DEF Proper
  <2>2. uniq = 0
    BY <1>2, <2>1 DEF Other, AInv, Names
  <2>3. call.fn = "hello"
    BY <2>2 DEF AInv, Names, Kind, Asking
  <2>4. k = 1 /\ wire # <<>>
    BY <1>1, <2>3 DEF AInv, HelloFirst, Sent, Stream
  <2> QED
    BY <1>6, <2>3, <2>4 DEF AInv, HelloFirst
<1> QED
  BY <1>3, <1>5, <1>6 DEF Messages

\* Its answer is taken for its answer.
LEMMA OwnIsMine ==
  ASSUME AInv, Asking, call.pc = "look", FrameNext.st = "message",
         HeadMessage.for = call.id, Valid(HeadMessage)
  PROVE  Mine(HeadMessage) /\ HeadMessage.type \in {"return", "error"}
<1>1. PICK k \in Sent : HeadMessage = wire[k] /\ 2 * (k - 1) = pos
  BY WholeMessage
<1>2. Proper(wire[k]) /\ wire[k].for = call.id /\ call.id > 0
  BY <1>1 DEF AInv, Stream, Asked
<1>3. wire[k].rs = call.serial /\ 2 * (k - 1) >= call.wm
  BY <1>2 DEF AInv, Later
<1>4. pos \in Nat /\ call.wm \in Nat
  BY DEF AInv, Stream, Asked
<1> QED
  BY <1>1, <1>2, <1>3, <1>4 DEF Proper, Mine, Valid, Predates, DestOk, AInv, Names

\* While Hello runs, a whole message is its answer, and is taken.
LEMMA HelloTakesFirst ==
  ASSUME AInv, call.fn = "hello", call.pc = "look", FrameNext.st = "message"
  PROVE  Mine(HeadMessage) /\ HeadMessage.type \in {"return", "error"}
<1>1. PICK k \in Sent : HeadMessage = wire[k] /\ 2 * (k - 1) = pos
  BY WholeMessage
<1>2. k = 1 /\ wire # <<>>
  BY <1>1 DEF AInv, HelloFirst, Sent, Stream
<1>3. HeadMessage.for = call.id /\ Valid(HeadMessage)
  BY <1>1, <1>2 DEF AInv, HelloFirst, Valid
<1> QED
  BY <1>3, OwnIsMine DEF Asking

-----------------------------------------------------------------------------
\* A call that goes on as the same request, after it was written or begun to
\* be, keeps the invariant: what was received may grow, and Hello discards
\* nothing.
LEMMA SameRequest ==
  ASSUME AInv, call.pc # "start", call'.pc # "start",
         call'.fn = call.fn, call'.id = call.id, call'.serial = call.serial, call'.wm = call.wm,
         call.fn # "none", call.fn = "pump" => call'.pc \in {"drain", "recv"},
         call'.pc = "drain" => call.fn = "pump",
         UNCHANGED <<up, epoch, uniq, nreq, serial, wire, cut, gone, pend>>,
         recvd' \in Nat, recvd <= recvd', recvd' <= 2 * Len(wire) - cut,
         pos' \in Nat, call.fn = "hello" => pos' = 0
  PROVE  AInv'
<1>1. Stream'
  BY DEF AInv, Stream, Sent, Proper
<1>2. Names' /\ Kind' /\ Asked'
  BY DEF AInv, Names, Kind, Asked, Asking
<1>3. Fresh' /\ Later'
  BY DEF AInv, Stream, Asked, Fresh, Later, Asking, Sent
<1>4. HelloFirst'
  BY DEF AInv, HelloFirst
<1> QED
  BY <1>1, <1>2, <1>3, <1>4 DEF AInv

\* So does a call that returns.
LEMMA Returns ==
  ASSUME AInv, call.fn # "none", NEW rc, NEW took, Finish(rc, took),
         UNCHANGED <<epoch, nreq, serial, wire, cut, gone, pend>>,
         recvd' = recvd, pos' \in Nat
  PROVE  AInv'
<1>1. call' = NoCall /\ call'.fn = "none" /\ call'.pc = "idle"
  BY DEF Finish, NoCall
<1>2. Stream'
  BY DEF AInv, Stream, Sent, Proper
<1>3. Names'
  <2>1. up' => epoch' > 0 /\ uniq' > 0
    BY DEF Finish, AInv, Names, Kind
  <2>2. uniq' \in {0, epoch'}
    BY DEF Finish, AInv, Names
  <2> QED
    BY <2>1, <2>2 DEF AInv, Names
<1>4. Kind' /\ Asked' /\ Fresh' /\ Later' /\ HelloFirst'
  BY <1>1 DEF AInv, Kind, Asked, Fresh, Later, HelloFirst, Asking
<1> QED
  BY <1>2, <1>3, <1>4 DEF AInv

\* So does a message that the bus sends: an answer to the request of its
\* serial, or one that is nobody's.
LEMMA Arrives ==
  ASSUME AInv, NEW m \in Messages, Proper(m), Sends(m), pend' \subseteq pend,
         m.for > 0 => \E q \in pend : q.id = m.for /\ q.serial = m.rs,
         call.fn = "hello" /\ wire = <<>> =>
           call.pc # "start" /\ m.for = 1 /\ m.rs = call.serial /\ m.shape = "ok"
  PROVE  AInv'
<1>1. /\ wire' = Append(wire, m) /\ call' = call
      /\ UNCHANGED <<up, epoch, nreq, serial, uniq, cut, gone, recvd, pos>> /\ ~gone
  BY DEF Sends, conn, rx
<1>2. /\ wire' \in Seq(Messages) /\ wire' # <<>> /\ Len(wire') = Len(wire) + 1
      /\ \A k \in Sent : wire'[k] = wire[k]
      /\ wire'[Len(wire) + 1] = m /\ Len(wire) \in Nat
  BY <1>1, AppendProperties DEF AInv, Stream, Sent
<1>3. \A k \in Sent' : (k \in Sent /\ wire'[k] = wire[k]) \/ (k = Len(wire) + 1 /\ wire'[k] = m)
  BY <1>2 DEF Sent
<1>4. Stream'
  <2>1. \A k \in Sent' : Proper(wire[k])'
    BY <1>1, <1>3 DEF AInv, Stream, Proper
  <2>2. recvd' <= 2 * Len(wire') - cut'
    BY <1>1, <1>2 DEF AInv, Stream
  <2> QED
    BY <1>1, <1>2, <2>1, <2>2 DEF AInv, Stream
<1>5. Names' /\ Kind' /\ Asked'
  BY <1>1 DEF AInv, Names, Kind, Asked, Asking
<1>6. Fresh'
  BY <1>1, <1>2, <1>3 DEF AInv, Fresh, Asking
<1>7. Later'
  <2>1. recvd <= 2 * Len(wire) /\ recvd \in Nat
    BY <1>1, <1>2 DEF AInv, Stream
  <2>2. Asking /\ call.pc # "start" => call.wm \in Nat /\ 2 * Len(wire) >= call.wm
    BY <2>1, <1>2 DEF AInv, Asked, Later
  <2>3. Asking /\ call.pc # "start" /\ m.for > 0 => (m.rs = call.serial <=> m.for = call.id)
    BY DEF AInv, Later
  <2>4. SUFFICES ASSUME Asking, call.pc # "start" PROVE Later'
    BY <1>1 DEF Later, Asking
  <2>5. call.wm <= recvd' /\ \A q \in pend' : q.serial = call.serial <=> q.id = call.id
    BY <1>1, <2>4 DEF AInv, Later
  <2>6. ASSUME NEW k \in Sent', wire'[k].for > 0
        PROVE  (wire'[k].rs = call.serial /\ 2 * (k - 1) >= call.wm) <=> wire'[k].for = call.id
    <3>1. CASE k \in Sent /\ wire'[k] = wire[k]
      BY <2>4, <2>6, <3>1 DEF AInv, Later
    <3>2. CASE k = Len(wire) + 1 /\ wire'[k] = m
      <4>1. 2 * (k - 1) >= call.wm
        BY <1>2, <2>2, <2>4, <3>2
      <4> QED
        BY <2>3, <2>4, <2>6, <3>2, <4>1
    <3> QED
      BY <1>3, <2>6, <3>1, <3>2
  <2> QED
    BY <1>1, <2>4, <2>5, <2>6 DEF Later
<1>8. HelloFirst'
  <2>1. wire # <<>> => wire'[1] = wire[1]
    BY <1>2 DEF AInv, Stream, Sent
  <2>2. wire = <<>> => wire'[1] = m
    BY <1>2
  <2> QED
    BY <1>1, <2>1, <2>2 DEF AInv, HelloFirst, Proper
<1> QED
  BY <1>4, <1>5, <1>6, <1>7, <1>8 DEF AInv

\* At first nothing was asked and nothing was sent.
LEMMA AInvInit == Init => AInv
<1> SUFFICES ASSUME Init PROVE AInv
  OBVIOUS
<1>1. call.fn = "none" /\ call.pc = "idle" /\ wire = <<>> /\ pend = {}
  BY DEF Init, NoCall
<1>2. wire \in Seq(Messages) /\ Len(wire) = 0
  BY <1>1, EmptySeq
<1>3. Stream /\ Names /\ Kind
  BY <1>1, <1>2 DEF Init, Stream, Names, Kind, Sent
<1>4. Asked /\ Fresh /\ Later /\ HelloFirst
  BY <1>1 DEF Init, Asked, Fresh, Later, HelloFirst, Asking
<1> QED
  BY <1>3, <1>4 DEF AInv

\* A connection begins with no message and no request but Hello.
LEMMA AInvOpen == ASSUME AInv, Open PROVE AInv'
<1>1. call' = [NoCall EXCEPT !.fn = "hello", !.pc = "start", !.id = 1, !.serial = serial']
  BY DEF Open
<1>2. /\ call'.fn = "hello" /\ call'.pc = "start" /\ call'.id = 1
      /\ call'.serial = serial' /\ call'.wm = 0
  BY <1>1, NoCallFields DEF Fields, NoCall
<1>3. serial' = 1
  BY Constants DEF Open, SessionReset, WrapSerial
<1>4. wire' = <<>> /\ wire' \in Seq(Messages) /\ Len(wire') = 0 /\ pend' = {}
  BY EmptySeq DEF Open
<1>5. Stream'
  BY <1>4 DEF Open, Stream, Sent
<1>6. Names'
  <2>1. epoch % MaxConn \in Nat
    BY Constants DEF AInv, Names
  <2> QED
    BY <1>2, <1>3, <2>1 DEF Open, SessionReset, Names
<1>7. Kind' /\ Asked'
  BY <1>2, <1>3, <1>4, Constants DEF Open, Kind, Asked, Asking
<1>8. Fresh' /\ Later' /\ HelloFirst'
  BY <1>2, <1>4 DEF Open, SessionReset, Fresh, Later, HelloFirst, Sent
<1> QED
  BY <1>5, <1>6, <1>7, <1>8 DEF AInv

\* A new request has a serial that no answer to come carries.
LEMMA AInvMethodBegin == ASSUME AInv, MethodBegin PROVE AInv'
<1>1. call' = [NoCall EXCEPT !.fn = "method", !.pc = "start",
                             !.id = nreq + 1, !.serial = serial']
  BY DEF MethodBegin
<1>2. /\ call'.fn = "method" /\ call'.pc = "start" /\ call'.id = nreq + 1
      /\ call'.serial = serial' /\ call'.wm = 0
  BY <1>1, NoCallFields DEF Fields, NoCall
<1>3. serial' \in 1 .. MaxSerial
  BY Constants DEF MethodBegin, WrapSerial, AInv, Names
<1>4. nreq' = nreq + 1 /\ nreq \in Nat /\ up /\ call.fn # "hello"
  BY DEF MethodBegin, Idle, NoCall, AInv, Asked
<1>5. UNCHANGED <<up, epoch, uniq, wire, cut, gone, recvd, pos, pend>>
  BY DEF MethodBegin, stream, rx
<1>6. Stream'
  <2>1. \A k \in Sent : wire[k] \in Messages /\ Proper(wire[k])
    BY DEF AInv, Stream, Sent
  <2>2. \A k \in Sent : Proper(wire[k])'
    BY <1>4, <1>5, <2>1 DEF Proper, Messages
  <2> QED
    BY <1>5, <2>2 DEF AInv, Stream, Sent
<1>7. Names' /\ Kind'
  BY <1>2, <1>3, <1>4, <1>5 DEF AInv, Names, Kind
<1>8. Asked'
  BY <1>2, <1>3, <1>4, <1>5 DEF AInv, Asked, Asking
<1>9. Fresh'
  <2>1. \A q \in pend : q.serial # serial' /\ q.id # nreq + 1
    BY <1>4 DEF MethodBegin, SerialFree, AInv, Asked
  <2>2. ASSUME NEW k \in Sent, wire[k].for > 0
        PROVE  wire[k].for # nreq + 1 /\ (wire[k].rs = serial' => 2 * (k - 1) < recvd)
    BY <1>4, <2>2 DEF MethodBegin, SerialFree, AInv, Stream, Proper, Sent, Unit, Messages
  <2> QED
    BY <1>2, <1>5, <2>1, <2>2 DEF Fresh, Sent
<1>10. Later' /\ HelloFirst'
  BY <1>2 DEF Later, HelloFirst
<1> QED
  BY <1>6, <1>7, <1>8, <1>9, <1>10 DEF AInv

\* A pump asks for nothing.
LEMMA AInvPumpBegin == ASSUME AInv, PumpBegin PROVE AInv'
<1>1. call' = [NoCall EXCEPT !.fn = "pump", !.pc = "drain"]
  BY DEF PumpBegin
<1>2. call'.fn = "pump" /\ call'.pc = "drain"
  BY <1>1, NoCallFields DEF Fields, NoCall
<1>3. /\ UNCHANGED <<up, epoch, nreq, serial, uniq, wire, cut, gone, recvd, pos, pend>>
      /\ up /\ call.fn # "hello"
  BY DEF PumpBegin, conn, rx, stream, Idle, NoCall
<1>4. Stream'
  BY <1>3 DEF AInv, Stream, Sent, Proper
<1> QED
  BY <1>2, <1>3, <1>4 DEF AInv, Names, Kind, Asked, Fresh, Later, HelloFirst, Asking

\* The watermark divides the answers that are old from those to come.
LEMMA AInvCallEnter == ASSUME AInv, Shape, CallEnter PROVE AInv'
<1>1. /\ call.pc = "start" /\ call.fn # "none" /\ call.fn # "pump"
      /\ UNCHANGED <<epoch, nreq, serial, wire, cut, gone, recvd, pend>>
  BY DEF CallEnter, conn, rx, stream, AInv, Kind
<1>2. pos' \in Nat /\ (call.fn = "hello" => pos' = 0)
  BY FramePos DEF CallEnter, AInv, Stream, HelloFirst
<1>3. CASE \E rc : Finish(rc, 0)
  BY <1>1, <1>2, <1>3, Returns
<1>4. ASSUME NEW clock \in BOOLEAN,
             Continue([call EXCEPT !.pc = "write", !.wm = recvd,
                        !.armed = clock, !.left = IF clock THEN Timeout ELSE 0])
      PROVE  AInv'
  <2>1. /\ call'.pc = "write" /\ call'.wm = recvd /\ call'.fn = call.fn
        /\ call'.id = call.id /\ call'.serial = call.serial /\ UNCHANGED <<up, uniq>>
    BY <1>4 DEF Continue, Shape, Fields
  <2>2. Stream'
    BY <1>1, <1>2 DEF AInv, Stream, Sent, Proper
  <2>3. Names' /\ Kind' /\ Asked'
    BY <1>1, <2>1 DEF AInv, Stream, Names, Kind, Asked, Asking
  <2>4. Fresh'
    BY <2>1 DEF Fresh
  <2>5. Later'
    <3>1. Asking /\ recvd \in Nat
      BY <1>1 DEF AInv, Kind, Stream, Asking
    <3>2. \A k \in Sent : wire[k].for > 0 =>
             wire[k].for # call.id /\ (wire[k].rs = call.serial => 2 * (k - 1) < recvd)
      BY <1>1, <3>1 DEF AInv, Fresh
    <3>3. \A k \in Sent : wire[k].for > 0 =>
             ((wire[k].rs = call.serial /\ 2 * (k - 1) >= recvd) <=> wire[k].for = call.id)
      BY <3>1, <3>2 DEF Sent
    <3>4. \A q \in pend : q.serial = call.serial <=> q.id = call.id
      BY <1>1, <3>1 DEF AInv, Fresh
    <3> QED
      BY <1>1, <2>1, <3>1, <3>3, <3>4 DEF Later, Sent
  <2>6. HelloFirst'
    <3>1. call.fn = "hello" => wire = <<>> /\ recvd = 0
      BY <1>1 DEF AInv, HelloFirst, Stream
    <3> QED
      BY <1>1, <1>2, <2>1, <3>1 DEF AInv, HelloFirst
  <2> QED
    BY <2>2, <2>3, <2>4, <2>5, <2>6 DEF AInv
<1> QED
  BY <1>3, <1>4 DEF CallEnter, Lost

\* What is written is the request of the call.
LEMMA AInvWrite == ASSUME AInv, Shape, Write PROVE AInv'
<1>1. PICK n \in 1 .. Unit : WriteSome(n)
  BY DEF Write
<1>2. /\ call.pc = "write" /\ call.fn # "none" /\ call.fn # "pump" /\ Asking
      /\ UNCHANGED <<up, uniq, epoch, nreq, serial, wire, cut, gone, recvd, pos>>
  BY <1>1 DEF WriteSome, Continue, conn, rx, stream, AInv, Kind, Asking
<1>3. /\ DOMAIN call' = DOMAIN call /\ call'.pc \in {"write", "look"} /\ call'.fn = call.fn
      /\ call'.id = call.id /\ call'.serial = call.serial /\ call'.wm = call.wm
  BY <1>1, <1>2 DEF WriteSome, Continue, Shape, Fields
<1>4. \A q \in pend' : q \in pend \/ q = [id |-> call.id, serial |-> call.serial]
  BY <1>1 DEF WriteSome
<1>5. Stream'
  BY <1>2 DEF AInv, Stream, Sent, Proper
<1>6. Names' /\ Kind'
  BY <1>2, <1>3 DEF AInv, Names, Kind
<1>7. Asked'
  BY <1>2, <1>3, <1>4 DEF AInv, Asked, Asking
<1>8. Fresh'
  BY <1>3 DEF Fresh
<1>9. Later'
  BY <1>2, <1>3, <1>4 DEF AInv, Later, Asking, Sent
<1>10. HelloFirst'
  BY <1>2, <1>3, <1>4 DEF AInv, HelloFirst
<1> QED
  BY <1>5, <1>6, <1>7, <1>8, <1>9, <1>10 DEF AInv

\* The steps that go on as the same request, or return.
LEMMA AInvProceeds ==
  ASSUME AInv, Shape, WriteFull \/ WaitRoom \/ WriteFails \/ LookMessage \/ LookFurther
                      \/ Poll \/ Recv \/ RecvFails \/ Drain \/ PumpRecvFails
  PROVE  AInv'
<1>1. /\ call.pc # "start" /\ call.pc # "idle"
      /\ UNCHANGED <<epoch, nreq, serial, wire, cut, gone, pend>>
  BY DEF WriteFull, WaitRoom, WriteFails, LookMessage, LookFurther, Poll, Recv, RecvFails,
         Drain, PumpRecvFails, conn, stream
<1>2. call.fn # "none"
  BY <1>1 DEF AInv, Kind
<1>3. /\ recvd' \in Nat /\ recvd <= recvd' /\ recvd' <= 2 * Len(wire) - cut
      /\ recvd' # recvd => Recv
  BY DEF WriteFull, WaitRoom, WriteFails, LookMessage, LookFurther, Poll, Recv, RecvFails,
         Drain, PumpRecvFails, rx, AInv, Stream, End, Unit
<1>4. pos' \in Nat
  BY FramePos DEF WriteFull, WaitRoom, WriteFails, LookMessage, LookFurther, Poll, Recv,
         RecvFails, Drain, PumpRecvFails, AInv, Stream, Unit
<1>5. \/ \E rc, took : Finish(rc, took) /\ recvd' = recvd
      \/ \E c : Continue(c) /\ \/ \E pc \in {"room", "write", "look", "poll", "recv", Resume} :
                                    c = [call EXCEPT !.pc = pc, !.wait = 0]
                               \/ c = [call EXCEPT !.pc = "blocked", !.reads = Reads, !.wait = 0]
                               \/ c = [call EXCEPT !.drained = @ + 1]
                               \/ c = [call EXCEPT !.pc = "recv", !.reads = @ + 1]
  <2>1. CASE WriteFull \/ WaitRoom \/ WriteFails
    BY <2>1 DEF WriteFull, WaitRoom, WriteFails, Cut, Lost, Goto, rx
  <2>2. CASE LookMessage \/ LookFurther \/ Poll
    BY <2>2 DEF LookMessage, LookFurther, Poll, Lost, Goto, Ready, rx
  <2>3. CASE Recv \/ RecvFails
    BY <2>3 DEF Recv, RecvFails, Lost, Goto, rx
  <2>4. CASE Drain \/ PumpRecvFails
    BY <2>4 DEF Drain, PumpRecvFails, PumpEnd, Lost, rx
  <2> QED
    BY <2>1, <2>2, <2>3, <2>4
<1>6. ASSUME NEW rc, NEW took, Finish(rc, took), recvd' = recvd PROVE AInv'
  BY <1>1, <1>2, <1>4, <1>6, Returns
<1>7. ASSUME NEW c, Continue(c),
             \/ \E pc \in {"room", "write", "look", "poll", "recv", Resume} :
                  c = [call EXCEPT !.pc = pc, !.wait = 0]
             \/ c = [call EXCEPT !.pc = "blocked", !.reads = Reads, !.wait = 0]
             \/ c = [call EXCEPT !.drained = @ + 1]
             \/ c = [call EXCEPT !.pc = "recv", !.reads = @ + 1]
      PROVE  AInv'
  <2>1. /\ call'.fn = call.fn /\ call'.id = call.id /\ call'.serial = call.serial
        /\ call'.wm = call.wm /\ call'.pc # "start" /\ UNCHANGED <<up, uniq>>
    BY <1>1, <1>7 DEF Continue, Shape, Fields, Resume
  <2>2. call.pc \in {"drain", "recv"} /\ call.fn = "pump" => call'.pc \in {"drain", "recv"}
    <3>1. SUFFICES ASSUME call.pc \in {"drain", "recv"}, call.fn = "pump"
                   PROVE  call'.pc \in {"drain", "recv"}
      OBVIOUS
    <3>2. call' # NoCall
      BY <2>1, <3>1 DEF NoCall
    <3>3. CASE Recv
      <4>1. call' = [call EXCEPT !.pc = "drain", !.wait = 0]
        BY <3>1, <3>3 DEF Recv, Goto, Continue, Resume
      <4> QED
        BY <4>1 DEF Shape, Fields
    <3>4. CASE Drain
      <4>1. \/ call' = [call EXCEPT !.drained = @ + 1]
            \/ call' = [call EXCEPT !.pc = "recv", !.reads = @ + 1]
        BY <3>2, <3>4 DEF Drain, PumpEnd, Finish, Lost, Continue
      <4> QED
        BY <3>1, <4>1 DEF Shape, Fields
    <3>5. ~PumpRecvFails
      BY <3>2 DEF PumpRecvFails, Finish
    <3> QED
      BY <3>1, <3>3, <3>4, <3>5
         DEF WriteFull, WaitRoom, WriteFails, LookMessage, LookFurther, Poll, RecvFails
  <2>3. call'.pc = "drain" => call.fn = "pump"
    BY <1>7 DEF Continue, Resume, Shape, Fields, AInv, Kind
  <2>4. ASSUME call.fn = "hello" PROVE pos' = 0
    <3>1. pos = 0 /\ FrameNext.pos = 0 /\ call.pc # "drain"
      BY <2>4, FramePos DEF AInv, HelloFirst, Kind
    <3>2. call' # NoCall
      BY <2>1, <2>4 DEF NoCall
    <3>3. ~LookMessage
      <4>1. LookMessage => Mine(HeadMessage) /\ HeadMessage.type \in {"return", "error"}
        BY <2>4, HelloTakesFirst DEF LookMessage
      <4> QED
        BY <3>2, <4>1 DEF LookMessage, Finish
    <3> QED
      BY <3>1, <3>3 DEF WriteFull, WaitRoom, WriteFails, LookFurther, Poll, Recv, RecvFails,
                        Drain, PumpRecvFails
  <2>5. call.fn = "pump" => call.pc \in {"drain", "recv"}
    BY DEF AInv, Kind
  <2> QED
    BY <1>1, <1>2, <1>3, <1>4, <2>1, <2>2, <2>3, <2>4, <2>5, SameRequest
<1> QED
  BY <1>5, <1>6, <1>7

\* The bus answers a request that it has, Hello with a proper answer.
LEMMA AInvBusAnswers == ASSUME AInv, BusAnswers PROVE AInv'
<1>1. PICK q \in pend : pend' = pend \ {q} /\ \E m \in Answer(q) : Sends(m)
  BY DEF BusAnswers
<1>2. PICK m \in Answer(q) : Sends(m)
  BY <1>1
<1>3. q.id \in 1 .. nreq /\ q.serial \in 1 .. MaxSerial /\ nreq \in Nat /\ epoch \in Nat /\ epoch > 0
  BY <1>1, <1>2 DEF AInv, Asked, Names, Sends
<1>4. OnWire(q.serial) = q.serial
  BY <1>3, SameOnWire
<1>5. PICK ty \in {"return", "error"}, sh \in IF q.id = 1 THEN {"ok"} ELSE {"ok", "big", "invalid"} :
        m = Message(q.id, q.serial, epoch, ty, sh)
  BY <1>2, <1>4 DEF Answer
<1>6. m \in Messages /\ m.for = q.id /\ m.rs = q.serial /\ (q.id = 1 => m.shape = "ok") /\ Proper(m)
  BY <1>3, <1>5, Constants DEF Message, Messages, Proper
<1>7. call.fn = "hello" => call.pc # "start" /\ q.id = 1 /\ q.serial = call.serial
  BY <1>1 DEF AInv, HelloFirst
<1> QED
  BY <1>1, <1>2, <1>6, <1>7, Arrives

\* What else it sends is not addressed to us or has no serial of ours.
LEMMA AInvBusSends == ASSUME AInv, BusSends PROVE AInv'
<1>1. PICK m \in Strays : Sends(m)
  BY DEF BusSends
<1>2. wire # <<>> /\ pend' = pend /\ epoch \in Nat
  BY DEF BusSends, AInv, Names
<1>3. m \in Messages /\ m.for = 0 /\ Proper(m)
  BY <1>1, <1>2, Constants DEF Strays, Message, Messages, Proper, Other
<1> QED
  BY <1>1, <1>2, <1>3, Arrives

\* The bus goes, perhaps in the middle of a message.
LEMMA AInvBusCloses == ASSUME AInv, BusCloses PROVE AInv'
<1>1. /\ UNCHANGED <<up, epoch, nreq, serial, uniq, wire, recvd, pos, call>>
      /\ gone' /\ cut' \in {0, 1} /\ recvd <= 2 * Len(wire) - cut' /\ pend' = {}
  BY DEF BusCloses, conn, rx, Unit
<1>2. Stream'
  BY <1>1 DEF AInv, Stream, Sent, Proper
<1> QED
  BY <1>1, <1>2 DEF AInv, Names, Kind, Asked, Fresh, Later, HelloFirst, Asking, Sent

\* Time passes.
LEMMA AInvTick == ASSUME AInv, Shape, Tick PROVE AInv'
<1>1. /\ call'.fn = call.fn /\ call'.id = call.id /\ call'.serial = call.serial
      /\ call'.wm = call.wm /\ call'.pc = call.pc
  BY DEF Tick, Shape, Fields
<1>2. /\ UNCHANGED <<up, epoch, nreq, serial, uniq, wire, cut, gone, recvd, pos, pend>>
      /\ call.pc \in {"room", "poll", "blocked"}
  BY DEF Tick, conn, rx, stream
<1>3. /\ call.fn # "none" /\ recvd \in Nat /\ recvd <= 2 * Len(wire) - cut /\ pos \in Nat
      /\ call.fn # "pump" /\ (call.fn = "hello" => pos = 0)
  BY <1>2 DEF AInv, Kind, Stream, HelloFirst
<1> QED
  BY <1>1, <1>2, <1>3, SameRequest

\* Every step keeps the invariant.
LEMMA AInvNext == AInv /\ Shape /\ [Next]_vars => AInv'
<1> SUFFICES ASSUME AInv, Shape, [Next]_vars PROVE AInv'
  OBVIOUS
<1>1. CASE CloseBus \/ UNCHANGED vars
  <2>1. /\ UNCHANGED <<epoch, nreq, serial, uniq, wire, cut, gone, recvd, pos, pend, call>>
        /\ up' = up \/ (up' = FALSE /\ call.fn = "none")
    BY <1>1 DEF CloseBus, Idle, NoCall, vars, conn, rx, stream
  <2>2. Stream'
    BY <2>1 DEF AInv, Stream, Sent, Proper
  <2> QED
    BY <2>1, <2>2 DEF AInv, Names, Kind, Asked, Fresh, Later, HelloFirst, Asking, Sent
<1> QED
  BY <1>1, AInvOpen, AInvMethodBegin, AInvPumpBegin, AInvCallEnter, AInvWrite, AInvProceeds,
     AInvBusAnswers, AInvBusSends, AInvBusCloses, AInvTick DEF Next, Process

\* One step answers a call with what it took for the answer: its answer.
LEMMA OwnReplyNext == AInv /\ OwnReply /\ [Next]_vars => OwnReply'
<1> SUFFICES ASSUME AInv, OwnReply, [Next]_vars PROVE OwnReply'
  OBVIOUS
<1>1. CASE LookMessage
  <2>1. ASSUME Asking, NEW rc, Mine(HeadMessage), Finish(rc, HeadMessage.for) PROVE OwnReply'
    <3>1. HeadMessage.for = call.id
      BY <1>1, <2>1, MineIsOwn DEF LookMessage
    <3> QED
      BY <2>1, <3>1 DEF Finish, OwnReply
  <2>2. Asking
    BY <1>1 DEF LookMessage, AInv, Kind, Asking
  <2>3. \/ UNCHANGED last
        \/ \E rc : Mine(HeadMessage) /\ Finish(rc, HeadMessage.for)
    BY <1>1 DEF LookMessage, Goto, Continue
  <2> QED
    BY <2>1, <2>2, <2>3 DEF OwnReply
<1>2. CASE ~LookMessage
  <2>1. \/ UNCHANGED last
        \/ last'.rc \notin {"ok", "error"}
    <3>1. CASE Open \/ CloseBus \/ MethodBegin \/ PumpBegin \/ BusAnswers \/ BusSends \/ BusCloses
               \/ Tick \/ UNCHANGED vars
      BY <3>1 DEF Open, CloseBus, MethodBegin, PumpBegin, BusAnswers, BusSends, BusCloses, Sends, Tick, vars
    <3>2. CASE CallEnter
      <4>1. \/ UNCHANGED last
            \/ \E rc \in {"ENOTCONN", "EPROTO", "ECONNRESET"} : Finish(rc, 0)
        BY <3>2 DEF CallEnter, Continue, Lost
      <4> QED
        BY <4>1 DEF Finish
    <3>3. CASE Write
      BY <3>3 DEF Write, WriteSome, Continue
    <3>4. CASE WriteFull \/ WaitRoom \/ WriteFails
      BY <3>4 DEF WriteFull, WaitRoom, WriteFails, Goto, Continue, Cut, Lost, Finish
    <3>5. CASE LookFurther \/ Poll \/ Recv \/ RecvFails
      BY <3>5 DEF LookFurther, Poll, Recv, RecvFails, Goto, Continue, Lost, Finish
    <3>6. CASE Drain \/ PumpRecvFails
      BY <3>6 DEF Drain, PumpEnd, PumpRc, PumpRecvFails, Continue, Lost, Finish
    <3> QED
      BY <1>2, <3>1, <3>2, <3>3, <3>4, <3>5, <3>6 DEF Next, Process
  <2> QED
    BY <2>1 DEF OwnReply
<1> QED
  BY <1>1, <1>2

(* A call that reports an answer reports the answer to its own request, for *)
(* every serial range: not a late one, nor a stranger's                     *)
(* (dbus_session.cyr:838-870).                                              *)
THEOREM OwnAnswer == Spec => []OwnReply
<1>1. Init => OwnReply
  BY DEF Init, OwnReply
<1>2. TInv => Shape
  BY DEF TInv
<1> QED
  BY <1>1, <1>2, TInvInit, TInvNext, AInvInit, AInvNext, OwnReplyNext, PTL DEF Spec

(* A call never throws its own answer away (dbus_session.cyr:798, :852-860).*)
THEOREM OwnAnswerKept == Spec => NeverSkipsOwn
<1>1. AInv /\ [Next]_vars
        => [call.pc = "look" /\ call'.pc = "look" /\ pos' = pos + Unit /\ FrameNext.st = "message"
              => ~(HeadMessage.for = call.id /\ Valid(HeadMessage))]_vars
  <2> SUFFICES ASSUME AInv, Next, call.pc = "look", call'.pc = "look", pos' = pos + Unit,
                      FrameNext.st = "message", HeadMessage.for = call.id, Valid(HeadMessage)
               PROVE  FALSE
    OBVIOUS
  <2>1. Asking
    BY DEF AInv, Kind, Asking
  <2>2. Mine(HeadMessage) /\ HeadMessage.type \in {"return", "error"}
    BY <2>1, OwnIsMine
  <2>3. pos' # pos /\ call.fn # "none"
    BY DEF AInv, Stream, Unit, Kind
  <2>4. LookMessage
    BY <2>3 DEF Next, Process, Open, CloseBus, MethodBegin, PumpBegin, CallEnter, Write, WriteSome,
                WriteFull, WaitRoom, WriteFails, LookFurther, Poll, Recv, RecvFails, Drain,
                PumpRecvFails, BusAnswers, BusSends, BusCloses, Sends, Tick, Idle, NoCall, rx
  <2>5. call' = NoCall
    BY <2>2, <2>4 DEF LookMessage, Finish
  <2> QED
    BY <2>5 DEF NoCall
<1>2. TInv => Shape
  BY DEF TInv
<1> QED
  BY <1>1, <1>2, TInvInit, TInvNext, AInvInit, AInvNext, PTL DEF Spec, NeverSkipsOwn

-----------------------------------------------------------------------------
(* Half a request. Once it was written the connection is latched and no     *)
(* call is writing: dbus_session_call refuses a latched connection first.   *)

HInv == half => closed /\ call.pc \notin {"write", "room"}

\* At first nothing was written.
LEMMA HInvInit == Init => HInv
  BY DEF Init, HInv

\* After half a request no step gives the bus another.
LEMMA HInvNext == HInv /\ Shape /\ [Next]_vars => HInv' /\ (half => pend' \subseteq pend)
<1> SUFFICES ASSUME HInv, Shape, [Next]_vars PROVE HInv' /\ (half => pend' \subseteq pend)
  OBVIOUS
<1>0. NoCall.pc = "idle"
  BY DEF NoCall
<1>1. CASE Open
  BY <1>1 DEF Open, HInv
<1>2. CASE CloseBus \/ MethodBegin \/ PumpBegin
  <2>1. UNCHANGED <<half, closed, pend>>
    BY <1>2 DEF CloseBus, MethodBegin, PumpBegin
  <2>2. call' = call \/ call'.pc \in {"start", "drain"}
    BY <1>2, NoCallFields DEF CloseBus, MethodBegin, PumpBegin, Fields
  <2> QED
    BY <2>1, <2>2 DEF HInv
<1>3. CASE CallEnter
  BY <1>0, <1>3 DEF CallEnter, Finish, Lost, Continue, HInv
<1>4. CASE Write
  BY <1>4 DEF Write, WriteSome, HInv
<1>5. CASE WriteFull \/ WaitRoom \/ WriteFails
  <2>1. ~half /\ UNCHANGED pend
    BY <1>5 DEF WriteFull, WaitRoom, WriteFails, HInv
  <2>2. half' => closed' /\ call' = NoCall
    BY <1>5, <2>1 DEF WriteFull, WaitRoom, WriteFails, Cut, Lost, Finish, Goto, Continue
  <2> QED
    BY <1>0, <2>1, <2>2 DEF HInv
<1>6. CASE LookMessage \/ LookFurther \/ Poll \/ Recv \/ RecvFails \/ Drain \/ PumpRecvFails
  <2>1. UNCHANGED <<half, pend>> /\ (closed => closed')
    BY <1>6 DEF LookMessage, LookFurther, Poll, Recv, RecvFails, Drain, PumpRecvFails, PumpEnd, Lost
  <2>2. \/ call' = NoCall
        \/ call' = [call EXCEPT !.drained = @ + 1]
        \/ call' = [call EXCEPT !.pc = "recv", !.reads = @ + 1]
        \/ call' = [call EXCEPT !.pc = "blocked", !.reads = Reads, !.wait = 0]
        \/ \E pc \in {"look", "poll", "recv", "drain"} : call' = [call EXCEPT !.pc = pc, !.wait = 0]
    BY <1>6 DEF LookMessage, LookFurther, Poll, Recv, RecvFails, Drain, PumpRecvFails, PumpEnd,
                Finish, Lost, Goto, Continue, Ready, Resume
  <2>3. call.pc \notin {"write", "room"}
    BY <1>6 DEF LookMessage, LookFurther, Poll, Recv, RecvFails, Drain, PumpRecvFails
  <2>4. call'.pc \notin {"write", "room"}
    BY <1>0, <2>2, <2>3 DEF Shape, Fields
  <2> QED
    BY <2>1, <2>4 DEF HInv
<1>7. CASE BusAnswers \/ BusSends \/ BusCloses
  BY <1>7 DEF BusAnswers, BusSends, BusCloses, Sends, HInv
<1>8. CASE Tick
  <2>1. UNCHANGED <<half, closed, pend>> /\ call'.pc = call.pc
    BY <1>8 DEF Tick, Shape, Fields
  <2> QED
    BY <2>1 DEF HInv
<1>9. CASE UNCHANGED vars
  BY <1>9 DEF vars, HInv
<1> QED
  BY <1>1, <1>2, <1>3, <1>4, <1>5, <1>6, <1>7, <1>8, <1>9 DEF Next, Process

(* Nothing reaches the bus on a connection after a request that was written *)
(* by half, whatever is called next (_dbs_cut, dbus_session.cyr:743-749).   *)
THEOREM NothingAfterHalf == Spec => HalfIsLast
<1>1. HInv /\ Shape /\ [Next]_vars => [half => pend' \subseteq pend]_vars
  BY HInvNext
<1>2. TInv => Shape
  BY DEF TInv
<1> QED
  BY <1>1, <1>2, TInvInit, TInvNext, HInvInit, HInvNext, PTL DEF Spec, HalfIsLast

-----------------------------------------------------------------------------
(* Quiet. While a pump receives the framer has asked for more: the stream   *)
(* has not ended and can be read.                                           *)

QInv ==
  /\ call.fn = "pump" => call.drained \in Nat
  /\ call.fn = "pump" /\ call.pc = "recv" => FrameNext.st = "need_more"

\* With nothing left to look at the framer asks for more.
ReadAll == pos \in Nat /\ recvd \in Nat /\ recvd <= pos /\ ~feof
Wants   == FrameNext.st = "need_more"
LEMMA NothingLeft == ReadAll => Wants
<1> SUFFICES ASSUME ReadAll PROVE FrameNext.st = "need_more"
  BY DEF Wants
<1> DEFINE a == recvd - pos
<1>1. a = 0 \/ (a # 0 /\ ~(a > 0) /\ a # Unit)
  BY DEF ReadAll, Unit
<1>2. ~feof
  BY DEF ReadAll
<1> HIDE DEF a
<1>3. CASE a = 0
  <2>1. ~(a > 0) /\ a # Unit
    BY <1>3 DEF Unit
  <2> QED
    BY <1>2, <1>3, <2>1 DEF FrameNext, a
<1>4. CASE a # 0 /\ ~(a > 0) /\ a # Unit
  BY <1>2, <1>4 DEF FrameNext, a
<1> QED
  BY <1>1, <1>3, <1>4

\* So it does after a step.
LEMMA NothingLeftNext == ReadAll' => Wants'
  BY NothingLeft, PTL

\* Asking again, after what it discarded, the framer still asks for more.
LEMMA AsksAgain ==
  ASSUME AInv, FrameNext.st = "need_more", pos' = FrameNext.pos, UNCHANGED <<wire, recvd, feof>>
  PROVE  FrameNext'.st = "need_more"
<1>1. pos \in Nat /\ recvd \in Nat /\ ~feof
  BY DEF AInv, Stream, FrameNext
<1>2. FrameNext.pos \in {pos, recvd}
  BY DEF FrameNext
<1>3. CASE pos' = pos
  BY <1>3 DEF FrameNext
<1>4. CASE pos' = recvd
  <2>1. ReadAll'
    BY <1>1, <1>4 DEF ReadAll
  <2> QED
    BY <2>1, NothingLeftNext DEF Wants
<1> QED
  BY <1>2, <1>3, <1>4

\* What the bus sends behind the bytes that were received changes nothing.
LEMMA SentBehind ==
  ASSUME AInv, FrameNext.st = "need_more", NEW m, wire' = Append(wire, m), UNCHANGED <<pos, recvd, feof>>
  PROVE  FrameNext'.st = "need_more"
<1>1. pos \in Nat /\ recvd \in Nat /\ Len(wire) \in Nat /\ recvd <= 2 * Len(wire) /\ wire \in Seq(Messages)
  BY DEF AInv, Stream
<1>2. CASE recvd - pos > 0
  <2> DEFINE k == pos \div Unit + 1
  <2>1. k \in 1 .. Len(wire)
    BY <1>1, <1>2 DEF Unit
  <2>2. wire'[k] = wire[k]
    BY <1>1, <2>1
  <2> QED
    BY <2>2 DEF FrameNext
<1>3. CASE ~(recvd - pos > 0)
  <2>1. ~feof
    BY DEF FrameNext
  <2>2. recvd <= pos
    BY <1>1, <1>3
  <2> QED
    BY <1>1, <2>1, <2>2, NothingLeftNext DEF ReadAll, Wants
<1> QED
  BY <1>2, <1>3

\* At first there is no pump.
LEMMA QInvInit == Init => QInv
  BY DEF Init, NoCall, QInv

\* A pump goes on to receive only when the framer asks for more.
LEMMA QInvNext == AInv /\ QInv /\ Shape /\ [Next]_vars => QInv'
<1> SUFFICES ASSUME AInv, QInv, Shape, [Next]_vars, call'.fn = "pump"
             PROVE  call'.drained \in Nat /\ (call'.pc = "recv" => FrameNext'.st = "need_more")
  BY DEF QInv
<1>0. NoCall.fn = "none" /\ NoCall.pc = "idle" /\ NoCall.drained = 0
  BY DEF NoCall
<1>1. call.fn = "pump" => call.pc \in {"drain", "recv"}
  BY DEF AInv, Kind
<1>2. CASE Open \/ MethodBegin \/ PumpBegin
  <2>1. call'.pc \in {"start", "drain"} /\ call'.drained = 0
    BY <1>0, <1>2, NoCallFields DEF Open, MethodBegin, PumpBegin, Fields
  <2> QED
    BY <2>1
<1>3. CASE CallEnter \/ Write \/ WriteFull \/ WaitRoom \/ WriteFails \/ LookMessage \/ LookFurther \/ Poll
  <2>1. call.pc \in {"start", "write", "room", "look", "poll"}
    BY <1>3 DEF CallEnter, Write, WriteSome, WriteFull, WaitRoom, WriteFails, LookMessage, LookFurther, Poll
  <2>2. /\ \A rc, took : Finish(rc, took) => call' = NoCall
        /\ \A c : Goto(c) => call'.fn = call.fn
    BY DEF Finish, Goto, Continue, Shape, Fields
  <2>3. call' = NoCall \/ call'.fn = call.fn
    <3>1. CASE CallEnter
      BY <2>2, <3>1 DEF CallEnter, Lost, Continue, Shape, Fields
    <3>2. CASE Write
      BY <3>2 DEF Write, WriteSome, Continue, Shape, Fields
    <3>3. CASE WriteFull \/ WaitRoom \/ WriteFails \/ Poll
      BY <2>2, <3>3 DEF WriteFull, WaitRoom, WriteFails, Poll, Cut, Lost
    <3>4. CASE LookMessage
      BY <2>2, <3>4 DEF LookMessage
    <3>5. CASE LookFurther
      BY <2>2, <3>5 DEF LookFurther, Lost, Continue, Shape, Fields
    <3> QED
      BY <1>3, <3>1, <3>2, <3>3, <3>4, <3>5
  <2> QED
    BY <1>0, <1>1, <2>1, <2>3
<1>4. CASE Recv \/ RecvFails \/ PumpRecvFails
  <2>1. \/ call' = NoCall
        \/ call' = [call EXCEPT !.pc = Resume, !.wait = 0]
        \/ call' = [call EXCEPT !.pc = "look", !.wait = 0]
    BY <1>4 DEF Recv, RecvFails, PumpRecvFails, Finish, Lost, Goto, Continue
  <2> QED
    BY <1>0, <2>1 DEF Shape, Fields, Resume, QInv
<1>5. CASE Drain
  <2>1. \/ call' = NoCall
        \/ call' = [call EXCEPT !.drained = @ + 1]
        \/ pos' = FrameNext.pos /\ FrameNext.st = "need_more"
    BY <1>5 DEF Drain, PumpEnd, Finish, Lost, Continue
  <2>2. call' = [call EXCEPT !.drained = @ + 1] \/ call'.drained = call.drained
    BY <1>0, <1>5 DEF Drain, PumpEnd, Finish, Lost, Continue, Shape, Fields
  <2>3. call'.drained \in Nat /\ call.fn = "pump"
    BY <1>0, <1>5, <2>1, <2>2 DEF Drain, Shape, Fields, QInv, AInv, Kind
  <2>4. CASE call'.pc = "recv"
    <3>1. pos' = FrameNext.pos /\ FrameNext.st = "need_more"
      BY <1>0, <1>5, <2>1, <2>4 DEF Drain, Shape, Fields
    <3> QED
      BY <1>5, <2>3, <3>1, AsksAgain DEF Drain, stream, rx
  <2> QED
    BY <2>3, <2>4
<1>6. CASE BusAnswers \/ BusSends
  <2>1. PICK m : Sends(m)
    BY <1>6 DEF BusAnswers, BusSends
  <2> QED
    BY <2>1, SentBehind DEF Sends, rx, QInv
<1>7. CASE CloseBus \/ BusCloses \/ UNCHANGED vars
  <2>1. UNCHANGED <<call, wire, pos, recvd, feof>>
    BY <1>7 DEF CloseBus, BusCloses, vars, stream, rx
  <2> QED
    BY <2>1 DEF QInv, FrameNext
<1>8. CASE Tick
  <2>1. /\ UNCHANGED <<wire, pos, recvd, feof>> /\ call'.pc = call.pc /\ call'.fn = call.fn
        /\ call'.drained = call.drained
    BY <1>8 DEF Tick, Shape, Fields, stream, rx
  <2> QED
    BY <2>1 DEF QInv, FrameNext
<1> QED
  BY <1>2, <1>3, <1>4, <1>5, <1>6, <1>7, <1>8 DEF Next, Process

\* A pump that ends quietly left the framer asking for more, on a connection
\* that is not latched.
LEMMA QuietEnds ==
  ASSUME AInv, QInv, Shape, Next, call.fn = "pump", call' = NoCall, last'.rc = "quiet"
  PROVE  ~closed' /\ FrameNext'.st = "need_more"
<1>1. call.pc \in {"drain", "recv"} /\ NoCall.fn = "none" /\ NoCall.pc = "idle"
  BY DEF AInv, Kind, NoCall
<1>2. CASE Drain
  <2>1. \A rc : Finish(rc, 0) => rc = "quiet"
    BY DEF Finish
  <2>2. /\ call' # [call EXCEPT !.drained = @ + 1]
        /\ call' # [call EXCEPT !.pc = "recv", !.reads = @ + 1]
    BY <1>1, <1>2 DEF Drain, Shape, Fields
  <2>3. FrameNext.st # "message" /\ pos' = FrameNext.pos /\ PumpEnd(FrameNext.st)
    BY <1>2, <2>1, <2>2 DEF Drain, Continue
  <2>4. FrameNext.st \in {"lost", "torn", "need_more", "message"}
    BY DEF FrameNext
  <2>5. call.drained = 0 /\ FrameNext.st = "need_more" /\ Finish(PumpRc, 0) /\ closed' = closed
    <3>1. ~Finish("events", 0) /\ ~Finish("ECONNRESET", 0) /\ ~Finish("EPROTO", 0)
      BY <2>1
    <3>2. call.drained = 0 \/ call.drained > 0
      BY DEF QInv
    <3>3. call.drained = 0 /\ Finish(PumpRc, 0) /\ closed' = closed
          /\ FrameNext.st \notin {"lost", "torn"}
      BY <2>3, <3>1, <3>2 DEF PumpEnd, Lost
    <3> QED
      BY <2>3, <2>4, <3>3
  <2>6. ~closed'
    BY <2>1, <2>5 DEF PumpRc
  <2> QED
    BY <1>2, <2>3, <2>5, <2>6, AsksAgain DEF Drain, stream, rx
<1>3. CASE PumpRecvFails
  <2>1. ~closed'
    BY <1>3 DEF PumpRecvFails, Finish, PumpRc
  <2>2. FrameNext.st = "need_more" /\ UNCHANGED <<wire, pos, recvd, feof>>
    BY <1>3 DEF PumpRecvFails, QInv, stream, rx
  <2> QED
    BY <2>1, <2>2 DEF FrameNext
<1>4. CASE Recv
  <2>1. call' = [call EXCEPT !.pc = "drain", !.wait = 0]
    BY <1>4 DEF Recv, Goto, Continue, Resume
  <2> QED
    BY <1>1, <2>1 DEF Shape, Fields
<1>5. CASE BusAnswers \/ BusSends \/ BusCloses
  BY <1>1, <1>5 DEF BusAnswers, BusSends, BusCloses, Sends
<1> QED
  BY <1>1, <1>2, <1>3, <1>4, <1>5 DEF Next, Process, Open, CloseBus, MethodBegin, PumpBegin, Idle,
     CallEnter, Write, WriteSome, WriteFull, WaitRoom, WriteFails, LookMessage, LookFurther, Poll,
     RecvFails, Tick

(* A pump says "no events" only of a connection that is there and a stream  *)
(* that can be read, for every cap on what it drains and receives           *)
(* (dbus_session.cyr:1403-1418).                                            *)
THEOREM QuietMeansAlive == Spec => QuietIsAlive
<1>1. AInv /\ QInv /\ Shape /\ [Next]_vars
        => [call.fn = "pump" /\ call' = NoCall /\ last'.rc = "quiet"
              => ~closed' /\ FrameNext'.st \notin {"lost", "torn"}]_vars
  BY QuietEnds
<1>2. TInv => Shape
  BY DEF TInv
<1> QED
  BY <1>1, <1>2, TInvInit, TInvNext, AInvInit, AInvNext, QInvInit, QInvNext, PTL DEF Spec, QuietIsAlive
=============================================================================

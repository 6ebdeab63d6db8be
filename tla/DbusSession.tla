----------------------------- MODULE DbusSession -----------------------------
(***************************************************************************)
(* The call cycle of the native backend (src/dbus_session.cyr): one        *)
(* request is written and the stream is read until its reply, the          *)
(* deadline, or a fault; and the pump, which drains the same stream        *)
(* between calls.                                                          *)
(*                                                                         *)
(* The stream is cut at message level: a message is two units long, its    *)
(* header and the rest, and so is a request. The framer reads no further   *)
(* than the head message (DbusFrame). Time passes, in ticks, only while    *)
(* the process is blocked.                                                 *)
(***************************************************************************)
EXTENDS Integers, Sequences

CONSTANTS
  MaxSerial,   \* dbus_session_max_serial(); 2^32 - 1 in the code
  Timeout,     \* _dbs_timeout_ms, in ticks
  RcvTimeo,    \* SO_RCVTIMEO, in ticks
  Backstop,    \* dbus_session_read_backstop(); 65536
  PumpMsgs,    \* messages one pump drains at most; 256
  PumpReads,   \* receives one pump makes at most; 1024
  MaxConn,     \* bound: names the bus gives out before it reuses one
  MaxReq,      \* bound: requests on one connection, Hello included
  MaxSent      \* bound: messages the bus sends on one connection

ASSUME SessionConstants ==
  /\ \A n \in {MaxSerial, Timeout, RcvTimeo, Backstop, PumpMsgs, PumpReads,
               MaxConn, MaxReq, MaxSent} : n \in Nat \ {0}

VARIABLES
  up,       \* a connection is open
  epoch,    \* the name the bus has for it
  serial,   \* _dbs_serial
  closed,   \* _dbs_closed
  uniq,     \* _dbs_uniq, 0 when _dbs_uniqn = 0
  wire,     \* the messages the bus has sent on this connection
  cut,      \* 1 if it closed in the middle of the last one, else 0
  gone,     \* the bus closed its end
  recvd,    \* dbus_frame_received()
  pos,      \* dbus_frame_pos()
  feof,     \* the framer has been told of the end of the stream
  pend,     \* requests the bus has and no answer was sent to
  nreq,     \* requests made on this connection
  half,     \* part of a request was written, and never the rest
  call,     \* the backend call in progress
  last      \* what the last one returned, and the request it was answered for

conn   == <<epoch, nreq>>
stream == <<wire, cut, gone>>
rx     == <<recvd, feof>>
vars   == <<up, conn, serial, closed, uniq, stream, rx, pos, pend, half, call, last>>

NoCall == [fn |-> "none", pc |-> "idle", id |-> 0, serial |-> 0, wm |-> 0,
           sent |-> 0, armed |-> FALSE, left |-> 0, wait |-> 0, spent |-> 0,
           reads |-> 0, drained |-> 0]
Idle   == call = NoCall
Unit   == 2
End    == Unit * Len(wire) - cut

\* dbus_session_wrap_serial: within u32, never 0.
WrapSerial(n) == IF n > MaxSerial \/ n = 0 THEN 1 ELSE n

-----------------------------------------------------------------------------
(* Messages *)

Other == -1      \* a destination that is not us

Message(f, rs, to, ty, sh) == [for |-> f, rs |-> rs, to |-> to, type |-> ty, shape |-> sh]

\* The serial field of the header is a u32, and so is the REPLY_SERIAL.
OnWire(n) == n % (MaxSerial + 1)

\* The answers to a request: one too large for the buffer or invalid is lost.
\* Hello (the first) is answered by the bus itself, which does neither.
Answer(q) ==
  { Message(q.id, OnWire(q.serial), epoch, ty, sh)
      : ty \in {"return", "error"},
        sh \in IF q.id = 1 THEN {"ok"} ELSE {"ok", "big", "invalid"} }

\* What else arrives: a signal, a message for someone else, whatever it says
\* it answers, an invalid one, one too large, a header that cannot be read.
Strays ==
  { Message(0, 0, 0, "signal", sh) : sh \in {"ok", "big", "bad"} }
    \cup { Message(0, s, Other, "return", "ok") : s \in 1 .. MaxSerial }
    \cup { Message(0, s, epoch, "return", "invalid") : s \in 1 .. MaxSerial }

\* dbus_frame_next: its answer, and the position after discarding an over-cap
\* message's bytes. "lost" is the end of the stream, "torn" a bad header.
FrameNext ==
  LET k     == pos \div Unit + 1
      a     == recvd - pos
      short == IF feof THEN "lost" ELSE "need_more"
      says(st, p) == [st |-> st, pos |-> p]
  IN CASE a = 0                                  -> says(short, pos)
       [] a > 0 /\ (pos % Unit > 0 \/ wire[k].shape = "big") -> says(short, recvd)
       [] a > 0 /\ pos % Unit = 0 /\ wire[k].shape = "bad"   -> says("torn", pos)
       [] a = Unit /\ pos % Unit = 0 /\ wire[k].shape \in {"ok", "invalid"} -> says("message", pos)
       [] OTHER                                  -> says(short, pos)

HeadMessage == wire[pos \div Unit + 1]

\* Mutant: a message is taken for the answer whenever it arrived.
PredatesNever == FALSE

\* It began to arrive before the request was written.
Predates == pos < call.wm

\* Addressed to us, or to no one, or our name is not known yet.
DestOk(m) == uniq = 0 \/ m.to = 0 \/ m.to = uniq

\* dbus_unmarshal_validate accepts its header fields.
Valid(m) == m.shape = "ok"

Mine(m) ==
  /\ Valid(m)
  /\ m.rs = call.serial
  /\ ~Predates
  /\ DestOk(m)

-----------------------------------------------------------------------------
(* Returning *)

\* The call returns; a failed Hello takes the connection with it.
Finish(rc, took) ==
  /\ last' = [fn |-> call.fn, id |-> call.id, rc |-> rc, took |-> took]
  /\ call' = NoCall
  /\ up' = ~(call.fn = "hello" /\ rc # "ok")
  /\ uniq' = IF call.fn = "hello" /\ rc = "ok" THEN epoch ELSE uniq

Continue(c) == call' = c /\ UNCHANGED <<last, up, uniq>>
Goto(pc)    == Continue([call EXCEPT !.pc = pc, !.wait = 0])

\* _dbs_lost: the connection went, and that is remembered.
Lost == closed' = TRUE /\ Finish("ECONNRESET", 0)

\* Mutant: a part-written request does not latch the connection.
CutForgets(rc) == half' = (half \/ call.sent > 0) /\ UNCHANGED closed /\ Finish(rc, 0)

\* _dbs_cut: a request written by half can never be resynchronised.
Cut(rc) ==
  /\ half' = (half \/ call.sent > 0)
  /\ closed' = (closed \/ call.sent > 0)
  /\ Finish(rc, 0)

-----------------------------------------------------------------------------
(* The connection *)

\* Mutant: the name of the last connection is kept.
SessionResetKeepsName == serial' = 1 /\ closed' = FALSE /\ UNCHANGED uniq

\* dbus_session_reset, and the serial Hello takes.
SessionReset == serial' = WrapSerial(1) /\ closed' = FALSE /\ uniq' = 0

\* Connected and authenticated: Hello is next.
Open ==
  /\ ~up /\ Idle
  /\ up' = TRUE
  /\ epoch' = 1 + (epoch % MaxConn)
  /\ SessionReset
  /\ wire' = <<>> /\ cut' = 0 /\ gone' = FALSE
  /\ recvd' = 0 /\ pos' = 0 /\ feof' = FALSE
  /\ pend' = {} /\ nreq' = 1 /\ half' = FALSE
  /\ call' = [NoCall EXCEPT !.fn = "hello", !.pc = "start", !.id = 1, !.serial = serial']
  /\ UNCHANGED last

CloseBus ==
  /\ up /\ Idle
  /\ up' = FALSE
  /\ UNCHANGED <<conn, serial, closed, uniq, stream, rx, pos, pend, half, call, last>>

\* Assumed of the bus: by the time a serial comes round again the request
\* that had it was answered, with a reply that has at least begun to arrive.
SerialFree(s) ==
  /\ \A q \in pend : q.serial # s
  /\ \A k \in 1 .. Len(wire) :
       wire[k].for > 0 /\ wire[k].rs = s => Unit * (k - 1) < recvd

\* A logind method.
MethodBegin ==
  /\ up /\ Idle
  /\ nreq < MaxReq
  /\ serial' = WrapSerial(serial + 1)
  /\ SerialFree(serial')
  /\ nreq' = nreq + 1
  /\ call' = [NoCall EXCEPT !.fn = "method", !.pc = "start",
                            !.id = nreq + 1, !.serial = serial']
  /\ UNCHANGED <<up, epoch, closed, uniq, stream, rx, pos, pend, half, last>>

-----------------------------------------------------------------------------
(* dbus_session_call *)

\* Nothing is written on a dead connection or a stream that cannot be read.
\* The watermark and, if the clock works, the deadline are set.
CallEnter ==
  /\ call.pc = "start"
  /\ IF closed THEN Finish("ENOTCONN", 0) /\ UNCHANGED <<closed, pos>>
     ELSE /\ pos' = FrameNext.pos
          /\ CASE FrameNext.st = "lost" -> Lost
               [] FrameNext.st = "torn" -> Finish("EPROTO", 0) /\ UNCHANGED closed
               [] OTHER ->
                    /\ \E clock \in BOOLEAN :
                         Continue([call EXCEPT !.pc = "write", !.wm = recvd,
                            !.armed = clock, !.left = IF clock THEN Timeout ELSE 0])
                    /\ UNCHANGED closed
  /\ UNCHANGED <<conn, serial, stream, rx, pend, half>>

\* Some of what is left to send is taken by the socket.
WriteSome(n) ==
  /\ call.pc = "write" /\ ~gone
  /\ call.sent + n <= Unit
  /\ IF call.sent + n = Unit
     THEN /\ Continue([call EXCEPT !.sent = Unit, !.pc = "look"])
          /\ pend' = pend \cup {[id |-> call.id, serial |-> call.serial]}
     ELSE Continue([call EXCEPT !.sent = @ + n]) /\ UNCHANGED pend
  /\ UNCHANGED <<conn, serial, closed, stream, rx, pos, half>>

\* The send buffer is full: wait for room, for the time that is left. With
\* no deadline SO_SNDTIMEO has passed by now; a clock that fails ends it too.
WriteFull ==
  /\ call.pc = "write" /\ ~gone
  /\ \/ call.armed /\ call.left > 0 /\ Goto("room") /\ UNCHANGED <<closed, half>>
     \/ Cut("ETIMEDOUT")
  /\ UNCHANGED <<conn, serial, stream, rx, pos, pend>>

\* Room, or a signal; or the deadline.
WaitRoom ==
  /\ call.pc = "room"
  /\ \/ Goto("write") /\ UNCHANGED <<closed, half>>
     \/ call.left = 0 /\ Cut("ETIMEDOUT")
  /\ UNCHANGED <<conn, serial, stream, rx, pos, pend>>

\* The send, or the wait for room, fails: with a disconnect once the bus is
\* gone, with an errno that is passed on otherwise.
WriteFails ==
  /\ call.pc \in {"write", "room"}
  /\ \/ gone /\ half' = (half \/ call.sent > 0) /\ Lost
     \/ Cut("other")
  /\ UNCHANGED <<conn, serial, stream, rx, pos, pend>>

\* The head message is whole: the answer, if it is mine, or discarded. The
\* method's caller consumes the answer; its content may not be what it must.
LookMessage ==
  /\ call.pc = "look"
  /\ FrameNext.st = "message"
  /\ LET m == HeadMessage
     IN CASE Mine(m) /\ m.type = "return" ->
               \E rc \in {"ok", "EPROTO"} : Finish(rc, m.for)
          [] Mine(m) /\ m.type = "error" -> Finish("error", m.for)
          [] OTHER -> Goto("look")
  /\ pos' = pos + Unit
  /\ UNCHANGED <<conn, serial, closed, stream, rx, pend, half>>

\* Mutant: the reads of a call without a deadline are not counted.
ReadsUncounted == call.reads

\* Without a deadline a call's reads are counted, up to Backstop.
Reads == call.reads + 1

\* It is not: a fault ends the call; otherwise wait for more. Without a
\* deadline the reads are counted.
LookFurther ==
  /\ call.pc = "look"
  /\ FrameNext.st # "message"
  /\ pos' = FrameNext.pos
  /\ \/ FrameNext.st = "lost" /\ Lost
     \/ FrameNext.st = "torn" /\ Finish("EPROTO", 0) /\ UNCHANGED closed
     \/ /\ FrameNext.st = "need_more"
        /\ \/ call.armed /\ call.left > 0 /\ Goto("poll")
           \/ call.armed /\ Finish("ETIMEDOUT", 0)      \* or the clock failed
           \/ /\ ~call.armed
              /\ IF Reads > Backstop THEN Finish("ETIMEDOUT", 0)
                 ELSE Continue([call EXCEPT !.pc = "blocked", !.reads = Reads, !.wait = 0])
        /\ UNCHANGED closed
  /\ UNCHANGED <<conn, serial, stream, rx, pend, half>>

\* Mutant: the receive after a poll blocks.
ReadyBlocks == "blocked"

\* The receive after a poll does not block: the socket may be ready with
\* nothing to read.
Ready == "recv"

\* Ready, or so it says; interrupted; out of time; or an error.
Poll ==
  /\ call.pc = "poll"
  /\ \/ Goto(Ready) /\ UNCHANGED closed
     \/ Goto("look") /\ UNCHANGED closed
     \/ call.left = 0 /\ Finish("ETIMEDOUT", 0) /\ UNCHANGED closed
     \/ Finish("other", 0) /\ UNCHANGED closed
     \/ gone /\ Lost
  /\ UNCHANGED <<conn, serial, stream, rx, pos, pend, half>>

-----------------------------------------------------------------------------
(* One receive, for the call and for the pump *)

Resume == IF call.fn = "pump" THEN "drain" ELSE "look"

Recv ==
  /\ call.pc \in {"recv", "blocked"}
  /\ \/ recvd < End /\ recvd' = recvd + 1 /\ UNCHANGED feof
     \/ gone /\ recvd = End /\ feof' = TRUE /\ UNCHANGED recvd
  /\ Goto(Resume)
  /\ UNCHANGED <<conn, serial, closed, stream, pos, pend, half>>

\* The call's receive finds nothing (-EAGAIN), is interrupted, or fails.
RecvFails ==
  /\ call.pc \in {"recv", "blocked"} /\ call.fn # "pump"
  /\ \/ Goto("look") /\ UNCHANGED closed
     \/ /\ call.pc = "blocked" /\ call.wait = RcvTimeo
        /\ Finish("ETIMEDOUT", 0) /\ UNCHANGED closed
     \/ Finish("other", 0) /\ UNCHANGED closed
     \/ gone /\ Lost
  /\ UNCHANGED <<conn, serial, stream, rx, pos, pend, half>>

-----------------------------------------------------------------------------
(* dbus_native_pump_signals *)

PumpBegin ==
  /\ up /\ Idle
  /\ call' = [NoCall EXCEPT !.fn = "pump", !.pc = "drain"]
  /\ UNCHANGED <<up, conn, serial, closed, uniq, stream, rx, pos, pend, half, last>>

\* Mutant: a pump that finds nothing does not look at the latch.
PumpRcQuiet == IF call.drained > 0 THEN "events" ELSE "quiet"

\* With no fault at hand: what was drained, else that the bus is gone.
PumpRc ==
  IF call.drained > 0 THEN "events" ELSE IF closed THEN "ECONNRESET" ELSE "quiet"

\* The end of a pump the framer says st to: events come before a fault.
PumpEnd(st) ==
  CASE call.drained > 0 -> Finish("events", 0) /\ UNCHANGED closed
    [] call.drained = 0 /\ st = "lost" -> Lost
    [] call.drained = 0 /\ st = "torn" -> Finish("EPROTO", 0) /\ UNCHANGED closed
    [] OTHER -> Finish(PumpRc, 0) /\ UNCHANGED closed

Drain ==
  /\ call.pc = "drain"
  /\ IF FrameNext.st = "message"
     THEN /\ pos' = pos + Unit
          /\ IF call.drained + 1 = PumpMsgs THEN Finish("events", 0)
             ELSE Continue([call EXCEPT !.drained = @ + 1])
          /\ UNCHANGED closed
     ELSE /\ pos' = FrameNext.pos
          /\ IF FrameNext.st = "need_more" /\ call.reads < PumpReads
             THEN /\ Continue([call EXCEPT !.pc = "recv", !.reads = @ + 1])
                  /\ UNCHANGED closed
             ELSE PumpEnd(FrameNext.st)
  /\ UNCHANGED <<conn, serial, stream, rx, pend, half>>

\* Nothing to read or interrupted ends the pump; a failure is told unless
\* messages were drained, a disconnect latched in any case.
PumpRecvFails ==
  /\ call.pc = "recv" /\ call.fn = "pump"
  /\ \/ Finish(PumpRc, 0) /\ UNCHANGED closed
     \/ /\ Finish(IF call.drained > 0 THEN "events" ELSE "other", 0)
        /\ UNCHANGED closed
     \/ /\ gone /\ closed' = TRUE
        /\ Finish(IF call.drained > 0 THEN "events" ELSE "ECONNRESET", 0)
  /\ UNCHANGED <<conn, serial, stream, rx, pos, pend, half>>

-----------------------------------------------------------------------------
(* The bus, and time (external) *)

Sends(m) ==
  /\ up /\ ~gone /\ Len(wire) < MaxSent
  /\ wire' = Append(wire, m)
  /\ UNCHANGED <<up, conn, serial, closed, uniq, cut, gone, rx, pos, half, call, last>>

\* Requests are answered in any order, late, or never.
BusAnswers == \E q \in pend : pend' = pend \ {q} /\ \E m \in Answer(q) : Sends(m)

\* Once it has answered Hello the bus delivers other messages too.
BusSends == wire # <<>> /\ UNCHANGED pend /\ \E m \in Strays : Sends(m)

BusCloses ==
  /\ up /\ ~gone
  /\ gone' = TRUE
  /\ cut' \in {0, 1} /\ recvd <= Unit * Len(wire) - cut'
  /\ pend' = {}
  /\ UNCHANGED <<up, conn, serial, closed, uniq, wire, rx, pos, half, call, last>>

Tick ==
  /\ \/ call.pc \in {"room", "poll"} /\ call.left > 0
     \/ call.pc = "blocked" /\ call.wait < RcvTimeo
  /\ call' = [call EXCEPT !.left  = IF @ > 0 THEN @ - 1 ELSE 0,
                          !.spent = IF call.armed THEN @ + 1 ELSE 0,
                          !.wait  = IF call.pc = "blocked" THEN @ + 1 ELSE 0]
  /\ UNCHANGED <<up, conn, serial, closed, uniq, stream, rx, pos, pend, half, last>>

-----------------------------------------------------------------------------
Init ==
  /\ up = FALSE /\ epoch = 0 /\ serial = 0 /\ closed = FALSE /\ uniq = 0
  /\ wire = <<>> /\ cut = 0 /\ gone = FALSE
  /\ recvd = 0 /\ pos = 0 /\ feof = FALSE
  /\ pend = {} /\ nreq = 0 /\ half = FALSE
  /\ call = NoCall
  /\ last = [fn |-> "none", id |-> 0, rc |-> "ok", took |-> 0]

Write == \E n \in 1 .. Unit : WriteSome(n)

Process ==
  \/ CallEnter \/ Write \/ WriteFull \/ WaitRoom \/ WriteFails
  \/ LookMessage \/ LookFurther \/ Poll \/ Recv \/ RecvFails
  \/ Drain \/ PumpRecvFails

Next ==
  \/ Open \/ CloseBus \/ MethodBegin \/ PumpBegin
  \/ Process
  \/ BusAnswers \/ BusSends \/ BusCloses \/ Tick

Spec == Init /\ [][Next]_vars

\* The process runs, and time passes while it is blocked, however often it
\* is woken for nothing.
FairSpec == Spec /\ WF_vars(Process) /\ SF_vars(Tick)

-----------------------------------------------------------------------------
(* Properties *)

\* A call that reports an answer reports the answer to its own request, not
\* a late one to an earlier call whose serial came round again, nor one for
\* someone else (dbus_session.cyr:838-870).
OwnReply ==
  last.fn \in {"hello", "method"} /\ last.rc \in {"ok", "error"}
    => last.took = last.id

\* A call never throws its own answer away: watermark, name and serial of an
\* earlier state of the connection cannot make it a stranger's
\* (dbus_session.cyr:798, :852-860, and dbus_session_reset).
NeverSkipsOwn ==
  [][call.pc = "look" /\ call'.pc = "look" /\ pos' = pos + Unit /\ FrameNext.st = "message"
       => ~(HeadMessage.for = call.id /\ Valid(HeadMessage))]_vars

\* Nothing reaches the bus after a request that was written by half: the
\* stream could not be resynchronised (dbus_session.cyr:743-749).
HalfIsLast == [][half => pend' \subseteq pend]_vars

\* A call that read the clock when it began is over at its deadline, also
\* when polls wake for nothing, bytes dribble in or the send buffer is full
\* (dbus_session.cyr:806-817, :882-909).
EndsInTime == call.armed => call.spent <= Timeout

\* A pump says "no events" only of a connection that is there and a stream
\* that can be read (dbus_session.cyr:1403-1418).
QuietIsAlive ==
  [][call.fn = "pump" /\ call' = NoCall /\ last'.rc = "quiet"
       => ~closed' /\ FrameNext'.st \notin {"lost", "torn"}]_vars

\* Every backend call ends, with a clock and without, whatever the bus does
\* (dbus_session.cyr:751-929, :1358-1419).
CallsEnd == (call.fn # "none") ~> (call.fn = "none")
=============================================================================

------------------------------ MODULE DbusFrame ------------------------------
(***************************************************************************)
(* The receive buffer (src/dbus_frame.cyr) and the one receive that fills  *)
(* it (_dbs_recv in src/dbus_session.cyr): a byte stream is cut into       *)
(* messages, and the descriptors that arrive are attributed to the message *)
(* at the head of the buffer.                                              *)
(*                                                                         *)
(* A byte is represented by its position in the stream. What a connection  *)
(* carries is fixed when it is made (wire) and arrives in pieces of any    *)
(* size, each as large as the framer allows at most; the peer may close it *)
(* after any byte. A broker attaches a message's descriptors to the write  *)
(* with its first byte, and the kernel ends a receive after a write that   *)
(* carries descriptors.                                                    *)
(***************************************************************************)
EXTENDS Integers, Sequences, Functions

CONSTANTS
  Hdr,       \* dbus_frame_hdr_size(); 16 in the code
  Cap,       \* dbus_frame_cap(); 8192
  MsgMax,    \* dbus_frame_msg_max(); 2^27
  FdqCap,    \* dbus_frame_fdq_cap(); 8
  Streams    \* what a connection may carry

(***************************************************************************)
(* A stream w: message k is the bytes w.bound[k] .. w.bound[k + 1] - 1,    *)
(* carries w.fds[k] descriptors, and has a header that can be read iff     *)
(* w.ok[k]. The SASL lines are the bytes before w.bound[1].                *)
(***************************************************************************)
WellFormed(w) ==
  /\ w.bound \in Seq(Nat) /\ w.fds \in Seq(Nat) /\ w.ok \in Seq(BOOLEAN)
  /\ Len(w.bound) = Len(w.fds) + 1 /\ Len(w.ok) = Len(w.fds)
  /\ w.bound[1] <= Cap
  /\ \A j, k \in 1 .. Len(w.bound) : j < k => w.bound[j] + Hdr <= w.bound[k]

ASSUME FrameConstants ==
  /\ Hdr \in Nat /\ Cap \in Nat /\ MsgMax \in Nat /\ FdqCap \in Nat
  /\ 0 < Hdr /\ Hdr <= Cap /\ Cap < MsgMax
  /\ \A w \in Streams : WellFormed(w)

VARIABLES
  conn,      \* "closed", "connecting" (reset, SASL under way) or "open"
  wire,      \* the stream of the open connection
  kpos,      \* how many bytes of it the kernel has handed over
  buf,       \* _dbf_buf[0 .. _dbf_have - 1], as stream positions
  off,       \* _dbf_off
  abs0,      \* _dbf_abs0
  skip,      \* _dbf_skip
  eof,       \* _dbf_eof
  fdq,       \* _dbf_fdq[0 .. _dbf_fdn - 1]: <<message, n>> is its nth
  fdtot,     \* _dbf_fdtot
  fdbad,     \* _dbf_fdbad
  moved,     \* _dbf_moved
  status,    \* what dbus_frame_next last said, "none" when it is due again
  open,      \* received descriptors the process has open
  given      \* descriptors handed out, each with the one the reply names

cursor == <<buf, off, abs0, skip, moved>>
queue  == <<fdq, fdtot, fdbad, open>>
vars   == <<conn, wire, kpos, cursor, eof, queue, status, given>>

Smaller(a, b) == IF a < b THEN a ELSE b

NoWire  == [bound |-> <<0>>, fds |-> <<>>, ok |-> <<>>]
Count   == Len(wire.fds)
WireEnd == wire.bound[Count + 1]
Length(k) == wire.bound[k + 1] - wire.bound[k]

Avail == Len(buf) - off
Pos      == abs0 + off          \* dbus_frame_pos()
Received == abs0 + Len(buf)     \* dbus_frame_received()

-----------------------------------------------------------------------------
(* Reading a header *)

\* dbus_frame_total of a buffer whose first byte is byte p of the stream:
\* -1 for a bad endian byte or protocol version, which is also what bytes
\* that are no header read as.
Total(p) ==
  IF \E k \in 1 .. Count : wire.bound[k] = p /\ wire.ok[k]
  THEN Length(CHOOSE k \in 1 .. Count : wire.bound[k] = p)
  ELSE -1

\* What is left to discard of an over-cap message, a bytes of it buffered.
Discard(t, a) == t - a

\* dbus_frame_next with nothing left to discard, from offset o. Below a
\* header the length is unknown, and at least a header's.
Framed(o) ==
  LET a == Len(buf) - o
      t == IF a < Hdr THEN Hdr ELSE Total(buf[o + 1])
      short == IF eof THEN "truncated" ELSE "need_more"
      says(st) == [st |-> st, off |-> o, skip |-> 0, drop |-> skip > 0]
  IN CASE a = 0                -> says(IF eof THEN "eof" ELSE "need_more")
       [] t < 0 \/ t >= MsgMax -> says("lost")
       [] Cap < t /\ t < MsgMax ->
            [st |-> short, off |-> Len(buf), skip |-> Discard(t, a), drop |-> TRUE]
       [] 0 < a /\ a < t /\ t <= Cap -> says(short)
       [] OTHER                -> says("message")

\* dbus_frame_next: finish discarding an over-cap message, then frame.
NextResult ==
  IF skip > Avail
  THEN [st |-> IF eof THEN "truncated" ELSE "need_more",
        off |-> Len(buf), skip |-> skip - Avail, drop |-> FALSE]
  ELSE Framed(off + skip)

\* Mutant: the queued descriptors are forgotten, not closed.
ClosedForgets == {}

\* The descriptors dbus_frame_close_fds closes.
Closed == Range(fdq)

CloseFds ==
  /\ open' = open \ Closed
  /\ fdq' = <<>>
  /\ fdtot' = 0
  /\ fdbad' = FALSE

DbusFrameNext ==
  /\ conn = "open"
  /\ status = "none"
  /\ status' = NextResult.st
  /\ off' = NextResult.off
  /\ skip' = NextResult.skip
  /\ IF NextResult.drop THEN CloseFds ELSE UNCHANGED queue
  /\ UNCHANGED <<conn, wire, kpos, buf, abs0, moved, eof, given>>

\* Mutant: the head message's descriptors stay queued when it is consumed.
DbusFrameAdvanceKeeps ==
  /\ status \in {"message", "claimed"}
  /\ off' = Smaller(off + Total(buf[off + 1]), Len(buf))
  /\ status' = "none"
  /\ UNCHANGED <<conn, wire, kpos, buf, abs0, skip, moved, eof, queue, given>>

\* Mutant: only the message's header is consumed.
DbusFrameAdvanceHeader ==
  /\ status \in {"message", "claimed"}
  /\ off' = Smaller(off + Hdr, Len(buf))
  /\ status' = "none"
  /\ CloseFds
  /\ UNCHANGED <<conn, wire, kpos, buf, abs0, skip, moved, eof, given>>

\* The caller is done with the message: what it did not claim is closed.
DbusFrameAdvance ==
  /\ status \in {"message", "claimed"}
  /\ off' = Smaller(off + Total(buf[off + 1]), Len(buf))
  /\ status' = "none"
  /\ CloseFds
  /\ UNCHANGED <<conn, wire, kpos, buf, abs0, skip, moved, eof, given>>

-----------------------------------------------------------------------------
(* One receive, bounded to the head message *)

\* How much may be read without passing the end of the head message.
Want ==
  IF skip > 0 THEN IF skip > Avail THEN skip - Avail ELSE 0
  ELSE IF Avail < Hdr THEN Hdr - Avail
  ELSE LET t == Total(buf[off + 1])
       IN IF t < 0 \/ t > Cap \/ t <= Avail THEN 0 ELSE t - Avail

\* Mutant: the buffer is never slid down.
CompactsNever == FALSE

\* Mutant: the buffer is slid down at every read, wherever the head is.
CompactsAlways == TRUE

\* dbus_frame_prepare slides the head message down only when the read does
\* not fit, dbus_frame_compact only when there is something to slide over.
Compacts == Cap - Len(buf) < Want /\ off > 0

\* Mutant: the buffer's stream position does not follow.
CompactStill ==
  IF Compacts
  THEN moved' = moved + Avail /\ UNCHANGED abs0 /\ off' = 0
  ELSE UNCHANGED <<moved, abs0, off>>

Compact ==
  IF Compacts
  THEN moved' = moved + Avail /\ abs0' = abs0 + off /\ off' = 0
  ELSE UNCHANGED <<moved, abs0, off>>

Prepared == IF Compacts THEN SubSeq(buf, off + 1, Len(buf)) ELSE buf
Limit    == Smaller(Want, Cap - Len(Prepared))

\* The messages with descriptors that begin in the next n bytes.
Carriers(n) == { k \in 1 .. Count : /\ wire.fds[k] > 0
                                    /\ kpos <= wire.bound[k]
                                    /\ wire.bound[k] < kpos + n }

\* The ways some of m descriptors can be left, in order: all of them, unless
\* the kernel truncates the ancillary data or one that came on a stdio
\* number cannot be moved off it.
Left(m) ==
  UNION { { s \in [1 .. c -> 1 .. m] : \A i, j \in 1 .. c : i < j => s[i] < s[j] }
            : c \in 0 .. m }

\* How many of q the queue has room for.
Room(q) == Smaller(Len(q), FdqCap - Len(fdq))

\* dbus_frame_push_fd for each of q, then dbus_frame_fds_incomplete: while an
\* over-cap message is discarded its descriptors are closed on arrival, and
\* so is what the queue has no room for.
PushFds(q, trunc) ==
  LET kept == SubSeq(q, 1, Room(q))
  IN IF skip > 0 THEN UNCHANGED queue
     ELSE /\ fdq' = fdq \o kept
          /\ open' = open \cup Range(kept)
          /\ fdtot' = fdtot + Len(q)
          /\ fdbad' = (fdbad \/ trunc)

\* n bytes arrive, with the descriptors of the message that begins in them.
Recv(n) ==
  /\ conn = "open" /\ ~eof
  /\ status = "need_more"
  /\ n <= Limit /\ kpos + n <= WireEnd
  /\ Compact
  /\ buf' = Prepared \o [i \in 1 .. n |-> kpos + i - 1]
  /\ kpos' = kpos + n
  /\ \/ Carriers(n) = {} /\ UNCHANGED queue
     \/ \E k \in Carriers(n) :
          \E s \in Left(wire.fds[k]), trunc \in BOOLEAN :
            /\ Carriers(n) = {k}
            /\ trunc => Len(s) < wire.fds[k]
            /\ PushFds([i \in 1 .. Len(s) |-> <<k, s[i]>>], trunc)
  /\ status' = "none"
  /\ UNCHANGED <<conn, wire, skip, eof, given>>

\* Nothing to read yet, or a signal: the buffer is prepared all the same.
RecvNothing ==
  /\ conn = "open" /\ ~eof
  /\ status = "need_more"
  /\ Limit > 0
  /\ Compact
  /\ buf' = Prepared
  /\ status' = "none"
  /\ UNCHANGED <<conn, wire, kpos, skip, eof, queue, given>>

\* The peer closed, or nothing can be read within the message boundary.
RecvEof ==
  /\ conn = "open" /\ ~eof
  /\ status = "need_more"
  /\ Compact
  /\ buf' = Prepared
  /\ eof' = TRUE
  /\ status' = "none"
  /\ UNCHANGED <<conn, wire, kpos, skip, queue, given>>

-----------------------------------------------------------------------------
(* Taking a descriptor from a TakeDevice reply *)

HeadMessage == CHOOSE k \in 1 .. Count : wire.bound[k] = buf[off + 1]

\* Mutant: the reply's own count of descriptors is not compared.
TrustedUnchecked == ~fdbad

\* Exactly the descriptors the reply says it carries have arrived.
Trusted == fdtot = wire.fds[HeadMessage] /\ ~fdbad

\* The reply's h is i. A descriptor that is not the device asked for is
\* closed; it has left the queue either way.
ClaimFd(i) ==
  /\ status = "message"
  /\ Trusted
  /\ i < Len(fdq)
  /\ fdq' = SubSeq(fdq, 1, i) \o SubSeq(fdq, i + 2, Len(fdq))
  /\ \/ /\ given' = given \cup {[fd |-> fdq[i + 1], named |-> <<HeadMessage, i + 1>>]}
        /\ UNCHANGED open
     \/ /\ open' = open \ {fdq[i + 1]}
        /\ UNCHANGED given
  /\ status' = "claimed"
  /\ UNCHANGED <<conn, wire, kpos, cursor, eof, fdtot, fdbad>>

-----------------------------------------------------------------------------
(* The life of a connection *)

\* Between calls; the consumer closes the devices it was given.
CloseBus ==
  /\ conn = "open"
  /\ status \notin {"message", "claimed"}
  /\ conn' = "closed"
  /\ open' = open \ (Closed \cup {g.fd : g \in given})
  /\ fdq' = <<>> /\ fdtot' = 0 /\ fdbad' = FALSE
  /\ given' = {}
  /\ UNCHANGED <<wire, kpos, cursor, eof, status>>

\* dbus_frame_init, before the next connect.
FrameInit ==
  /\ conn = "closed"
  /\ conn' = "connecting"
  /\ buf' = <<>> /\ off' = 0 /\ skip' = 0 /\ eof' = FALSE
  /\ moved' = 0 /\ abs0' = 0
  /\ CloseFds
  /\ wire' = NoWire /\ kpos' = 0 /\ status' = "none"
  /\ UNCHANGED given

ConnectFailed ==
  /\ conn = "connecting"
  /\ conn' = "closed"
  /\ UNCHANGED <<wire, kpos, cursor, eof, queue, status, given>>

\* The SASL lines went through the buffer and are consumed. The broker has
\* no message to send before it is sent Hello.
SaslDone(w) ==
  /\ conn = "connecting"
  /\ conn' = "open"
  /\ wire' = w
  /\ kpos' = w.bound[1]
  /\ buf' = [i \in 1 .. w.bound[1] |-> i - 1]
  /\ off' = w.bound[1]
  /\ UNCHANGED <<abs0, skip, moved, eof, queue, status, given>>

Init ==
  /\ conn = "closed" /\ wire = NoWire /\ kpos = 0
  /\ buf = <<>> /\ off = 0 /\ abs0 = 0 /\ skip = 0 /\ moved = 0
  /\ eof = FALSE /\ status = "none"
  /\ fdq = <<>> /\ fdtot = 0 /\ fdbad = FALSE /\ open = {} /\ given = {}

Bytes == \E n \in 1 .. Cap : Recv(n)

Next ==
  \/ FrameInit \/ ConnectFailed \/ CloseBus
  \/ \E w \in Streams : SaslDone(w)
  \/ DbusFrameNext \/ DbusFrameAdvance
  \/ Bytes \/ RecvNothing \/ RecvEof
  \/ \E i \in 0 .. FdqCap - 1 : ClaimFd(i)

Spec == Init /\ [][Next]_vars

\* The reader keeps reading, and bytes that are sent arrive.
FairSpec ==
  /\ Spec
  /\ WF_vars(DbusFrameNext)
  /\ WF_vars(DbusFrameAdvance)
  /\ SF_vars(Bytes)

-----------------------------------------------------------------------------
(* Properties *)

\* The framer stays in step with the stream. A byte's position survives
\* compaction, so dbus_frame_pos and dbus_frame_received, on which the
\* send-time watermark rests, are true (dbus_frame.cyr:192-196, :250-273); the
\* head of the buffer is the first byte of a message, or what is left to
\* discard ends at one, and nothing is buffered beyond the head message, also
\* after an over-cap one (dbus_frame.cyr:346-370, :429-437).
InStep ==
  /\ kpos = Received /\ \A i \in DOMAIN buf : buf[i] = abs0 + i - 1
  /\ conn = "open" =>
       \E k \in 1 .. Count + 1 :
         /\ wire.bound[k] = Pos + skip
         /\ IF skip > 0 \/ k > Count THEN Received <= wire.bound[k]
                                     ELSE Received <= wire.bound[k + 1]

\* Every queued descriptor arrived with the message at the head of the
\* buffer, so a TakeDevice can never be answered with another message's
\* (dbus_frame.cyr:64-70).
FdsAreHeads ==
  conn = "open" /\ fdq # <<>> =>
    /\ skip = 0
    /\ \A i \in DOMAIN fdq : /\ fdq[i][1] \in 1 .. Count
                             /\ wire.bound[fdq[i][1]] = Pos

\* Every descriptor received is queued once, or closed, or handed out, and
\* what is queued fits the queue's array; what is handed out is never closed
\* behind the consumer's back
\* (dbus_frame.cyr:59-62, :205-213, :307-344).
FdsAccounted ==
  LET handed == {g.fd : g \in given}
  IN /\ open = Range(fdq) \cup handed
     /\ Range(fdq) \cap handed = {}
     /\ IsInjective(fdq) /\ Len(fdq) <= FdqCap

\* The descriptor a TakeDevice hands out is the one the reply's index names,
\* although the kernel, the queue's limit or a failed move may have lost
\* others of the same message (dbus_session.cyr:1276-1307).
DescriptorIsNamed == \A g \in given : g.fd = g.named

\* Compaction moves no more bytes than were received, however the peer sizes
\* its messages (dbus_frame.cyr:198-203).
MovedBounded == moved <= Received

\* A reader that keeps reading gets through every message that was sent,
\* unless the stream is cut or holds a header that cannot be framed: whenever
\* the framer asks for more there is something it may read
\* (dbus_frame.cyr:346-382, dbus_session.cyr:659-662).
StreamFollowed ==
  conn = "open" ~> \/ conn # "open" \/ eof \/ status = "lost"
                   \/ Pos = WireEnd /\ skip = 0

\* The message the framer is at, for the abstract view of it.
AtMessage ==
  CHOOSE k \in 1 .. Count + 1 :
    wire.bound[k] <= Pos /\ (k <= Count => Pos < wire.bound[k + 1])

Stream == INSTANCE MessageStream WITH
  up      <- conn = "open",
  wire    <- IF conn = "open" THEN wire ELSE NoWire,
  head    <- IF conn = "open" THEN AtMessage ELSE 1,
  yielded <- status \in {"message", "claimed"},
  given   <- {g.fd : g \in given}

\* The framer delivers every message that fits, whole, once and in order,
\* and hands out only descriptors of the message at hand: buffering, partial
\* reads, compaction and draining cannot be seen from outside
\* (dbus_frame.cyr:384-455).
ImplementsStream == Stream!Spec
=============================================================================

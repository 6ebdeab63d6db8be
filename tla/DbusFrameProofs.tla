--------------------------- MODULE DbusFrameProofs --------------------------
(***************************************************************************)
(* Theorems about DbusFrame, for every header size, buffer, descriptor     *)
(* queue and stream: the framer stays in step, descriptors belong to the   *)
(* head message and are accounted for, compaction is linear, and the       *)
(* framer implements MessageStream.                                        *)
(***************************************************************************)
EXTENDS DbusFrame, TLAPS, SequenceTheorems, WellFoundedInduction

(***************************************************************************)
(* The inductive invariant.                                                *)
(***************************************************************************)

Looking == status \in {"message", "claimed"}

TypeOK ==
  /\ conn \in {"closed", "connecting", "open"}
  /\ WellFormed(wire) /\ (conn = "open" => wire \in Streams)
  /\ {kpos, off, abs0, skip, moved, fdtot} \subseteq Nat
  /\ buf \in Seq(Nat) /\ off <= Len(buf) /\ Len(buf) <= Cap
  /\ eof \in BOOLEAN /\ fdbad \in BOOLEAN
  /\ status \in {"none", "need_more", "lost", "truncated", "eof", "message", "claimed"}
  /\ fdq \in Seq(Nat \X Nat)

\* A buffered byte's position in the stream is known.
Positions ==
  /\ kpos = Received
  /\ \A i \in 1 .. Len(buf) : buf[i] = abs0 + i - 1

\* What has been moved belongs to messages that are done with, until the
\* buffer has been slid down for the head message.
MovedBefore == moved <= Received /\ (off > 0 => moved <= Pos)

\* Between connections, and until the SASL lines are done, there is nothing.
Unconnected ==
  /\ conn # "open" => open = {} /\ given = {} /\ fdq = <<>> /\ ~Looking
  /\ conn = "connecting" =>
       /\ buf = <<>> /\ off = 0 /\ abs0 = 0 /\ skip = 0 /\ moved = 0
       /\ status = "none" /\ fdtot = 0 /\ ~fdbad

\* Message k (Count + 1: the end of the stream) begins where the framer is,
\* after what is left to discard of the over-cap message before it.
HeadAt(k) ==
  /\ k \in 1 .. Count + 1
  /\ wire.bound[k] = Pos + skip
  /\ skip > 0 \/ k > Count => Received <= wire.bound[k]
  /\ k <= Count => Received <= wire.bound[k + 1]
  /\ skip > 0 => /\ k > 1 /\ wire.ok[k - 1] /\ wire.bound[k - 1] <= Pos
                 /\ Cap < Length(k - 1) /\ Length(k - 1) < MsgMax
  /\ Looking => /\ k <= Count /\ skip = 0 /\ wire.ok[k] /\ Length(k) <= Cap
                /\ Received = wire.bound[k + 1]

\* The queue holds descriptors of message k only, and none before its first
\* byte; when as many arrived as it carries, each is in its place.
QueueOf(k) ==
  /\ Received = Pos \/ skip > 0 => fdq = <<>> /\ fdtot = 0 /\ ~fdbad
  /\ \A i \in DOMAIN fdq : k <= Count /\ fdq[i][1] = k
  /\ fdq # <<>> /\ status # "claimed" /\ fdtot = wire.fds[k] =>
       \A i \in DOMAIN fdq : fdq[i] = <<k, i>> /\ i <= wire.fds[k]

\* What is open arrived with the first byte of some message.
OpenSeen ==
  \A x \in open : x[1] \in 1 .. Count /\ wire.bound[x[1]] < Received

Connected ==
  conn = "open" => OpenSeen /\ \E k \in 1 .. Count + 1 : HeadAt(k) /\ QueueOf(k)

FInv == /\ TypeOK
        /\ Positions
        /\ MovedBefore
        /\ Unconnected
        /\ Connected
        /\ FdsAccounted
        /\ DescriptorIsNamed

-----------------------------------------------------------------------------
(* Facts about streams *)

\* Messages are at least a header apart.
LEMMA StreamBounds ==
  ASSUME WellFormed(wire)
  PROVE  /\ Count \in Nat /\ WireEnd = wire.bound[Count + 1] /\ wire.bound[1] <= Cap
         /\ \A k \in 1 .. Count + 1 : wire.bound[k] \in Nat
         /\ \A j, k \in 1 .. Count + 1 : j < k => wire.bound[j] + Hdr <= wire.bound[k]
         /\ \A j, k \in 1 .. Count + 1 : wire.bound[j] = wire.bound[k] => j = k
         /\ \A k \in 1 .. Count : /\ wire.fds[k] \in Nat /\ wire.ok[k] \in BOOLEAN
                                  /\ Length(k) \in Nat /\ Hdr <= Length(k)
                                  /\ wire.bound[k + 1] = wire.bound[k] + Length(k)
<1>1. /\ wire.bound \in Seq(Nat) /\ wire.fds \in Seq(Nat) /\ wire.ok \in Seq(BOOLEAN)
      /\ Len(wire.bound) = Count + 1 /\ Len(wire.ok) = Count /\ Count \in Nat
      /\ wire.bound[1] <= Cap
      /\ \A j, k \in 1 .. Count + 1 : j < k => wire.bound[j] + Hdr <= wire.bound[k]
  BY DEF WellFormed, Count
<1>2. \A k \in 1 .. Count + 1 : wire.bound[k] \in Nat
  BY <1>1
<1>3. \A j, k \in 1 .. Count + 1 : wire.bound[j] = wire.bound[k] => j = k
  <2> SUFFICES ASSUME NEW j \in 1 .. Count + 1, NEW k \in 1 .. Count + 1,
                      wire.bound[j] = wire.bound[k], j < k
               PROVE  FALSE
    BY <1>1
  <2>1. wire.bound[j] + Hdr <= wire.bound[k] /\ wire.bound[j] \in Nat
    BY <1>1, <1>2
  <2> QED BY <2>1, FrameConstants
<1>4. \A k \in 1 .. Count : wire.fds[k] \in Nat /\ wire.ok[k] \in BOOLEAN
  BY <1>1 DEF Count
<1>5. ASSUME NEW k \in 1 .. Count
      PROVE  /\ Length(k) \in Nat /\ Hdr <= Length(k)
             /\ wire.bound[k + 1] = wire.bound[k] + Length(k)
  <2>1. k \in 1 .. Count + 1 /\ k + 1 \in 1 .. Count + 1 /\ k < k + 1
    BY <1>1
  <2>2. /\ wire.bound[k] \in Nat /\ wire.bound[k + 1] \in Nat
        /\ wire.bound[k] + Hdr <= wire.bound[k + 1]
    BY <1>1, <1>2, <2>1
  <2> QED BY <2>2, FrameConstants DEF Length
<1> QED BY <1>1, <1>2, <1>3, <1>4, <1>5 DEF WireEnd

\* Nothing was carried before the first connection.
LEMMA NoWireFormed == WellFormed(NoWire)
<1>1. <<0>> \in Seq(Nat) /\ Len(<<0>>) = 1 /\ <<0>>[1] = 0
  OBVIOUS
<1>2. <<>> \in Seq(Nat) /\ <<>> \in Seq(BOOLEAN) /\ Len(<<>>) = 0
  BY EmptySeq
<1> QED BY <1>1, <1>2, FrameConstants DEF WellFormed, NoWire

\* A header that can be read says how long its message is.
LEMMA TotalAt ==
  ASSUME WellFormed(wire), NEW k \in 1 .. Count
  PROVE  Total(wire.bound[k]) = IF wire.ok[k] THEN Length(k) ELSE -1
<1>1. \A j \in 1 .. Count : wire.bound[j] = wire.bound[k] => j = k
  BY StreamBounds
<1> QED BY <1>1 DEF Total

\* What a sequence of numbers has in a place is a number.
LEMMA NthNat == \A b \in Seq(Nat) : \A i \in 1 .. Len(b) : b[i] \in Nat
OBVIOUS

\* The same in numbers: where the framer is and what is buffered.
Measured ==
  /\ off \in Nat /\ abs0 \in Nat /\ skip \in Nat /\ moved \in Nat /\ kpos \in Nat
  /\ Len(buf) \in Nat /\ Avail \in Nat /\ Avail = Len(buf) - off
  /\ Pos \in Nat /\ Received = Pos + Avail /\ Pos = abs0 + off
  /\ Received \in Nat /\ kpos = Received /\ Avail <= Cap
  /\ Received = abs0 + Len(buf) /\ fdtot \in Nat

\* What the frame's counters measure follows from where its bytes are.
LEMMA Numbers == TypeOK /\ Positions => Measured
BY FrameConstants DEF TypeOK, Positions, Avail, Pos, Received, Measured

\* So dbus_frame_next knows the message it is at.
LEMMA HeadMessageIs ==
  ASSUME TypeOK, Positions, NEW k, HeadAt(k), Looking
  PROVE  HeadMessage = k /\ buf[off + 1] = wire.bound[k] /\ off < Len(buf)
<1>m. Measured
  BY Numbers
<1>0. WellFormed(wire) /\ Count \in Nat
  BY StreamBounds DEF TypeOK
<1>1. k \in 1 .. Count /\ wire.bound[k] = Pos /\ Received = wire.bound[k + 1]
  <2>1. k \in 1 .. Count + 1 /\ k <= Count /\ skip = 0 /\ wire.bound[k] = Pos + skip
        /\ Received = wire.bound[k + 1]
    BY DEF HeadAt
  <2> QED BY <1>0, <2>1, <1>m DEF Measured
<1>2. wire.bound[k + 1] = wire.bound[k] + Length(k) /\ Hdr <= Length(k) /\ Length(k) \in Nat
  BY <1>0, <1>1, StreamBounds
<1>3. off < Len(buf)
  BY <1>1, <1>2, <1>m, FrameConstants DEF Measured
<1>4. buf[off + 1] = Pos
  <2>1. off + 1 \in 1 .. Len(buf)
    BY <1>3, <1>m DEF Measured
  <2> QED BY <2>1, <1>m DEF Positions, Measured
<1>5. \A j \in 1 .. Count : wire.bound[j] = wire.bound[k] => j = k
  BY <1>0, <1>1, StreamBounds
<1> QED BY <1>1, <1>3, <1>4, <1>5 DEF HeadMessage

-----------------------------------------------------------------------------
(* Framing *)

\* dbus_frame_next with nothing left to discard, a bytes buffered and a
\* message of t bytes declared.
LEMMA FramedIs ==
  ASSUME TypeOK, NEW o \in Nat, NEW a \in Nat, NEW t \in Int,
         a = Len(buf) - o, t = IF a < Hdr THEN Hdr ELSE Total(buf[o + 1])
  PROVE  /\ a = 0 => Framed(o) = [st |-> IF eof THEN "eof" ELSE "need_more",
                                  off |-> o, skip |-> 0, drop |-> skip > 0]
         /\ a > 0 /\ (t < 0 \/ t >= MsgMax) =>
              Framed(o) = [st |-> "lost", off |-> o, skip |-> 0, drop |-> skip > 0]
         /\ a > 0 /\ Cap < t /\ t < MsgMax =>
              Framed(o) = [st |-> IF eof THEN "truncated" ELSE "need_more",
                           off |-> Len(buf), skip |-> t - a, drop |-> TRUE]
         /\ a < t /\ a > 0 /\ t <= Cap =>
              Framed(o) = [st |-> IF eof THEN "truncated" ELSE "need_more",
                           off |-> o, skip |-> 0, drop |-> skip > 0]
         /\ a > 0 /\ 0 <= t /\ t <= a /\ t <= Cap =>
              Framed(o) = [st |-> "message", off |-> o, skip |-> 0, drop |-> skip > 0]
<1> USE FrameConstants
<1>1. CASE a = 0
  <2>1. t = Hdr
    BY <1>1
  <2> QED BY <1>1, <2>1 DEF Framed
<1>2. CASE a > 0 /\ (t < 0 \/ t >= MsgMax)
  BY <1>2 DEF Framed
<1>3. CASE a > 0 /\ Cap < t /\ t < MsgMax
  BY <1>3 DEF Framed, Discard
<1>4. CASE a > 0 /\ 0 <= t /\ t <= Cap /\ a < t
  BY <1>4 DEF Framed
<1>5. CASE a > 0 /\ 0 <= t /\ t <= Cap /\ t <= a
  BY <1>5 DEF Framed
<1> QED BY <1>1, <1>2, <1>3, <1>4, <1>5

\* What dbus_frame_next does, by where the framer is: it goes on discarding,
\* finishes discarding (then nothing is buffered), stays where it is, begins
\* to discard message k, or yields it.
NextIs(k, r) ==
  \/ /\ skip > Avail
     /\ r.st \in {"truncated", "need_more"}
     /\ r.off = Len(buf) /\ r.skip = skip - Avail /\ ~r.drop
  \/ /\ skip > 0 /\ skip = Avail
     /\ r.st \in {"eof", "need_more"}
     /\ r.off = Len(buf) /\ r.skip = 0 /\ r.drop
  \/ /\ skip = 0
     /\ r.st \in {"eof", "need_more", "lost", "truncated"}
     /\ r.off = off /\ r.skip = 0 /\ ~r.drop
  \/ /\ skip = 0 /\ k <= Count /\ wire.ok[k]
     /\ Cap < Length(k) /\ Length(k) < MsgMax
     /\ r.st \in {"truncated", "need_more"}
     /\ r.off = Len(buf) /\ r.skip = Length(k) - Avail /\ r.drop
  \/ /\ skip = 0 /\ k <= Count /\ wire.ok[k] /\ Length(k) <= Cap
     /\ Received = wire.bound[k + 1]
     /\ r.st = "message" /\ r.off = off /\ r.skip = 0 /\ ~r.drop

\* dbus_frame_next finds what the head of the stream is.
LEMMA NextCases ==
  ASSUME TypeOK, Positions, NEW k, HeadAt(k)
  PROVE  NextIs(k, NextResult)
<1>m. Measured
  BY Numbers
<1>0. /\ WellFormed(wire) /\ Count \in Nat /\ eof \in BOOLEAN
      /\ k \in 1 .. Count + 1 /\ wire.bound[k] = Pos + skip
      /\ skip > 0 \/ k > Count => Received <= wire.bound[k]
      /\ k <= Count => Received <= wire.bound[k + 1]
  BY StreamBounds DEF TypeOK, HeadAt
<1>1. CASE skip > Avail
  BY <1>0, <1>1 DEF NextResult, NextIs
<1>2. CASE skip <= Avail /\ skip > 0
  <2>1. skip = Avail /\ off + skip = Len(buf) /\ off + skip \in Nat
    BY <1>0, <1>2, <1>m DEF Measured
  <2>2. 0 = Len(buf) - (off + skip) /\ Hdr = IF 0 < Hdr THEN Hdr ELSE Total(buf[off + skip + 1])
    BY <2>1, FrameConstants
  <2>3. NextResult = [st |-> IF eof THEN "eof" ELSE "need_more",
                      off |-> off + skip, skip |-> 0, drop |-> skip > 0]
    <3>1. NextResult = Framed(off + skip)
      BY <1>2, <1>m DEF NextResult, Measured
    <3>2. Hdr \in Int /\ 0 \in Nat
      BY FrameConstants
    <3> QED BY <2>1, <2>2, <3>1, <3>2, FramedIs
  <2> QED BY <1>0, <1>2, <2>1, <2>3 DEF NextIs
<1>3. CASE skip = 0
  <2> DEFINE a == Avail
             t == IF a < Hdr THEN Hdr ELSE Total(buf[off + 1])
  <2>0. ~(skip > 0)
    BY <1>3
  <2>1. NextResult = Framed(off) /\ a \in Nat /\ a = Len(buf) - off /\ off \in Nat
    BY <1>3, <1>m DEF NextResult, Measured
  <2>2. ASSUME a >= Hdr
        PROVE  /\ k \in 1 .. Count /\ buf[off + 1] = wire.bound[k]
               /\ wire.bound[k + 1] = wire.bound[k] + Length(k)
               /\ Length(k) \in Nat /\ Hdr <= Length(k) /\ wire.ok[k] \in BOOLEAN
               /\ t = IF wire.ok[k] THEN Length(k) ELSE -1
    <3>1. Received > Pos
      BY <2>1, <2>2, <1>m, FrameConstants DEF Measured
    <3>2. k \in 1 .. Count
      BY <1>0, <1>3, <3>1, <1>m DEF Measured
    <3>3. buf[off + 1] = Pos
      <4>1. off + 1 \in 1 .. Len(buf)
        BY <2>1, <2>2, <1>m, FrameConstants DEF Measured
      <4> QED BY <4>1, <1>m DEF Positions, Measured
    <3>4. buf[off + 1] = wire.bound[k]
      BY <1>0, <1>3, <3>3, <1>m DEF Measured
    <3>5. t = Total(wire.bound[k])
      BY <2>1, <2>2, <3>4, FrameConstants
    <3> QED BY <1>0, <3>2, <3>4, <3>5, StreamBounds, TotalAt
  <2>3. t \in Int
    BY <2>1, <2>2, FrameConstants
  <2> HIDE DEF t
  <2>4. CASE a = 0
    <3>1. NextResult = [st |-> IF eof THEN "eof" ELSE "need_more",
                        off |-> off, skip |-> 0, drop |-> skip > 0]
      BY <2>1, <2>3, <2>4, FramedIs DEF t
    <3>2. ~NextResult.drop
      BY <2>0, <3>1, Zenon
    <3>3. NextResult.st \in {"eof", "need_more"} /\ NextResult.off = off /\ NextResult.skip = 0
      BY <3>1
    <3> QED BY <1>3, <3>2, <3>3 DEF NextIs
  <2>5. CASE a > 0 /\ (t < 0 \/ t >= MsgMax)
    <3>1. NextResult = [st |-> "lost", off |-> off, skip |-> 0, drop |-> skip > 0]
      BY <2>1, <2>3, <2>5, FramedIs DEF t
    <3>2. ~NextResult.drop
      BY <2>0, <3>1, Zenon
    <3>3. NextResult.st = "lost" /\ NextResult.off = off /\ NextResult.skip = 0
      BY <3>1
    <3> QED BY <1>3, <3>2, <3>3 DEF NextIs
  <2>6. CASE a > 0 /\ Cap < t /\ t < MsgMax
    <3>1. NextResult = [st |-> IF eof THEN "truncated" ELSE "need_more",
                        off |-> Len(buf), skip |-> t - a, drop |-> TRUE]
      BY <2>1, <2>3, <2>6, FramedIs DEF t
    <3>2. a >= Hdr
      BY <2>1, <2>3, <2>6, FrameConstants DEF t
    <3>3. k <= Count /\ wire.ok[k] /\ t = Length(k)
      BY <2>2, <2>6, <3>2, <1>0, FrameConstants
    <3> QED BY <1>0, <1>3, <2>6, <3>1, <3>3 DEF NextIs
  <2>7. CASE a > 0 /\ 0 <= t /\ t <= Cap /\ a < t
    <3>1. NextResult = [st |-> IF eof THEN "truncated" ELSE "need_more",
                        off |-> off, skip |-> 0, drop |-> skip > 0]
      BY <2>1, <2>3, <2>7, FramedIs DEF t
    <3>2. ~NextResult.drop
      BY <2>0, <3>1, Zenon
    <3>3. NextResult.st \in {"truncated", "need_more"} /\ NextResult.off = off /\ NextResult.skip = 0
      BY <3>1
    <3> QED BY <1>3, <3>2, <3>3 DEF NextIs
  <2>8. CASE a > 0 /\ 0 <= t /\ t <= Cap /\ t <= a
    <3>1. NextResult = [st |-> "message", off |-> off, skip |-> 0, drop |-> skip > 0]
      BY <2>1, <2>3, <2>8, FramedIs DEF t
    <3>2. a >= Hdr
      BY <2>1, <2>3, <2>8, FrameConstants DEF t
    <3>3. k \in 1 .. Count /\ wire.ok[k] /\ t = Length(k)
      BY <2>2, <2>8, <3>2, <1>0, FrameConstants
    <3>4. Received <= wire.bound[k + 1] /\ wire.bound[k + 1] = Pos + t
      BY <1>0, <1>3, <2>2, <3>2, <3>3, <1>m DEF Measured
    <3>5. Received = wire.bound[k + 1]
      BY <2>1, <2>3, <2>8, <3>4, <1>m DEF Measured
    <3>6. ~NextResult.drop
      BY <2>0, <3>1, Zenon
    <3>7. NextResult.st = "message" /\ NextResult.off = off /\ NextResult.skip = 0
      BY <3>1
    <3> QED BY <1>0, <1>3, <2>8, <3>3, <3>5, <3>6, <3>7 DEF NextIs
  <2>9. \/ a = 0
        \/ a > 0 /\ (t < 0 \/ t >= MsgMax)
        \/ a > 0 /\ Cap < t /\ t < MsgMax
        \/ a > 0 /\ 0 <= t /\ t <= Cap /\ a < t
        \/ a > 0 /\ 0 <= t /\ t <= Cap /\ t <= a
    BY <2>1, <2>3, FrameConstants
  <2> QED BY <2>4, <2>5, <2>6, <2>7, <2>8, <2>9
<1> QED BY <1>1, <1>2, <1>3, <1>m DEF Measured

-----------------------------------------------------------------------------
(* One receive *)

\* Sliding the head message down keeps every byte's position, and moves only
\* bytes that were not moved before.
Slid ==
  /\ off' \in Nat /\ abs0' \in Nat /\ moved' \in Nat
  /\ abs0' + off' = Pos
  /\ Prepared \in Seq(Nat) /\ abs0' + Len(Prepared) = Received
  /\ off' <= Len(Prepared) /\ Len(Prepared) <= Len(buf)
  /\ \A i \in 1 .. Len(Prepared) : Prepared[i] = abs0' + i - 1
  /\ moved' <= Received /\ (off' > 0 => moved' <= Pos)

\* Compacting moves the buffered bytes and loses none.
LEMMA CompactKeeps ==
  ASSUME TypeOK, Positions, MovedBefore, Compact
  PROVE  Slid
<1>0. /\ buf \in Seq(Nat) /\ off <= Len(buf) /\ Len(buf) \in Nat
      /\ off \in Nat /\ abs0 \in Nat /\ moved \in Nat
      /\ Avail = Len(buf) - off /\ Pos = abs0 + off /\ Received = abs0 + Len(buf)
  BY Numbers DEF TypeOK, Measured
<1>1. CASE Compacts
  <2>0. off > 0 /\ off' = 0 /\ abs0' = abs0 + off /\ moved' = moved + Avail
    BY <1>1 DEF Compacts, Compact
  <2>1. Prepared = SubSeq(buf, off + 1, Len(buf))
    BY <1>1 DEF Prepared
  <2>2. /\ Prepared \in Seq(Nat) /\ Len(Prepared) = Len(buf) - off
        /\ \A i \in 1 .. Len(Prepared) : Prepared[i] = buf[off + i]
    <3>1. \A i \in off + 1 .. Len(buf) : buf[i] \in Nat
      BY <1>0
    <3>2. off + 1 \in Int /\ Len(buf) \in Int
      BY <1>0
    <3>3. /\ SubSeq(buf, off + 1, Len(buf)) \in Seq(Nat)
          /\ Len(SubSeq(buf, off + 1, Len(buf))) =
               IF off + 1 <= Len(buf) THEN Len(buf) - (off + 1) + 1 ELSE 0
          /\ \A i \in 1 .. Len(buf) - (off + 1) + 1 :
               SubSeq(buf, off + 1, Len(buf))[i] = buf[off + 1 + i - 1]
      BY <3>1, <3>2, SubSeqProperties
    <3>4. Len(Prepared) = Len(buf) - off
      BY <1>0, <2>1, <3>3
    <3>5. ASSUME NEW i \in 1 .. Len(Prepared)
          PROVE  Prepared[i] = buf[off + i]
      <4>1. i \in 1 .. Len(buf) - (off + 1) + 1 /\ off + 1 + i - 1 = off + i
        BY <1>0, <3>4
      <4> QED BY <2>1, <3>3, <4>1
    <3> QED BY <2>1, <3>3, <3>4, <3>5
  <2>3. ASSUME NEW i \in 1 .. Len(Prepared)
        PROVE  Prepared[i] = abs0' + i - 1
    <3>1. off + i \in 1 .. Len(buf) /\ i \in Nat
      BY <1>0, <2>2
    <3>2. buf[off + i] = abs0 + (off + i) - 1
      BY <3>1 DEF Positions
    <3>3. Prepared[i] = buf[off + i]
      BY <2>2
    <3> QED BY <1>0, <2>0, <3>1, <3>2, <3>3
  <2>4. abs0' + Len(Prepared) = Received /\ Len(Prepared) \in Nat
    <3>1. Len(Prepared) = Len(buf) - off
      BY <2>2
    <3> QED BY <1>0, <2>0, <3>1
  <2>5. moved' <= Received /\ moved' \in Nat
    BY <1>0, <2>0 DEF MovedBefore
  <2>6. off' <= Len(Prepared) /\ Len(Prepared) <= Len(buf) /\ abs0' + off' = Pos
        /\ off' \in Nat /\ abs0' \in Nat /\ ~(off' > 0)
    <3>1. Len(Prepared) = Len(buf) - off
      BY <2>2
    <3> QED BY <1>0, <2>0, <3>1
  <2> QED BY <2>2, <2>3, <2>4, <2>5, <2>6 DEF Slid
<1>2. CASE ~Compacts
  <2>1. Prepared = buf /\ off' = off /\ abs0' = abs0 /\ moved' = moved
    BY <1>2 DEF Prepared, Compact
  <2>2. \A i \in 1 .. Len(Prepared) : Prepared[i] = abs0' + i - 1
    BY <2>1 DEF Positions
  <2>3. moved' <= Received /\ (off' > 0 => moved' <= Pos)
    BY <2>1 DEF MovedBefore
  <2> QED BY <1>0, <2>1, <2>2, <2>3 DEF Slid
<1> QED BY <1>1, <1>2

\* A receive never passes the end of the head message, or of what is being
\* discarded.
LEMMA WantStays ==
  ASSUME TypeOK, Positions, NEW k, HeadAt(k),
         NEW n \in Nat, n > 0, n <= Want, kpos + n <= WireEnd
  PROVE  /\ skip > 0 => Received + n <= wire.bound[k]
         /\ skip = 0 => k <= Count
         /\ k <= Count => Received + n <= wire.bound[k + 1]
<1>0. /\ WellFormed(wire) /\ Count \in Nat /\ WireEnd = wire.bound[Count + 1]
      /\ k \in 1 .. Count + 1 /\ wire.bound[k] = Pos + skip
      /\ skip > 0 \/ k > Count => Received <= wire.bound[k]
      /\ k <= Count => Received <= wire.bound[k + 1]
  BY StreamBounds DEF TypeOK, HeadAt
<1>m. Measured
  BY Numbers
<1>1. ASSUME k <= Count
      PROVE  /\ wire.bound[k + 1] = wire.bound[k] + Length(k) /\ Hdr <= Length(k)
             /\ Length(k) \in Nat /\ wire.ok[k] \in BOOLEAN /\ k \in 1 .. Count
             /\ wire.bound[k] \in Nat /\ wire.bound[k + 1] \in Nat
  <2>1. k \in 1 .. Count /\ k + 1 \in 1 .. Count + 1
    BY <1>0, <1>1
  <2> QED BY <1>0, <2>1, StreamBounds
<1>2. CASE skip > 0
  <2>1. n <= IF skip > Avail THEN skip - Avail ELSE 0
    BY <1>2 DEF Want
  <2>2. Received + n <= wire.bound[k] /\ ~(skip = 0)
    <3>1. /\ skip \in Nat /\ Avail \in Nat /\ Pos \in Nat /\ Received = Pos + Avail
      BY <1>m DEF Measured
    <3>2. n <= skip - Avail
      BY <2>1, <3>1
    <3>3. wire.bound[k] = Pos + skip
      BY <1>0
    <3> QED BY <1>2, <3>1, <3>2, <3>3
  <2>3. ASSUME k <= Count
        PROVE  Received + n <= wire.bound[k + 1]
    <3>1. /\ wire.bound[k + 1] = wire.bound[k] + Length(k)
          /\ Length(k) \in Nat /\ wire.bound[k] \in Nat
      BY <1>1, <2>3
    <3>2. Received \in Nat
      BY <1>m DEF Measured
    <3> QED BY <2>2, <3>1, <3>2
  <2> QED BY <2>2, <2>3
<1>3. CASE ~(skip > 0)
  <2>0. skip = 0
    BY <1>3, <1>m DEF Measured
  <2>1. k <= Count
    <3>1. SUFFICES ASSUME k = Count + 1 PROVE FALSE
      BY <1>0
    <3>2. Received + n <= WireEnd /\ Received >= Pos /\ WireEnd = Pos
      BY <1>0, <1>m, <2>0, <3>1 DEF Measured
    <3> QED BY <3>2, <1>m DEF Measured
  <2>3. CASE Avail < Hdr
    <3>1. n <= Hdr - Avail
      BY <1>3, <2>3 DEF Want
    <3>2. Received + n <= Pos + Hdr
      BY <1>m, <3>1, FrameConstants DEF Measured
    <3>3. Received + n <= wire.bound[k + 1]
      <4>1. /\ wire.bound[k + 1] = wire.bound[k] + Length(k)
            /\ Hdr <= Length(k) /\ Length(k) \in Nat
        BY <1>1, <2>1
      <4>2. Received \in Nat /\ Pos \in Nat
        BY <1>m DEF Measured
      <4>3. wire.bound[k] = Pos
        BY <1>0, <2>0, <4>2
      <4> QED BY <3>2, <4>1, <4>2, <4>3, FrameConstants
    <3> QED BY <1>3, <2>1, <3>3
  <2>4. CASE Avail >= Hdr
    <3>1. off + 1 \in 1 .. Len(buf)
      BY <1>m, <2>4, FrameConstants DEF Measured
    <3>2. buf[off + 1] = wire.bound[k]
      <4>1. buf[off + 1] = abs0 + (off + 1) - 1
        BY <3>1 DEF Positions
      <4> QED BY <1>0, <1>m, <2>0, <4>1 DEF Measured
    <3>3. Total(buf[off + 1]) = IF wire.ok[k] THEN Length(k) ELSE -1
      BY <1>0, <1>1, <2>1, <3>2, TotalAt
    <3> DEFINE t == Total(buf[off + 1])
    <3>4. n <= IF t < 0 \/ t > Cap \/ t <= Avail THEN 0 ELSE t - Avail
      <4>1. ~(Avail < Hdr)
        BY <1>m, <2>4, FrameConstants DEF Measured
      <4> QED BY <1>3, <4>1 DEF Want
    <3> HIDE DEF t
    <3>5. t = IF wire.ok[k] THEN Length(k) ELSE -1
      BY <3>3 DEF t
    <3>6. t = Length(k) /\ n <= t - Avail
      BY <1>1, <1>m, <2>1, <3>4, <3>5 DEF Measured
    <3>7. Received + n <= wire.bound[k + 1]
      BY <1>0, <1>1, <1>m, <2>0, <2>1, <3>6 DEF Measured
    <3> QED BY <1>3, <2>1, <3>7
  <2> QED BY <1>m, <2>3, <2>4, FrameConstants DEF Measured
<1> QED BY <1>2, <1>3
-----------------------------------------------------------------------------
(* Facts about sequences *)

\* A set of naturals that is not empty has a least element.
LEMMA LeastNat ==
  ASSUME NEW T \in SUBSET Nat, T # {}
  PROVE  \E i \in T : \A j \in T : i <= j
<1> DEFINE R == {p \in Nat \X Nat : p[1] < p[2]}
<1>1. IsWellFoundedOn(R, Nat)
  BY NatLessThanWellFounded DEF OpToRel
<1>2. \E i \in T : \A j \in T : ~ (<<j, i>> \in R)
  <2> HIDE DEF R
  <2> QED BY <1>1, WFMin
<1>3. \A i, j \in T : ~ (<<j, i>> \in R) => i <= j
  OBVIOUS
<1> HIDE DEF R
<1> QED BY <1>2, <1>3

\* If none of m descriptors is lost, each is in its place.
LEMMA AllLeft ==
  ASSUME NEW m \in Nat, NEW s \in [1 .. m -> 1 .. m],
         \A i, j \in 1 .. m : i < j => s[i] < s[j]
  PROVE  \A i \in 1 .. m : s[i] = i
<1>1. \A i \in 1 .. m : s[i] \in Nat /\ 1 <= s[i] /\ s[i] <= m
  OBVIOUS
<1>2. \A i \in 1 .. m : i <= s[i]
  <2> DEFINE T == {i \in 1 .. m : s[i] < i}
  <2> SUFFICES ASSUME T # {} PROVE FALSE
    BY <1>1
  <2>1. PICK i \in T : \A j \in T : i <= j
    <3>1. T \in SUBSET Nat
      OBVIOUS
    <3> HIDE DEF T
    <3> QED BY <3>1, LeastNat
  <2>2. i \in 1 .. m /\ s[i] < i
    BY <2>1
  <2>3. i - 1 \in 1 .. m /\ i - 1 \notin T
    <3>1. 1 < i
      BY <1>1, <2>2
    <3>2. i - 1 \in 1 .. m /\ ~(i <= i - 1)
      BY <2>2, <3>1
    <3> HIDE DEF T
    <3> QED BY <2>1, <3>2
  <2>4. s[i - 1] >= i - 1 /\ s[i - 1] < s[i]
    BY <1>1, <2>2, <2>3
  <2> HIDE DEF T
  <2> QED BY <1>1, <2>2, <2>3, <2>4
<1>3. \A i \in 1 .. m : s[i] <= i
  <2> DEFINE T == {d \in 0 .. m - 1 : s[m - d] > m - d}
  <2> SUFFICES ASSUME T # {} PROVE FALSE
    <3>1. SUFFICES ASSUME NEW i \in 1 .. m, ~(s[i] <= i) PROVE T # {}
      OBVIOUS
    <3>2. m - i \in 0 .. m - 1 /\ m - (m - i) = i /\ s[i] > i
      BY <1>1, <3>1
    <3> QED BY <3>2
  <2>1. PICK d \in T : \A e \in T : d <= e
    <3>1. T \in SUBSET Nat
      OBVIOUS
    <3> HIDE DEF T
    <3> QED BY <3>1, LeastNat
  <2>2. d \in 0 .. m - 1 /\ s[m - d] > m - d
    BY <2>1
  <2> DEFINE i == m - d
  <2>3. i \in 1 .. m /\ i + 1 \in 1 .. m /\ s[i] > i
    <3>1. i \in 1 .. m /\ s[i] > i
      BY <2>2
    <3> HIDE DEF i
    <3> QED BY <1>1, <3>1
  <2>4. d - 1 \in 0 .. m - 1 /\ m - (d - 1) = i + 1
    BY <2>2, <2>3
  <2>5. d - 1 \notin T
    <3>1. ~(d <= d - 1)
      BY <2>2
    <3> HIDE DEF T
    <3> QED BY <2>1, <3>1
  <2>6. ~(s[i + 1] > i + 1)
    BY <2>4, <2>5
  <2>7. s[i] < s[i + 1]
    <3> HIDE DEF i
    <3> QED BY <2>3
  <2> HIDE DEF i, T
  <2> QED BY <1>1, <2>3, <2>6, <2>7
<1> QED BY <1>1, <1>2, <1>3

\* What is left of a sequence when an element is taken out of it.
Without(q, i) == SubSeq(q, 1, i) \o SubSeq(q, i + 2, Len(q))

\* An element taken out of a list without repetitions is gone from it.
LEMMA TakenOut ==
  ASSUME NEW S, NEW q \in Seq(S), NEW i \in Nat, i < Len(q), IsInjective(q),
         NEW p, p = Without(q, i)
  PROVE  /\ p \in Seq(S) /\ Len(p) = Len(q) - 1
         /\ Range(p) = Range(q) \ {q[i + 1]}
         /\ q[i + 1] \in Range(q)
         /\ IsInjective(p)
<1> DEFINE a == SubSeq(q, 1, i)
           b == SubSeq(q, i + 2, Len(q))
<1>0. Len(q) \in Nat /\ DOMAIN q = 1 .. Len(q) /\ \A j \in 1 .. Len(q) : q[j] \in S
  OBVIOUS
<1>1. a \in Seq(S) /\ Len(a) = i /\ \A j \in 1 .. i : a[j] = q[j]
  <2>1. \A j \in 1 .. i : q[j] \in S
    BY <1>0
  <2>2. /\ SubSeq(q, 1, i) \in Seq(S)
        /\ Len(SubSeq(q, 1, i)) = IF 1 <= i THEN i - 1 + 1 ELSE 0
        /\ \A j \in 1 .. i - 1 + 1 : SubSeq(q, 1, i)[j] = q[1 + j - 1]
    BY <2>1, SubSeqProperties
  <2> HIDE DEF a
  <2>3. a \in Seq(S) /\ Len(a) = IF 1 <= i THEN i - 1 + 1 ELSE 0
    BY <2>2 DEF a
  <2>4. \A j \in 1 .. i : a[j] = q[j]
    <3> TAKE j \in 1 .. i
    <3>1. j \in 1 .. i - 1 + 1 /\ 1 + j - 1 = j
      OBVIOUS
    <3> QED BY <2>2, <3>1 DEF a
  <2> QED BY <2>3, <2>4
<1>2. b \in Seq(S) /\ Len(b) = Len(q) - i - 1
      /\ \A j \in 1 .. Len(q) - i - 1 : b[j] = q[i + 1 + j]
  <2>1. \A j \in i + 2 .. Len(q) : q[j] \in S
    BY <1>0
  <2>2. /\ SubSeq(q, i + 2, Len(q)) \in Seq(S)
        /\ Len(SubSeq(q, i + 2, Len(q))) =
             IF i + 2 <= Len(q) THEN Len(q) - (i + 2) + 1 ELSE 0
        /\ \A j \in 1 .. Len(q) - (i + 2) + 1 :
             SubSeq(q, i + 2, Len(q))[j] = q[i + 2 + j - 1]
    <3>1. i + 2 \in Int /\ Len(q) \in Int
      BY <1>0
    <3> QED BY <2>1, <3>1, SubSeqProperties
  <2> HIDE DEF b
  <2>3. b \in Seq(S) /\ Len(b) = IF i + 2 <= Len(q) THEN Len(q) - (i + 2) + 1 ELSE 0
    BY <2>2 DEF b
  <2>4. Len(b) = Len(q) - i - 1
    <3> DEFINE n == Len(q)
    <3>1. n \in Nat /\ i < n /\ Len(b) = IF i + 2 <= n THEN n - (i + 2) + 1 ELSE 0
      BY <1>0, <2>3
    <3> HIDE DEF n
    <3>2. Len(b) = n - i - 1
      BY <3>1
    <3> QED BY <3>2 DEF n
  <2>5. \A j \in 1 .. Len(q) - i - 1 : b[j] = q[i + 1 + j]
    <3> TAKE j \in 1 .. Len(q) - i - 1
    <3>1. j \in 1 .. Len(q) - (i + 2) + 1 /\ i + 2 + j - 1 = i + 1 + j
      BY <1>0
    <3> QED BY <2>2, <3>1 DEF b
  <2> QED BY <2>3, <2>4, <2>5
<1> HIDE DEF a, b
<1>3. p \in Seq(S) /\ Len(p) = Len(q) - 1
      /\ \A j \in 1 .. Len(q) - 1 : p[j] = IF j <= i THEN a[j] ELSE b[j - i]
  <2>1. p = a \o b
    BY DEF a, b, Without
  <2>2. /\ a \o b \in Seq(S) /\ Len(a \o b) = Len(a) + Len(b)
        /\ \A j \in 1 .. Len(a) + Len(b) :
             (a \o b)[j] = IF j <= Len(a) THEN a[j] ELSE b[j - Len(a)]
    BY <1>1, <1>2, ConcatProperties
  <2>3. Len(a) + Len(b) = Len(q) - 1
    BY <1>0, <1>1, <1>2
  <2> QED BY <1>1, <2>1, <2>2, <2>3
<1>4. \A j \in 1 .. Len(q) - 1 : p[j] = IF j <= i THEN q[j] ELSE q[j + 1]
  <2> TAKE j \in 1 .. Len(q) - 1
  <2>1. CASE j <= i
    BY <1>1, <1>3, <2>1
  <2>2. CASE ~(j <= i)
    <3>1. j - i \in 1 .. Len(q) - i - 1 /\ i + 1 + (j - i) = j + 1
      BY <1>0, <2>2
    <3> QED BY <1>2, <1>3, <2>2, <3>1
  <2> QED BY <2>1, <2>2
<1>5. DOMAIN p = 1 .. Len(q) - 1
  BY <1>3
<1>6. \A j, l \in 1 .. Len(q) : q[j] = q[l] => j = l
  BY <1>0 DEF IsInjective
<1>7. i + 1 \in 1 .. Len(q)
  BY <1>0
<1>8. Range(p) = Range(q) \ {q[i + 1]}
  <2>1. ASSUME NEW j \in 1 .. Len(q) - 1
        PROVE  p[j] \in Range(q) /\ p[j] # q[i + 1]
    <3>1. CASE j <= i
      BY <1>0, <1>4, <1>6, <1>7, <3>1 DEF Range
    <3>2. CASE ~(j <= i)
      <4>1. j + 1 \in 1 .. Len(q) /\ j + 1 # i + 1 /\ p[j] = q[j + 1]
        BY <1>0, <1>4, <3>2
      <4> QED BY <1>0, <1>6, <1>7, <4>1 DEF Range
    <3> QED BY <3>1, <3>2
  <2>2. ASSUME NEW j \in 1 .. Len(q), j # i + 1
        PROVE  q[j] \in Range(p)
    <3>1. CASE j <= i
      <4>1. j \in 1 .. Len(q) - 1 /\ p[j] = q[j]
        BY <1>0, <1>4, <3>1
      <4> QED BY <1>5, <4>1 DEF Range
    <3>2. CASE ~(j <= i)
      <4>1. j - 1 \in 1 .. Len(q) - 1 /\ ~(j - 1 <= i) /\ (j - 1) + 1 = j
        BY <1>0, <2>2, <3>2
      <4>2. p[j - 1] = q[j]
        BY <1>4, <4>1
      <4> QED BY <1>5, <4>1, <4>2 DEF Range
    <3> QED BY <3>1, <3>2
  <2> QED BY <1>0, <1>5, <2>1, <2>2 DEF Range
<1>9. IsInjective(p)
  <2> SUFFICES ASSUME NEW j \in 1 .. Len(q) - 1, NEW l \in 1 .. Len(q) - 1, p[j] = p[l]
               PROVE  j = l
    BY <1>5 DEF IsInjective
  <2> DEFINE u(x) == IF x <= i THEN x ELSE x + 1
  <2>1. u(j) \in 1 .. Len(q) /\ u(l) \in 1 .. Len(q) /\ p[j] = q[u(j)] /\ p[l] = q[u(l)]
    BY <1>0, <1>4
  <2>2. u(j) = u(l)
    <3> HIDE DEF u
    <3> QED BY <1>6, <2>1
  <2> QED BY <2>2
<1> QED BY <1>0, <1>3, <1>7, <1>8, <1>9 DEF Range

-----------------------------------------------------------------------------
(* Every step keeps the invariant *)

\* It holds at first.
LEMMA InitFInv == Init => FInv
<1> SUFFICES ASSUME Init PROVE FInv
  OBVIOUS
<1>0. /\ conn = "closed" /\ wire = NoWire /\ kpos = 0 /\ buf = <<>> /\ off = 0
      /\ abs0 = 0 /\ skip = 0 /\ moved = 0 /\ eof = FALSE /\ status = "none"
      /\ fdq = <<>> /\ fdtot = 0 /\ fdbad = FALSE /\ open = {} /\ given = {}
  BY DEF Init
<1>1. TypeOK
  <2>1. <<>> \in Seq(Nat) /\ <<>> \in Seq(Nat \X Nat) /\ Len(<<>>) = 0
    BY EmptySeq
  <2>2. WellFormed(wire)
    BY <1>0, NoWireFormed
  <2>3. {kpos, off, abs0, skip, moved, fdtot} \subseteq Nat
    BY <1>0
  <2>4. eof \in BOOLEAN /\ fdbad \in BOOLEAN
    BY <1>0, Zenon
  <2>5. buf \in Seq(Nat) /\ fdq \in Seq(Nat \X Nat) /\ off <= Len(buf) /\ Len(buf) <= Cap
    BY <1>0, <2>1, FrameConstants
  <2>6. /\ conn \in {"closed", "connecting", "open"} /\ conn # "open"
        /\ status \in {"none", "need_more", "lost", "truncated", "eof", "message", "claimed"}
    BY <1>0
  <2> QED BY <2>2, <2>3, <2>4, <2>5, <2>6 DEF TypeOK
<1>2. Positions /\ MovedBefore
  BY <1>0 DEF Positions, MovedBefore, Received, Pos
<1>3. Unconnected /\ Connected /\ DescriptorIsNamed
  BY <1>0 DEF Unconnected, Connected, DescriptorIsNamed, Looking
<1>4. FdsAccounted
  <2>1. Range(<<>>) = {} /\ IsInjective(<<>>) /\ Len(<<>>) = 0
    BY DEF Range, IsInjective
  <2> QED BY <1>0, <2>1, FrameConstants DEF FdsAccounted
<1> QED BY <1>1, <1>2, <1>3, <1>4 DEF FInv

\* Closing the queued descriptors leaves those that were handed out.
LEMMA CloseKeeps ==
  ASSUME FdsAccounted, CloseFds, UNCHANGED given
  PROVE  FdsAccounted' /\ open' \subseteq open
<1>1. Range(<<>>) = {} /\ IsInjective(<<>>) /\ Len(<<>>) = 0
  BY DEF Range, IsInjective
<1>2. fdq' = <<>> /\ open' = open \ Range(fdq) /\ given' = given
  BY DEF CloseFds, Closed
<1>3. open = Range(fdq) \cup {g.fd : g \in given} /\ Range(fdq) \cap {g.fd : g \in given} = {}
  BY DEF FdsAccounted
<1>4. open' = {g.fd : g \in given}
  BY <1>2, <1>3
<1> QED BY <1>1, <1>2, <1>4, FrameConstants DEF FdsAccounted

\* A step of the reader within a connection: it may look at the buffer, move
\* on in it and close descriptors, and nothing else.
LEMMA NextKeeps ==
  ASSUME FInv, DbusFrameNext
  PROVE  FInv'
<1>0. /\ TypeOK /\ Positions /\ MovedBefore /\ Connected /\ FdsAccounted
      /\ DescriptorIsNamed /\ conn = "open" /\ status = "none"
      /\ UNCHANGED <<conn, wire, kpos, buf, abs0, moved, eof, given>>
      /\ status' = NextResult.st /\ off' = NextResult.off /\ skip' = NextResult.skip
      /\ IF NextResult.drop THEN CloseFds ELSE UNCHANGED queue
  BY DEF FInv, DbusFrameNext
<1>m. Measured
  BY <1>0, Numbers
<1>k. PICK k \in 1 .. Count + 1 : HeadAt(k) /\ QueueOf(k)
  BY <1>0 DEF Connected
<1>r. NextIs(k, NextResult)
  BY <1>0, <1>k, NextCases
<1>u. UNCHANGED queue \/ CloseFds
  BY <1>0
<1>b. /\ WellFormed(wire) /\ Count \in Nat
      /\ Count' = Count /\ Received' = Received /\ Pos' = abs0 + off'
      /\ wire' = wire
  BY <1>0, StreamBounds DEF TypeOK, Count, Received, Pos
<1>w. ASSUME k <= Count
      PROVE  /\ k \in 1 .. Count /\ wire.bound[k] \in Nat /\ wire.bound[k + 1] \in Nat
             /\ wire.bound[k + 1] = wire.bound[k] + Length(k)
             /\ Length(k) \in Nat /\ wire.ok[k] \in BOOLEAN /\ Hdr <= Length(k)
  <2>1. k \in 1 .. Count /\ k + 1 \in 1 .. Count + 1
    BY <1>b, <1>k, <1>w
  <2> QED BY <1>b, <2>1, StreamBounds
<1>h. /\ wire.bound[k] = Pos + skip
      /\ skip > 0 \/ k > Count => Received <= wire.bound[k]
      /\ k <= Count => Received <= wire.bound[k + 1]
      /\ skip > 0 => /\ k > 1 /\ wire.ok[k - 1] /\ wire.bound[k - 1] <= Pos
                     /\ Cap < Length(k - 1) /\ Length(k - 1) < MsgMax
  BY <1>k DEF HeadAt
<1>p. wire.bound[k - 1]' = wire.bound[k - 1] /\ Length(k - 1)' = Length(k - 1)
      /\ Length(k)' = Length(k)
  BY <1>b DEF Length
<1>1. TypeOK' /\ MovedBefore'
  <2>1. /\ off' = off \/ off' = Len(buf)
        /\ skip' \in Nat
        /\ status' \in {"truncated", "need_more", "eof", "lost", "message"}
    <3>1. CASE skip > Avail
      BY <1>0, <1>m, <1>r, <3>1 DEF NextIs, Measured
    <3>2. CASE ~(skip > Avail)
      <4>1. ASSUME k <= Count, Cap < Length(k)
            PROVE  Length(k) - Avail \in Nat
        BY <1>m, <1>w, <4>1, FrameConstants DEF Measured
      <4> QED BY <1>0, <1>m, <1>r, <3>2, <4>1 DEF NextIs
    <3> QED BY <3>1, <3>2
  <2>2. fdq' \in Seq(Nat \X Nat) /\ fdtot' \in Nat /\ fdbad' \in BOOLEAN
    <3>1. CASE CloseFds
      BY <3>1, EmptySeq DEF CloseFds
    <3>2. CASE UNCHANGED queue
      BY <1>0, <3>2 DEF queue, TypeOK
    <3> QED BY <1>u, <3>1, <3>2
  <2>3. TypeOK'
    BY <1>0, <1>m, <2>1, <2>2 DEF TypeOK, Measured
  <2>4. moved <= Received /\ (off > 0 => moved <= Pos)
    BY <1>0 DEF MovedBefore
  <2>5. Pos' = Pos \/ Pos' = Received
    BY <1>b, <1>m, <2>1 DEF Measured
  <2>6. off' > 0 => moved <= Pos'
    <3>1. CASE off' = Len(buf)
      BY <1>b, <1>m, <2>4, <3>1 DEF Measured
    <3>2. CASE off' = off
      BY <1>b, <1>m, <2>4, <3>2 DEF Measured
    <3> QED BY <2>1, <3>1, <3>2
  <2>7. MovedBefore'
    BY <1>0, <1>b, <2>4, <2>6 DEF MovedBefore
  <2> QED BY <2>3, <2>7
<1>2. Positions'
  BY <1>0, <1>b DEF Positions
<1>3. Unconnected' /\ DescriptorIsNamed'
  BY <1>0 DEF Unconnected, DescriptorIsNamed
<1>4. FdsAccounted' /\ open' \subseteq open
  BY <1>0, <1>u, CloseKeeps DEF queue, FdsAccounted
<1>5. OpenSeen'
  BY <1>0, <1>4, <1>b DEF Connected, OpenSeen
<1>6. \E j \in 1 .. Count + 1 : HeadAt(j)' /\ QueueOf(j)'
  <2>1. CASE skip > Avail
    <3>1. /\ status' \in {"truncated", "need_more"} /\ off' = Len(buf)
          /\ skip' = skip - Avail /\ UNCHANGED queue
      BY <1>0, <1>m, <1>r, <2>1 DEF NextIs, Measured
    <3>2. Pos' = Received /\ skip' > 0 /\ skip > 0 /\ ~(Looking')
          /\ wire.bound[k] = Pos' + skip' /\ Pos <= Pos'
      BY <1>b, <1>h, <1>m, <2>1, <3>1 DEF Measured, Looking
    <3>3. skip > 0 => /\ k > 1 /\ wire.ok[k - 1] /\ wire.bound[k - 1] <= Pos'
                      /\ Cap < Length(k - 1) /\ Length(k - 1) < MsgMax
      <4>1. k > 1 /\ wire.bound[k - 1] <= Pos
        BY <1>h, <3>2
      <4>2. k - 1 \in 1 .. Count + 1
        BY <1>b, <1>k, <4>1
      <4>3. wire.bound[k - 1] \in Nat
        BY <1>b, <4>2, StreamBounds
      <4> QED BY <1>b, <1>h, <1>m, <3>2, <4>1, <4>3 DEF Measured
    <3>4. HeadAt(k)'
      BY <1>b, <1>h, <1>k, <1>p, <3>2, <3>3 DEF HeadAt
    <3>5. QueueOf(k)'
      BY <1>0, <1>b, <1>k, <3>1, <3>2 DEF QueueOf, queue
    <3> QED BY <1>k, <3>4, <3>5
  <2>2. CASE skip > 0 /\ ~(skip > Avail)
    <3>1. /\ status' \in {"eof", "need_more"} /\ off' = Len(buf) /\ skip = Avail
          /\ skip' = 0 /\ CloseFds
      BY <1>0, <1>m, <1>r, <2>2 DEF NextIs, Measured
    <3>2. /\ Pos' = Received /\ wire.bound[k] = Received /\ ~(Looking')
          /\ wire.bound[k] = Pos' + skip' /\ ~(skip' > 0)
      <4>1. Pos' = Received /\ ~(Looking') /\ ~(skip' > 0)
        BY <1>b, <1>m, <3>1 DEF Measured, Looking
      <4>2. wire.bound[k] = Received /\ Received + 0 = Received
        BY <1>h, <1>m, <3>1 DEF Measured
      <4> QED BY <3>1, <4>1, <4>2
    <3>3. HeadAt(k)'
      BY <1>b, <1>h, <1>k, <1>m, <3>2 DEF HeadAt, Measured
    <3>4. QueueOf(k)'
      BY <3>1 DEF QueueOf, CloseFds
    <3> QED BY <1>k, <3>3, <3>4
  <2>3. CASE skip = 0 /\ ~NextResult.drop
    <3>1. /\ off' = off /\ skip' = 0 /\ UNCHANGED queue /\ ~(skip' > 0) /\ Pos' = Pos
          /\ wire.bound[k] = Pos' + skip'
      BY <1>0, <1>b, <1>h, <1>m, <1>r, <2>3 DEF NextIs, Measured
    <3>2. Looking' => /\ k <= Count /\ wire.ok[k] /\ Length(k) <= Cap
                      /\ Received = wire.bound[k + 1]
      <4>1. \/ status' \in {"eof", "need_more", "lost", "truncated"}
            \/ /\ k <= Count /\ wire.ok[k] /\ Length(k) <= Cap
               /\ Received = wire.bound[k + 1]
        BY <1>0, <1>m, <1>r, <2>3 DEF NextIs, Measured
      <4> QED BY <4>1 DEF Looking
    <3>3. HeadAt(k)'
      BY <1>b, <1>h, <1>k, <1>p, <2>3, <3>1, <3>2 DEF HeadAt
    <3>4. QueueOf(k)'
      BY <1>0, <1>b, <1>k, <2>3, <3>1 DEF QueueOf, queue
    <3> QED BY <1>k, <3>3, <3>4
  <2>4. CASE skip = 0 /\ NextResult.drop
    <3>1. /\ k <= Count /\ wire.ok[k] /\ Cap < Length(k) /\ Length(k) < MsgMax
          /\ status' \in {"truncated", "need_more"}
          /\ off' = Len(buf) /\ skip' = Length(k) - Avail /\ CloseFds
      BY <1>0, <1>m, <1>r, <2>4 DEF NextIs, Measured
    <3>2. /\ Pos' = Received /\ wire.bound[k + 1] = Pos' + skip' /\ skip' > 0
          /\ ~(Looking') /\ wire.bound[k] <= Pos' /\ Received <= wire.bound[k + 1]
      <4>1. wire.bound[k] = Pos /\ Received = Pos + Avail /\ Avail \in Nat /\ Pos \in Nat
            /\ Length(k) \in Nat /\ wire.bound[k + 1] = Pos + Length(k)
        BY <1>h, <1>m, <1>w, <2>4, <3>1 DEF Measured
      <4>2. Avail < Length(k)
        BY <1>m, <3>1, <4>1, FrameConstants DEF Measured
      <4>3. Pos' = Received
        BY <1>b, <1>m, <3>1 DEF Measured
      <4>4. wire.bound[k + 1] = Pos' + skip' /\ skip' > 0 /\ wire.bound[k] <= Pos'
            /\ Received <= wire.bound[k + 1]
        BY <3>1, <4>1, <4>2, <4>3
      <4> QED BY <3>1, <4>3, <4>4 DEF Looking
    <3>3. k + 1 <= Count => Received <= wire.bound[k + 2]
      <4> SUFFICES ASSUME k + 1 <= Count PROVE Received <= wire.bound[k + 2]
        OBVIOUS
      <4>1. k + 1 \in 1 .. Count + 1 /\ k + 2 \in 1 .. Count + 1 /\ k + 1 < k + 2
        BY <1>b, <1>k
      <4>2. wire.bound[k + 1] + Hdr <= wire.bound[k + 2] /\ wire.bound[k + 2] \in Nat
        BY <1>b, <4>1, StreamBounds
      <4>3. wire.bound[k + 1] \in Nat /\ Received \in Nat /\ Received <= wire.bound[k + 1]
        BY <1>m, <1>w, <3>1, <3>2 DEF Measured
      <4> QED BY <4>2, <4>3, FrameConstants
    <3>4. k + 1 \in 1 .. Count + 1 /\ k + 1 > 1 /\ (k + 1) - 1 = k /\ (k + 1) + 1 = k + 2
      BY <1>b, <1>k, <3>1
    <3>5. HeadAt(k + 1)'
      BY <1>b, <1>p, <3>1, <3>2, <3>3, <3>4 DEF HeadAt
    <3>6. QueueOf(k + 1)'
      BY <3>1 DEF QueueOf, CloseFds
    <3> QED BY <3>4, <3>5, <3>6
  <2> QED BY <1>m, <2>1, <2>2, <2>3, <2>4 DEF Measured
<1>7. Connected'
  BY <1>5, <1>6, <1>b DEF Connected
<1> QED BY <1>1, <1>2, <1>3, <1>4, <1>7 DEF FInv

\* The head of the buffer is read whole when there is a message.
LEMMA AdvanceKeeps ==
  ASSUME FInv, DbusFrameAdvance
  PROVE  FInv'
<1>0. /\ TypeOK /\ Positions /\ MovedBefore /\ Connected /\ FdsAccounted
      /\ DescriptorIsNamed /\ Looking /\ conn = "open"
      /\ UNCHANGED <<conn, wire, kpos, buf, abs0, skip, moved, eof, given>>
      /\ off' = Smaller(off + Total(buf[off + 1]), Len(buf)) /\ status' = "none" /\ CloseFds
  <2>1. conn = "open"
    BY DEF FInv, DbusFrameAdvance, Unconnected, Looking
  <2> QED BY <2>1 DEF FInv, DbusFrameAdvance, Looking
<1>m. Measured
  BY <1>0, Numbers
<1>k. PICK k \in 1 .. Count + 1 : HeadAt(k) /\ QueueOf(k)
  BY <1>0 DEF Connected
<1>b. /\ WellFormed(wire) /\ Count \in Nat
      /\ Count' = Count /\ Received' = Received /\ Pos' = abs0 + off'
      /\ wire' = wire
  BY <1>0, StreamBounds DEF TypeOK, Count, Received, Pos
<1>h. /\ k <= Count /\ wire.ok[k] /\ wire.bound[k] = Pos /\ skip = 0
      /\ Received = wire.bound[k + 1] /\ buf[off + 1] = wire.bound[k]
  <2>1. k <= Count /\ wire.ok[k] /\ wire.bound[k] = Pos + skip /\ skip = 0
        /\ Received = wire.bound[k + 1]
    BY <1>0, <1>k DEF HeadAt
  <2>2. buf[off + 1] = wire.bound[k]
    BY <1>0, <1>k, HeadMessageIs
  <2>3. wire.bound[k] = Pos
    <3>1. wire.bound[k] = Pos + skip /\ skip = 0
      BY <2>1
    <3> QED BY <1>m, <3>1 DEF Measured
  <2> QED BY <2>1, <2>2, <2>3
<1>w. /\ k \in 1 .. Count /\ Length(k) \in Nat
      /\ wire.bound[k + 1] = wire.bound[k] + Length(k)
  <2>1. k \in 1 .. Count
    BY <1>b, <1>h, <1>k
  <2> QED BY <1>b, <2>1, StreamBounds
<1>t. off' = Len(buf)
  <2>1. Total(buf[off + 1]) = Length(k)
    BY <1>b, <1>h, <1>w, TotalAt
  <2>2. off + Length(k) = Len(buf)
    <3>1. wire.bound[k] = Pos /\ Received = wire.bound[k] + Length(k) /\ Length(k) \in Nat
      BY <1>h, <1>w
    <3> QED BY <1>m, <3>1 DEF Measured
  <2> QED BY <1>0, <2>1, <2>2 DEF Smaller
<1>1. TypeOK' /\ MovedBefore'
  <2>1. fdq' \in Seq(Nat \X Nat) /\ fdtot' \in Nat /\ fdbad' \in BOOLEAN
    BY <1>0, EmptySeq DEF CloseFds
  <2>2. TypeOK'
    BY <1>0, <1>m, <1>t, <2>1 DEF TypeOK, Measured
  <2>3. moved <= Received /\ Pos' = Received
    BY <1>0, <1>b, <1>m, <1>t DEF MovedBefore, Measured
  <2> QED BY <1>0, <1>b, <2>2, <2>3 DEF MovedBefore
<1>2. Positions'
  BY <1>0, <1>b DEF Positions
<1>3. Unconnected' /\ DescriptorIsNamed'
  BY <1>0 DEF Unconnected, DescriptorIsNamed
<1>4. FdsAccounted' /\ open' \subseteq open
  BY <1>0, CloseKeeps
<1>5. OpenSeen'
  BY <1>0, <1>4, <1>b DEF Connected, OpenSeen
<1>6. HeadAt(k + 1)' /\ QueueOf(k + 1)' /\ k + 1 \in 1 .. Count + 1
  <2>1. /\ Pos' = Received /\ skip' = 0 /\ wire.bound[k + 1] = Pos' + skip'
        /\ ~(skip' > 0) /\ ~(Looking') /\ Received \in Nat
    BY <1>0, <1>b, <1>h, <1>m, <1>t DEF Measured, Looking
  <2>2. k + 1 \in 1 .. Count + 1 /\ (k + 1) + 1 = k + 2
    BY <1>b, <1>w
  <2>3. k + 1 <= Count => Received <= wire.bound[k + 2]
    <3> SUFFICES ASSUME k + 1 <= Count PROVE Received <= wire.bound[k + 2]
      OBVIOUS
    <3>1. k + 1 \in 1 .. Count + 1 /\ k + 2 \in 1 .. Count + 1 /\ k + 1 < k + 2
      BY <1>b, <1>w
    <3>2. wire.bound[k + 1] + Hdr <= wire.bound[k + 2] /\ wire.bound[k + 2] \in Nat
      BY <1>b, <3>1, StreamBounds
    <3> QED BY <1>h, <2>1, <3>2, FrameConstants
  <2>4. Received <= wire.bound[k + 1]
    BY <1>h, <2>1
  <2>5. HeadAt(k + 1)'
    BY <1>b, <2>1, <2>2, <2>3, <2>4 DEF HeadAt
  <2>6. QueueOf(k + 1)'
    BY <1>0 DEF QueueOf, CloseFds
  <2> QED BY <2>2, <2>5, <2>6
<1>7. Connected'
  BY <1>5, <1>6, <1>b DEF Connected
<1> QED BY <1>1, <1>2, <1>3, <1>4, <1>7 DEF FInv

\* A receive that brings no bytes changes nothing but where the buffer is.
LEMMA QuietKeeps ==
  ASSUME FInv, RecvNothing \/ RecvEof
  PROVE  FInv'
<1>0. /\ TypeOK /\ Positions /\ MovedBefore /\ Connected /\ FdsAccounted
      /\ DescriptorIsNamed /\ conn = "open" /\ status = "need_more" /\ status' = "none"
      /\ UNCHANGED <<conn, wire, kpos, skip, queue, given>>
      /\ Compact /\ buf' = Prepared
  BY DEF FInv, RecvNothing, RecvEof
<1>e. eof' \in BOOLEAN
  BY <1>0 DEF RecvNothing, RecvEof, TypeOK
<1>m. Measured
  BY <1>0, Numbers
<1>s. Slid
  BY <1>0, CompactKeeps
<1>b. /\ Count' = Count /\ Received' = Received /\ Pos' = Pos /\ wire' = wire
  BY <1>0, <1>s DEF Count, Received, Pos, Slid
<1>k. PICK k \in 1 .. Count + 1 : HeadAt(k) /\ QueueOf(k)
  BY <1>0 DEF Connected
<1>1. TypeOK'
  <2>1. off' <= Len(buf') /\ Len(buf') <= Cap /\ buf' \in Seq(Nat)
    <3>1. Len(Prepared) \in Nat /\ Len(Prepared) <= Len(buf) /\ Len(buf) \in Nat
          /\ Len(buf) <= Cap
      BY <1>0, <1>m, <1>s DEF TypeOK, Slid, Measured
    <3> QED BY <1>0, <1>s, <3>1, FrameConstants DEF Slid
  <2>2. {kpos', off', abs0', skip', moved', fdtot'} \subseteq Nat
    BY <1>0, <1>m, <1>s DEF queue, Slid, Measured
  <2>3. WellFormed(wire)' /\ (conn = "open" => wire \in Streams)' /\ fdbad' \in BOOLEAN
        /\ fdq' \in Seq(Nat \X Nat)
    BY <1>0 DEF TypeOK, queue
  <2> QED BY <1>0, <1>e, <2>1, <2>2, <2>3 DEF TypeOK
<1>2. Positions' /\ MovedBefore'
  BY <1>0, <1>b, <1>s DEF Positions, MovedBefore, Slid
<1>3. Unconnected' /\ DescriptorIsNamed' /\ FdsAccounted'
  BY <1>0 DEF Unconnected, DescriptorIsNamed, FdsAccounted, queue
<1>4. OpenSeen'
  BY <1>0, <1>b DEF Connected, OpenSeen, queue
<1>5. HeadAt(k)' /\ QueueOf(k)'
  <2>1. HeadAt(k)'
    BY <1>0, <1>b, <1>k DEF HeadAt, Length, Looking
  <2>2. QueueOf(k)'
    BY <1>0, <1>b, <1>k DEF QueueOf, queue
  <2> QED BY <2>1, <2>2
<1>6. Connected'
  BY <1>4, <1>5, <1>b DEF Connected
<1> QED BY <1>1, <1>2, <1>3, <1>6 DEF FInv

\* The numbers of an empty queue after q was pushed.
Pushed(q, trunc) ==
  /\ fdq' = SubSeq(q, 1, Room(q))
  /\ open' = open \cup Range(SubSeq(q, 1, Room(q)))
  /\ fdtot' = Len(q) /\ fdbad' = trunc

\* What is queued when nothing was.
LEMMA PushEmpty ==
  ASSUME TypeOK, NEW q \in Seq(Nat \X Nat), NEW trunc \in BOOLEAN,
         skip = 0, fdq = <<>>, fdtot = 0, ~fdbad, PushFds(q, trunc)
  PROVE  Pushed(q, trunc)
<1> DEFINE kept == SubSeq(q, 1, Room(q))
<1>1. /\ fdq' = fdq \o kept /\ open' = open \cup Range(kept)
      /\ fdtot' = fdtot + Len(q) /\ fdbad' = (fdbad \/ trunc)
  BY DEF PushFds
<1>2. Len(q) \in Nat /\ Len(fdq) = 0
  BY EmptySeq
<1>3. Room(q) \in Nat /\ Room(q) <= Len(q)
  BY <1>2, FrameConstants DEF Room, Smaller
<1>4. kept \in Seq(Nat \X Nat)
  <2>1. \A i \in 1 .. Room(q) : q[i] \in Nat \X Nat
    BY <1>2, <1>3
  <2> QED BY <1>3, <2>1, SubSeqProperties
<1> HIDE DEF kept
<1>5. fdq' = kept
  BY <1>1, <1>4, ConcatEmptySeq
<1>6. fdtot' = Len(q)
  BY <1>1, <1>2
<1>7. fdbad' = trunc
  BY <1>1, Zenon
<1> QED BY <1>1, <1>5, <1>6, <1>7 DEF Pushed, kept

\* The descriptors of message k that are left, pushed onto an empty queue.
LEMMA PushedIs ==
  ASSUME TypeOK, FdsAccounted, NEW k \in Nat, NEW m \in Nat, NEW s \in Left(m),
         NEW trunc \in BOOLEAN, fdq = <<>>, UNCHANGED given,
         \A x \in open : x[1] # k,
         Pushed([i \in 1 .. Len(s) |-> <<k, s[i]>>], trunc)
  PROVE  /\ fdq' \in Seq(Nat \X Nat) /\ fdtot' \in Nat /\ fdbad' \in BOOLEAN
         /\ \A i \in DOMAIN fdq' : fdq'[i][1] = k
         /\ fdtot' = m => \A i \in DOMAIN fdq' : fdq'[i] = <<k, i>> /\ i <= m
         /\ \A x \in open' : x \in open \/ x[1] = k
         /\ FdsAccounted'
<1> DEFINE q == [i \in 1 .. Len(s) |-> <<k, s[i]>>]
<1>1. PICK c \in 0 .. m : /\ s \in [1 .. c -> 1 .. m]
                          /\ \A i, j \in 1 .. c : i < j => s[i] < s[j]
  BY DEF Left
<1>2. Len(s) = c /\ c \in Nat /\ \A i \in 1 .. c : s[i] \in 1 .. m
  BY <1>1
<1>3. q \in Seq(Nat \X Nat) /\ Len(q) = c /\ \A i \in 1 .. c : q[i] = <<k, s[i]>>
  <2>1. q = [i \in 1 .. c |-> <<k, s[i]>>] /\ \A i \in 1 .. c : <<k, s[i]>> \in Nat \X Nat
    BY <1>2
  <2> QED BY <1>2, <2>1
<1>p. Pushed(q, trunc)
  OBVIOUS
<1> HIDE DEF q
<1> DEFINE r == Room(q)
<1>4. r \in Nat /\ r <= c /\ r <= FdqCap
  <2>1. Len(fdq) = 0
    BY EmptySeq
  <2> QED BY <1>2, <1>3, <2>1, FrameConstants DEF Room, Smaller
<1>5. /\ fdq' = SubSeq(q, 1, r) /\ open' = open \cup Range(fdq')
      /\ fdtot' = c /\ fdbad' \in BOOLEAN
  BY <1>3, <1>p DEF Pushed
<1> HIDE DEF r
<1>6. fdq' \in Seq(Nat \X Nat) /\ Len(fdq') = r /\ \A i \in 1 .. r : fdq'[i] = <<k, s[i]>>
  <2>1. \A i \in 1 .. r : q[i] \in Nat \X Nat
    BY <1>3, <1>4
  <2>2. /\ SubSeq(q, 1, r) \in Seq(Nat \X Nat)
        /\ Len(SubSeq(q, 1, r)) = IF 1 <= r THEN r - 1 + 1 ELSE 0
        /\ \A i \in 1 .. r - 1 + 1 : SubSeq(q, 1, r)[i] = q[1 + i - 1]
    BY <1>4, <2>1, SubSeqProperties
  <2>3. Len(fdq') = r
    <3>1. Len(fdq') = IF 1 <= r THEN r - 1 + 1 ELSE 0
      BY <1>5, <2>2
    <3> QED BY <1>4, <3>1
  <2>4. ASSUME NEW i \in 1 .. r
        PROVE  fdq'[i] = <<k, s[i]>>
    <3>1. i \in 1 .. r - 1 + 1 /\ 1 + i - 1 = i /\ i \in 1 .. c
      BY <1>2, <1>4
    <3>2. fdq'[i] = q[i]
      BY <1>5, <2>2, <3>1
    <3> QED BY <1>3, <3>1, <3>2
  <2> QED BY <1>5, <2>2, <2>3, <2>4
<1>7. DOMAIN fdq' = 1 .. r
  BY <1>6
<1>8. \A i, j \in 1 .. r : fdq'[i] = fdq'[j] => i = j
  <2> SUFFICES ASSUME NEW i \in 1 .. r, NEW j \in 1 .. r,
                      fdq'[i] = fdq'[j], i # j
               PROVE  FALSE
    OBVIOUS
  <2>0. s[i] = s[j]
    <3>1. fdq'[i] = <<k, s[i]>> /\ fdq'[j] = <<k, s[j]>>
      BY <1>6
    <3>2. <<k, s[i]>> = <<k, s[j]>>
      BY <3>1
    <3> QED BY <3>2
  <2>1. i \in 1 .. c /\ j \in 1 .. c /\ (i < j \/ j < i)
    BY <1>2, <1>4
  <2>2. s[i] \in Nat /\ s[j] \in Nat /\ (s[i] < s[j] \/ s[j] < s[i])
    BY <1>1, <1>2, <2>1
  <2> QED BY <2>0, <2>2
<1>9. \A x \in Range(fdq') : x[1] = k
  BY <1>6, <1>7 DEF Range
<1>10. FdsAccounted'
  <2>1. Range(fdq) = {}
    BY DEF Range
  <2>2. open = {g.fd : g \in given}
    BY <2>1 DEF FdsAccounted
  <2>3. Range(fdq') \cap open = {}
    BY <1>9
  <2>4. IsInjective(fdq')
    BY <1>7, <1>8 DEF IsInjective
  <2>5. {g.fd : g \in given'} = open
    BY <2>2
  <2>6. open' = Range(fdq') \cup {g.fd : g \in given'}
        /\ Range(fdq') \cap {g.fd : g \in given'} = {}
    BY <1>5, <2>3, <2>5
  <2> QED BY <1>4, <1>6, <2>4, <2>6 DEF FdsAccounted
<1>11. fdtot' = m => \A i \in DOMAIN fdq' : fdq'[i] = <<k, i>> /\ i <= m
  <2> SUFFICES ASSUME c = m PROVE \A i \in 1 .. r : fdq'[i] = <<k, i>> /\ i <= m
    BY <1>5, <1>7
  <2>1. \A i \in 1 .. m : s[i] = i
    BY <1>1, AllLeft
  <2>2. \A i \in 1 .. r : i \in 1 .. m
    BY <1>2, <1>4
  <2> QED BY <1>6, <2>1, <2>2
<1>12. fdq' \in Seq(Nat \X Nat) /\ fdtot' \in Nat /\ fdbad' \in BOOLEAN
  BY <1>2, <1>5, <1>6
<1>13. \A i \in DOMAIN fdq' : fdq'[i][1] = k
  BY <1>6, <1>7
<1>14. \A x \in open' : x \in open \/ x[1] = k
  BY <1>5, <1>9
<1> QED BY <1>10, <1>11, <1>12, <1>13, <1>14

\* What a receive of n bytes does to the buffer.
LEMMA ReadBuffer ==
  ASSUME TypeOK, Positions, MovedBefore, NEW n \in Nat, n > 0, Recv(n)
  PROVE  /\ n <= Want /\ kpos + n <= WireEnd
         /\ Received' = Received + n /\ Pos' = Pos /\ Count' = Count /\ wire' = wire
         /\ off' \in Nat /\ abs0' \in Nat /\ moved' \in Nat /\ kpos' = kpos + n
         /\ buf' \in Seq(Nat) /\ off' <= Len(buf') /\ Len(buf') <= Cap
         /\ Positions' /\ MovedBefore'
<1>m. Measured
  BY Numbers
<1>0. /\ n <= Limit /\ kpos + n <= WireEnd /\ Compact /\ wire' = wire
      /\ buf' = Prepared \o [i \in 1 .. n |-> kpos + i - 1] /\ kpos' = kpos + n
  BY DEF Recv
<1>s. Slid
  BY <1>0, CompactKeeps
<1>p. Len(Prepared) \in Nat /\ Len(Prepared) <= Len(buf) /\ Len(buf) <= Cap
      /\ Prepared \in Seq(Nat) /\ Len(buf) \in Nat
  BY <1>m, <1>s DEF Slid, TypeOK, Measured
<1>w. n <= Want /\ n <= Cap - Len(Prepared)
  <2>1. Want \in Int
    <3>1. \A p : Total(p) \in Int
      <4>1. \A k \in 1 .. Count : Length(k) \in Int
        BY StreamBounds DEF TypeOK
      <4> QED BY <4>1 DEF Total
    <3> QED BY <1>m, <3>1, FrameConstants DEF Want, Measured
  <2> QED BY <1>0, <1>p, <2>1, FrameConstants DEF Limit, Smaller
<1> DEFINE new == [i \in 1 .. n |-> kpos + i - 1]
<1>1. new \in Seq(Nat) /\ Len(new) = n /\ \A i \in 1 .. n : new[i] = kpos + i - 1
  <2>1. \A i \in 1 .. n : kpos + i - 1 \in Nat
    BY <1>m DEF Measured
  <2> QED BY <2>1
<1> HIDE DEF new
<1>2. /\ buf' \in Seq(Nat) /\ Len(buf') = Len(Prepared) + n
      /\ \A i \in 1 .. Len(Prepared) + n :
           buf'[i] = IF i <= Len(Prepared) THEN Prepared[i] ELSE new[i - Len(Prepared)]
  <2>1. buf' = Prepared \o new
    BY <1>0 DEF new
  <2>2. /\ Prepared \o new \in Seq(Nat) /\ Len(Prepared \o new) = Len(Prepared) + Len(new)
        /\ \A i \in 1 .. Len(Prepared) + Len(new) :
             (Prepared \o new)[i] =
               IF i <= Len(Prepared) THEN Prepared[i] ELSE new[i - Len(Prepared)]
    BY <1>1, <1>p, ConcatProperties
  <2> QED BY <1>1, <2>1, <2>2
<1>3. Received' = Received + n /\ Pos' = Pos /\ Count' = Count
  <2>1. Received' = abs0' + Len(buf') /\ Pos' = abs0' + off'
    BY DEF Received, Pos
  <2>2. abs0' + Len(Prepared) = Received /\ abs0' + off' = Pos /\ abs0' \in Nat
    BY <1>s DEF Slid
  <2>3. Count' = Count
    BY <1>0 DEF Count
  <2> QED BY <1>2, <1>p, <2>1, <2>2, <2>3
<1>4. off' \in Nat /\ abs0' \in Nat /\ moved' \in Nat /\ off' <= Len(Prepared)
      /\ moved' <= Received /\ (off' > 0 => moved' <= Pos)
  BY <1>s DEF Slid
<1>5. off' <= Len(buf') /\ Len(buf') <= Cap
  BY <1>2, <1>4, <1>p, <1>w, FrameConstants
<1>6. Positions'
  <2>1. kpos' = Received'
    BY <1>0, <1>3, <1>m DEF Measured
  <2>2. ASSUME NEW i \in 1 .. Len(buf')
        PROVE  buf'[i] = abs0' + i - 1
    <3>0. i \in 1 .. Len(Prepared) + n
      BY <1>2
    <3>1. CASE i <= Len(Prepared)
      <4>1. i \in 1 .. Len(Prepared) /\ buf'[i] = Prepared[i]
        BY <1>2, <1>p, <3>0, <3>1
      <4> QED BY <1>s, <4>1 DEF Slid
    <3>2. CASE ~(i <= Len(Prepared))
      <4>1. i - Len(Prepared) \in 1 .. n
        BY <1>p, <3>0, <3>2
      <4>2. buf'[i] = kpos + (i - Len(Prepared)) - 1
        BY <1>1, <1>2, <3>0, <3>2, <4>1
      <4>3. kpos = abs0' + Len(Prepared)
        BY <1>m, <1>s DEF Slid, Measured
      <4> QED BY <1>4, <1>p, <3>0, <4>2, <4>3
    <3> QED BY <3>1, <3>2
  <2> QED BY <2>1, <2>2 DEF Positions
<1>7. MovedBefore'
  BY <1>3, <1>4, <1>m DEF MovedBefore, Measured
<1> QED BY <1>0, <1>2, <1>3, <1>4, <1>5, <1>6, <1>7, <1>w

\* Only descriptors of the head message arrive while it is read, and only
\* with its first bytes: what was queued before is gone.
LEMMA RecvKeeps ==
  ASSUME FInv, NEW n \in 1 .. Cap, Recv(n)
  PROVE  FInv'
<1>0. /\ TypeOK /\ Positions /\ MovedBefore /\ Connected /\ FdsAccounted
      /\ DescriptorIsNamed /\ conn = "open" /\ status = "need_more" /\ status' = "none"
      /\ UNCHANGED <<conn, wire, skip, eof, given>>
      /\ n \in Nat /\ n > 0
  BY FrameConstants DEF FInv, Recv
<1>m. Measured
  BY <1>0, Numbers
<1>n. /\ n <= Want /\ kpos + n <= WireEnd
      /\ Received' = Received + n /\ Pos' = Pos /\ Count' = Count /\ wire' = wire
      /\ off' \in Nat /\ abs0' \in Nat /\ moved' \in Nat /\ kpos' = kpos + n
      /\ buf' \in Seq(Nat) /\ off' <= Len(buf') /\ Len(buf') <= Cap
      /\ Positions' /\ MovedBefore'
  BY <1>0, ReadBuffer
<1>k. PICK k \in 1 .. Count + 1 : HeadAt(k) /\ QueueOf(k)
  BY <1>0 DEF Connected
<1>w. /\ skip > 0 => Received + n <= wire.bound[k]
      /\ skip = 0 => k <= Count
      /\ k <= Count => Received + n <= wire.bound[k + 1]
  BY <1>0, <1>k, <1>n, WantStays
<1>b. WellFormed(wire) /\ Count \in Nat
  BY <1>0, StreamBounds DEF TypeOK
<1>h. HeadAt(k)'
  <2>1. /\ wire.bound[k] = Pos + skip
        /\ skip > 0 => /\ k > 1 /\ wire.ok[k - 1] /\ wire.bound[k - 1] <= Pos
                       /\ Cap < Length(k - 1) /\ Length(k - 1) < MsgMax
    BY <1>k DEF HeadAt
  <2>2. ~(Looking') /\ Length(k - 1)' = Length(k - 1)
    BY <1>0 DEF Looking, Length
  <2>3. k > Count => Received + n <= wire.bound[k]
    BY <1>b, <1>k, <1>m, <1>w DEF Measured
  <2> QED BY <1>0, <1>k, <1>n, <1>w, <2>1, <2>2, <2>3 DEF HeadAt
<1>1. ASSUME UNCHANGED queue
      PROVE  FInv'
  <2>1. TypeOK'
    <3>1. {kpos', off', abs0', skip', moved', fdtot'} \subseteq Nat
      BY <1>0, <1>1, <1>m, <1>n DEF queue, Measured
    <3> QED BY <1>0, <1>1, <1>n, <3>1 DEF TypeOK, queue
  <2>2. Unconnected' /\ DescriptorIsNamed' /\ FdsAccounted'
    BY <1>0, <1>1 DEF Unconnected, DescriptorIsNamed, FdsAccounted, queue
  <2>3. OpenSeen'
    <3>1. ASSUME NEW x \in open
          PROVE  x[1] \in 1 .. Count /\ wire.bound[x[1]] < Received + n
      <4>1. x[1] \in 1 .. Count /\ wire.bound[x[1]] < Received
        BY <1>0 DEF Connected, OpenSeen
      <4>2. x[1] \in 1 .. Count + 1
        BY <1>b, <4>1
      <4>3. wire.bound[x[1]] \in Nat
        BY <1>b, <4>2, StreamBounds
      <4> QED BY <1>0, <1>m, <4>1, <4>3 DEF Measured
    <3> QED BY <1>0, <1>1, <1>n, <3>1 DEF OpenSeen, queue
  <2>4. QueueOf(k)'
    <3>1. ~(Received' = Pos')
      BY <1>0, <1>m, <1>n DEF Measured
    <3> QED BY <1>0, <1>1, <1>k, <1>n, <3>1 DEF QueueOf, queue
  <2>5. Connected'
    BY <1>h, <1>k, <1>n, <2>3, <2>4 DEF Connected
  <2> QED BY <1>n, <2>1, <2>2, <2>5 DEF FInv
<1>2. ASSUME NEW j \in Carriers(n), NEW s \in Left(wire.fds[j]), NEW trunc \in BOOLEAN,
             skip = 0, PushFds([i \in 1 .. Len(s) |-> <<j, s[i]>>], trunc)
      PROVE  FInv'
  <2>1. /\ j \in 1 .. Count /\ j \in 1 .. Count + 1 /\ wire.bound[j] \in Nat
        /\ Received <= wire.bound[j] /\ wire.bound[j] < Received + n
        /\ k \in 1 .. Count /\ wire.bound[k] = Pos /\ Received + n <= wire.bound[k + 1]
    <3>1. j \in 1 .. Count /\ kpos <= wire.bound[j] /\ wire.bound[j] < kpos + n
      BY DEF Carriers
    <3>2. j \in 1 .. Count + 1
      BY <1>b, <3>1
    <3>3. wire.bound[j] \in Nat
      BY <1>b, <3>2, StreamBounds
    <3>4. k \in 1 .. Count
      BY <1>2, <1>b, <1>k, <1>w
    <3>5. wire.bound[k] = Pos
      <4>1. wire.bound[k] = Pos + skip
        BY <1>k DEF HeadAt
      <4> QED BY <1>2, <1>m, <4>1 DEF Measured
    <3>6. Received + n <= wire.bound[k + 1]
      BY <1>b, <1>w, <3>4
    <3> QED BY <1>m, <3>1, <3>2, <3>3, <3>4, <3>5, <3>6 DEF Measured
  <2>2. j = k
    <3>1. wire.bound[k] <= wire.bound[j] /\ wire.bound[j] < wire.bound[k + 1]
          /\ wire.bound[k] \in Nat /\ wire.bound[k + 1] \in Nat
      <4>1. k \in 1 .. Count + 1 /\ k + 1 \in 1 .. Count + 1
        BY <1>b, <2>1
      <4>2. wire.bound[k] \in Nat /\ wire.bound[k + 1] \in Nat
        BY <1>b, <4>1, StreamBounds
      <4>3. Received \in Nat /\ Pos \in Nat /\ Pos <= Received
        BY <1>m DEF Measured
      <4>4. /\ Received <= wire.bound[j] /\ wire.bound[j] < Received + n
            /\ wire.bound[k] = Pos /\ Received + n <= wire.bound[k + 1]
            /\ wire.bound[j] \in Nat
        BY <2>1
      <4> QED BY <1>0, <4>2, <4>3, <4>4
    <3>2. CASE j < k
      <4>1. k \in 1 .. Count + 1
        BY <1>b, <2>1
      <4>2. wire.bound[j] + Hdr <= wire.bound[k]
        BY <1>b, <2>1, <3>2, <4>1, StreamBounds
      <4> QED BY <2>1, <3>1, <4>2, FrameConstants
    <3>3. CASE k < j
      <4>1. k + 1 \in 1 .. Count + 1 /\ (k + 1 = j \/ k + 1 < j)
        BY <1>b, <2>1, <3>3
      <4>2. k + 1 < j => wire.bound[k + 1] + Hdr <= wire.bound[j]
        BY <1>b, <2>1, <4>1, StreamBounds
      <4> QED BY <2>1, <3>1, <4>1, <4>2, FrameConstants
    <3> QED BY <2>1, <3>2, <3>3
  <2>3. Received = Pos /\ Received = wire.bound[k]
    BY <1>m, <2>1, <2>2 DEF Measured
  <2>4. fdq = <<>> /\ fdtot = 0 /\ ~fdbad
    BY <1>k, <2>3 DEF QueueOf
  <2>5. /\ k \in Nat /\ wire.fds[k] \in Nat /\ s \in Left(wire.fds[k])
        /\ PushFds([i \in 1 .. Len(s) |-> <<k, s[i]>>], trunc)
    <3>1. wire.fds[k] \in Nat
      BY <1>b, <2>1, StreamBounds
    <3> QED BY <1>2, <2>1, <2>2, <3>1
  <2>6. [i \in 1 .. Len(s) |-> <<k, s[i]>>] \in Seq(Nat \X Nat)
    <3>1. PICK c \in 0 .. wire.fds[k] : s \in [1 .. c -> 1 .. wire.fds[k]]
      BY <2>5 DEF Left
    <3>2. Len(s) = c /\ c \in Nat
      BY <2>5, <3>1
    <3>3. \A i \in 1 .. c : <<k, s[i]>> \in Nat \X Nat
      BY <2>5, <3>1
    <3> QED BY <3>2, <3>3
  <2>7. Pushed([i \in 1 .. Len(s) |-> <<k, s[i]>>], trunc)
    BY <1>0, <1>2, <2>4, <2>5, <2>6, PushEmpty
  <2>8. \A x \in open : x[1] # k
    <3> SUFFICES ASSUME NEW x \in open, x[1] = k PROVE FALSE
      OBVIOUS
    <3>1. wire.bound[k] < Received
      BY <1>0 DEF Connected, OpenSeen
    <3>2. Received \in Nat
      BY <1>m DEF Measured
    <3> QED BY <2>3, <3>1, <3>2
  <2>9. /\ fdq' \in Seq(Nat \X Nat) /\ fdtot' \in Nat /\ fdbad' \in BOOLEAN
        /\ \A i \in DOMAIN fdq' : fdq'[i][1] = k
        /\ fdtot' = wire.fds[k] =>
             \A i \in DOMAIN fdq' : fdq'[i] = <<k, i>> /\ i <= wire.fds[k]
        /\ \A x \in open' : x \in open \/ x[1] = k
        /\ FdsAccounted'
    BY <1>0, <2>4, <2>5, <2>7, <2>8, PushedIs
  <2>10. TypeOK'
    <3>1. {kpos', off', abs0', skip', moved', fdtot'} \subseteq Nat
      <4>1. kpos \in Nat /\ skip \in Nat
        BY <1>m DEF Measured
      <4>2. kpos' \in Nat /\ skip' \in Nat
        BY <1>0, <1>n, <4>1
      <4>3. off' \in Nat /\ abs0' \in Nat /\ moved' \in Nat /\ fdtot' \in Nat
        BY <1>n, <2>9
      <4> QED BY <4>2, <4>3
    <3> QED BY <1>0, <1>n, <2>9, <3>1 DEF TypeOK
  <2>11. Unconnected' /\ DescriptorIsNamed'
    BY <1>0 DEF Unconnected, DescriptorIsNamed
  <2>12. OpenSeen'
    <3>1. ASSUME NEW x \in open'
          PROVE  x[1] \in 1 .. Count /\ wire.bound[x[1]] < Received + n
      <4>1. CASE x \in open
        <5>1. x[1] \in 1 .. Count /\ wire.bound[x[1]] < Received
          BY <1>0, <4>1 DEF Connected, OpenSeen
        <5>2. x[1] \in 1 .. Count + 1
          BY <1>b, <5>1
        <5>3. wire.bound[x[1]] \in Nat
          BY <1>b, <5>2, StreamBounds
        <5> QED BY <1>0, <1>m, <5>1, <5>3 DEF Measured
      <4>2. CASE x[1] = k
        BY <2>1, <2>2, <4>2
      <4> QED BY <2>9, <4>1, <4>2
    <3> QED BY <1>n, <3>1 DEF OpenSeen
  <2>13. QueueOf(k)'
    <3>1. ~(Received' = Pos') /\ ~(skip' > 0)
      BY <1>0, <1>2, <1>m, <1>n DEF Measured
    <3>2. k <= Count
      BY <2>1
    <3> QED BY <1>n, <2>9, <3>1, <3>2 DEF QueueOf
  <2>14. Connected'
    BY <1>h, <1>k, <1>n, <2>12, <2>13 DEF Connected
  <2> QED BY <1>n, <2>9, <2>10, <2>11, <2>14 DEF FInv
<1>3. \/ UNCHANGED queue
      \/ \E j \in Carriers(n) : \E s \in Left(wire.fds[j]), trunc \in BOOLEAN :
           PushFds([i \in 1 .. Len(s) |-> <<j, s[i]>>], trunc)
  BY DEF Recv
<1>4. CASE skip > 0
  <2>1. UNCHANGED queue
    BY <1>3, <1>4 DEF PushFds
  <2> QED BY <1>1, <2>1
<1>5. CASE ~(skip > 0)
  <2>1. skip = 0
    BY <1>5, <1>m DEF Measured
  <2> QED BY <1>1, <1>2, <1>3, <2>1
<1> QED BY <1>4, <1>5

\* A claim takes one descriptor out of the queue; when as many arrived as the
\* message carries, it is the one the reply names.
LEMMA ClaimKeeps ==
  ASSUME FInv, NEW i \in 0 .. FdqCap - 1, ClaimFd(i)
  PROVE  FInv'
<1>0. /\ TypeOK /\ Positions /\ MovedBefore /\ Connected /\ FdsAccounted
      /\ DescriptorIsNamed /\ Looking /\ conn = "open" /\ status = "message"
      /\ UNCHANGED <<conn, wire, kpos, cursor, eof, fdtot, fdbad>>
      /\ Trusted /\ i \in Nat /\ i < Len(fdq) /\ fdq' = Without(fdq, i)
      /\ status' = "claimed"
      /\ \/ /\ given' = given \cup {[fd |-> fdq[i + 1], named |-> <<HeadMessage, i + 1>>]}
            /\ UNCHANGED open
         \/ /\ open' = open \ {fdq[i + 1]}
            /\ UNCHANGED given
  <2>1. conn = "open" /\ Looking
    BY DEF FInv, ClaimFd, Unconnected, Looking
  <2> QED BY <2>1, FrameConstants DEF FInv, ClaimFd, Without
<1>u. UNCHANGED <<conn, wire, kpos, buf, off, abs0, skip, moved, eof, fdtot, fdbad>>
  BY <1>0 DEF cursor
<1>b. /\ Count' = Count /\ Received' = Received /\ Pos' = Pos /\ wire' = wire
  BY <1>u DEF Count, Received, Pos
<1>k. PICK k \in 1 .. Count + 1 : HeadAt(k) /\ QueueOf(k)
  BY <1>0 DEF Connected
<1>q. fdq \in Seq(Nat \X Nat) /\ IsInjective(fdq) /\ Len(fdq) \in Nat /\ Len(fdq) <= FdqCap
      /\ DOMAIN fdq = 1 .. Len(fdq)
  BY <1>0 DEF TypeOK, FdsAccounted
<1> DEFINE x == fdq[i + 1]
<1>t. /\ fdq' \in Seq(Nat \X Nat) /\ Len(fdq') = Len(fdq) - 1
      /\ Range(fdq') = Range(fdq) \ {x} /\ x \in Range(fdq) /\ IsInjective(fdq')
  <2> DEFINE p == fdq'
  <2>1. /\ fdq \in Seq(Nat \X Nat) /\ IsInjective(fdq) /\ i \in Nat /\ i < Len(fdq)
        /\ p = Without(fdq, i)
    BY <1>0, <1>q
  <2> HIDE DEF p
  <2>2. /\ p \in Seq(Nat \X Nat) /\ Len(p) = Len(fdq) - 1
        /\ Range(p) = Range(fdq) \ {fdq[i + 1]} /\ fdq[i + 1] \in Range(fdq)
        /\ IsInjective(p)
    BY <2>1, TakenOut
  <2> QED BY <2>2 DEF p
<1>n. x = <<HeadMessage, i + 1>> /\ HeadMessage = k
  <2>1. HeadMessage = k
    BY <1>0, <1>k, HeadMessageIs
  <2>2. i + 1 \in DOMAIN fdq
    BY <1>0, <1>q
  <2>3. fdq # <<>> /\ fdtot = wire.fds[k]
    <3>1. fdtot = wire.fds[k]
      BY <1>0, <2>1 DEF Trusted
    <3>2. fdq # <<>>
      BY <1>0, EmptySeq
    <3> QED BY <3>1, <3>2
  <2>4. fdq[i + 1] = <<k, i + 1>>
    BY <1>0, <1>k, <2>2, <2>3 DEF QueueOf
  <2> QED BY <2>1, <2>4
<1>1. TypeOK'
  BY <1>0, <1>t, <1>u DEF TypeOK
<1>2. Positions' /\ MovedBefore'
  BY <1>0, <1>b, <1>u DEF Positions, MovedBefore
<1>3. Unconnected'
  BY <1>0, <1>u DEF Unconnected
<1> DEFINE handed == {g.fd : g \in given}
           y == [fd |-> x, named |-> <<HeadMessage, i + 1>>]
<1>4. DescriptorIsNamed' /\ FdsAccounted' /\ open' \subseteq open
  <2>1. open = Range(fdq) \cup handed /\ Range(fdq) \cap handed = {}
    BY <1>0 DEF FdsAccounted
  <2>2. Len(fdq') <= FdqCap
    BY <1>q, <1>t, FrameConstants
  <2>3. CASE given' = given \cup {y} /\ open' = open
    <3>2. y.fd = x /\ y.named = x
      BY <1>n
    <3>1. {g.fd : g \in given'} = handed \cup {x}
      <4> HIDE DEF x, y
      <4> QED BY <2>3, <3>2
    <3>3. DescriptorIsNamed'
      <4> SUFFICES ASSUME NEW g \in given' PROVE g.fd = g.named
        BY DEF DescriptorIsNamed
      <4>1. CASE g \in given
        BY <1>0, <4>1 DEF DescriptorIsNamed
      <4>2. CASE g = y
        BY <3>2, <4>2
      <4> QED BY <2>3, <4>1, <4>2
    <3> HIDE DEF x, y, handed
    <3>4. open' = Range(fdq') \cup (handed \cup {x})
          /\ Range(fdq') \cap (handed \cup {x}) = {}
      BY <1>t, <2>1, <2>3
    <3> QED BY <1>t, <2>2, <2>3, <3>1, <3>3, <3>4 DEF FdsAccounted
  <2>4. CASE open' = open \ {x} /\ given' = given
    <3>1. DescriptorIsNamed'
      BY <1>0, <2>4 DEF DescriptorIsNamed
    <3>2. {g.fd : g \in given'} = handed
      BY <2>4
    <3> HIDE DEF x, handed
    <3>3. open' = Range(fdq') \cup handed /\ Range(fdq') \cap handed = {}
      BY <1>t, <2>1, <2>4
    <3> QED BY <1>t, <2>2, <2>4, <3>1, <3>2, <3>3 DEF FdsAccounted
  <2> QED BY <1>0, <2>3, <2>4
<1>5. OpenSeen'
  BY <1>0, <1>4, <1>b DEF Connected, OpenSeen
<1>6. HeadAt(k)'
  BY <1>0, <1>b, <1>k, <1>u DEF HeadAt, Length, Looking
<1>7. QueueOf(k)'
  <2>1. \A z \in Range(fdq) : k <= Count /\ z[1] = k
    BY <1>k DEF QueueOf, Range
  <2>2. \A j \in DOMAIN fdq' : fdq'[j] \in Range(fdq)
    <3>1. \A j \in DOMAIN fdq' : fdq'[j] \in Range(fdq')
      BY DEF Range
    <3> QED BY <1>t, <3>1
  <2>3. \A j \in DOMAIN fdq' : k <= Count /\ fdq'[j][1] = k
    BY <2>1, <2>2
  <2>4. ~(Received = Pos \/ skip > 0)
    <3>1. fdq # <<>>
      BY <1>0, EmptySeq
    <3> QED BY <1>k, <3>1 DEF QueueOf
  <2> QED BY <1>0, <1>b, <1>u, <2>3, <2>4 DEF QueueOf
<1>8. Connected'
  BY <1>5, <1>6, <1>7, <1>b, <1>k DEF Connected
<1> QED BY <1>1, <1>2, <1>3, <1>4, <1>8 DEF FInv

\* Closing leaves nothing open; the buffer is reset before the next connect.
LEMMA ConnectionKeeps ==
  ASSUME FInv, CloseBus \/ FrameInit \/ ConnectFailed
  PROVE  FInv'
<1>0. TypeOK /\ Positions /\ MovedBefore /\ Unconnected /\ FdsAccounted
  BY DEF FInv
<1>e. Range(<<>>) = {} /\ IsInjective(<<>>) /\ Len(<<>>) = 0
  BY DEF Range, IsInjective
<1>1. CASE CloseBus
  <2>1. /\ conn' = "closed" /\ ~Looking /\ fdq' = <<>> /\ fdtot' = 0 /\ fdbad' = FALSE
        /\ given' = {} /\ open' = {}
        /\ UNCHANGED <<wire, kpos, buf, off, abs0, skip, moved, eof, status>>
    <3>1. open = Range(fdq) \cup {g.fd : g \in given}
      BY <1>0 DEF FdsAccounted
    <3> QED BY <1>1, <3>1 DEF CloseBus, Closed, Looking, cursor
  <2>2. TypeOK'
    <3>1. fdbad' \in BOOLEAN
      BY <2>1, Zenon
    <3> QED BY <1>0, <2>1, <3>1, EmptySeq DEF TypeOK
  <2>3. Positions' /\ MovedBefore'
    BY <1>0, <2>1 DEF Positions, MovedBefore, Received, Pos
  <2>4. Unconnected' /\ Connected' /\ DescriptorIsNamed'
    BY <2>1 DEF Unconnected, Connected, DescriptorIsNamed, Looking
  <2>5. FdsAccounted'
    <3>1. {g.fd : g \in given'} = {}
      BY <2>1
    <3> QED BY <1>e, <2>1, <3>1, FrameConstants DEF FdsAccounted
  <2> QED BY <2>2, <2>3, <2>4, <2>5 DEF FInv
<1>2. CASE FrameInit
  <2>1. /\ conn = "closed" /\ conn' = "connecting" /\ buf' = <<>> /\ off' = 0 /\ skip' = 0
        /\ eof' = FALSE /\ moved' = 0 /\ abs0' = 0 /\ CloseFds
        /\ wire' = NoWire /\ kpos' = 0 /\ status' = "none" /\ UNCHANGED given
    BY <1>2 DEF FrameInit
  <2>2. open = {} /\ given = {} /\ fdq = <<>>
    BY <1>0, <2>1 DEF Unconnected
  <2>3. open' = {} /\ given' = {} /\ fdq' = <<>> /\ fdtot' = 0 /\ fdbad' = FALSE
    BY <2>1, <2>2 DEF CloseFds
  <2>4. TypeOK'
    <3>1. <<>> \in Seq(Nat) /\ <<>> \in Seq(Nat \X Nat)
      BY EmptySeq
    <3>2. WellFormed(wire')
      BY <2>1, NoWireFormed
    <3>3. {kpos', off', abs0', skip', moved', fdtot'} \subseteq Nat
      BY <2>1, <2>3
    <3>4. eof' \in BOOLEAN /\ fdbad' \in BOOLEAN
      BY <2>1, <2>3, Zenon
    <3>5. buf' \in Seq(Nat) /\ fdq' \in Seq(Nat \X Nat) /\ off' <= Len(buf') /\ Len(buf') <= Cap
      BY <1>e, <2>1, <2>3, <3>1, FrameConstants
    <3>6. /\ conn' \in {"closed", "connecting", "open"} /\ conn' # "open"
          /\ status' \in {"none", "need_more", "lost", "truncated", "eof", "message", "claimed"}
      BY <2>1
    <3> QED BY <3>2, <3>3, <3>4, <3>5, <3>6 DEF TypeOK
  <2>5. Positions' /\ MovedBefore'
    BY <1>e, <2>1 DEF Positions, MovedBefore, Received, Pos
  <2>6. Unconnected'
    <3>1. ~(fdbad')
      BY <2>3, Zenon
    <3> QED BY <2>1, <2>3, <3>1 DEF Unconnected, Looking
  <2>7. Connected' /\ DescriptorIsNamed'
    BY <2>1, <2>3 DEF Connected, DescriptorIsNamed
  <2>8. FdsAccounted'
    <3>1. {g.fd : g \in given'} = {}
      BY <2>3
    <3> QED BY <1>e, <2>3, <3>1, FrameConstants DEF FdsAccounted
  <2> QED BY <2>4, <2>5, <2>6, <2>7, <2>8 DEF FInv
<1>3. CASE ConnectFailed
  <2>1. /\ conn = "connecting" /\ conn' = "closed"
        /\ UNCHANGED <<wire, kpos, buf, off, abs0, skip, moved, eof, status, queue, given>>
    BY <1>3 DEF ConnectFailed, cursor
  <2>2. open = {} /\ given = {} /\ fdq = <<>> /\ ~Looking
    BY <1>0, <2>1 DEF Unconnected
  <2>3. TypeOK'
    BY <1>0, <2>1 DEF TypeOK, queue
  <2>4. Positions' /\ MovedBefore'
    BY <1>0, <2>1 DEF Positions, MovedBefore, Received, Pos
  <2>5. Unconnected' /\ Connected' /\ DescriptorIsNamed'
    BY <2>1, <2>2 DEF Unconnected, Connected, DescriptorIsNamed, Looking, queue
  <2>6. FdsAccounted'
    BY <1>0, <2>1 DEF FdsAccounted, queue
  <2> QED BY <2>3, <2>4, <2>5, <2>6 DEF FInv
<1> QED BY <1>1, <1>2, <1>3

\* The SASL lines are consumed: the head is the first message.
LEMMA SaslKeeps ==
  ASSUME FInv, NEW w \in Streams, SaslDone(w)
  PROVE  FInv'
<1>0. /\ TypeOK /\ Unconnected /\ FdsAccounted /\ DescriptorIsNamed
      /\ conn = "connecting" /\ conn' = "open" /\ wire' = w /\ kpos' = w.bound[1]
      /\ buf' = [i \in 1 .. w.bound[1] |-> i - 1] /\ off' = w.bound[1]
      /\ UNCHANGED <<abs0, skip, moved, eof, fdq, fdtot, fdbad, open, status, given>>
  BY DEF FInv, SaslDone, queue
<1>1. /\ abs0 = 0 /\ skip = 0 /\ moved = 0 /\ status = "none" /\ fdtot = 0 /\ ~fdbad
      /\ open = {} /\ given = {} /\ fdq = <<>>
  BY <1>0 DEF Unconnected
<1>w. WellFormed(w)
  BY FrameConstants
<1>2. /\ Count' \in Nat /\ w.bound[1] <= Cap /\ w.bound[1] \in Nat
      /\ Count' >= 1 => w.bound[2] \in Nat /\ w.bound[1] + Hdr <= w.bound[2]
  <2>1. /\ w.bound \in Seq(Nat) /\ w.fds \in Seq(Nat) /\ Len(w.bound) = Len(w.fds) + 1
        /\ w.bound[1] <= Cap /\ Len(w.fds) \in Nat
        /\ \A j, k \in 1 .. Len(w.bound) : j < k => w.bound[j] + Hdr <= w.bound[k]
    BY <1>w DEF WellFormed
  <2>2. Count' = Len(w.fds)
    BY <1>0 DEF Count
  <2>3. 1 \in 1 .. Len(w.bound) /\ (Len(w.fds) >= 1 => 2 \in 1 .. Len(w.bound))
    BY <2>1
  <2>4. w.bound[1] \in Nat /\ (Len(w.fds) >= 1 => w.bound[2] \in Nat)
    BY <2>1, <2>3, NthNat
  <2> QED BY <2>1, <2>2, <2>3, <2>4
<1>3. buf' \in Seq(Nat) /\ Len(buf') = w.bound[1] /\ \A i \in 1 .. w.bound[1] : buf'[i] = i - 1
  <2> DEFINE n == w.bound[1]
  <2>1. n \in Nat /\ buf' = [i \in 1 .. n |-> i - 1]
    BY <1>0, <1>2
  <2> HIDE DEF n
  <2>2. \A i \in 1 .. n : i - 1 \in Nat
    BY <2>1
  <2>3. buf' \in Seq(Nat) /\ Len(buf') = n /\ \A i \in 1 .. n : buf'[i] = i - 1
    BY <2>1, <2>2
  <2> QED BY <2>3 DEF n
<1>4. TypeOK'
  <2>1. {kpos', off', abs0', skip', moved', fdtot'} \subseteq Nat
    BY <1>0, <1>1, <1>2
  <2>2. off' <= Len(buf') /\ Len(buf') <= Cap
    BY <1>0, <1>2, <1>3
  <2> QED BY <1>0, <1>3, <1>w, <2>1, <2>2 DEF TypeOK
<1>5. Received' = w.bound[1] /\ Pos' = w.bound[1]
  BY <1>0, <1>1, <1>2, <1>3 DEF Received, Pos
<1>6. Positions' /\ MovedBefore'
  <2>1. \A i \in 1 .. Len(buf') : buf'[i] = abs0' + i - 1
    <3>1. abs0' = 0
      BY <1>0, <1>1
    <3>2. \A i \in 1 .. Len(buf') : i \in 1 .. w.bound[1] /\ i \in Nat
      BY <1>2, <1>3
    <3> QED BY <1>3, <3>1, <3>2
  <2> QED BY <1>0, <1>1, <1>2, <1>5, <2>1 DEF Positions, MovedBefore
<1>7. Unconnected' /\ DescriptorIsNamed' /\ FdsAccounted'
  BY <1>0 DEF Unconnected, DescriptorIsNamed, FdsAccounted
<1>8. HeadAt(1)'
  <2>0. 1 \in 1 .. Count' + 1
    <3> DEFINE c == Count'
    <3>1. c \in Nat
      BY <1>2
    <3> HIDE DEF c
    <3>2. 1 \in 1 .. c + 1
      BY <3>1
    <3> QED BY <3>2 DEF c
  <2>1. 1 \in 1 .. Count' + 1 /\ ~(skip' > 0) /\ ~(Looking')
    BY <1>0, <1>1, <2>0 DEF Looking
  <2>2. wire'.bound[1] = Pos' + skip' /\ Received' <= wire'.bound[1]
    BY <1>0, <1>1, <1>2, <1>5
  <2>3. 1 <= Count' => Received' <= wire'.bound[2]
    BY <1>0, <1>2, <1>5, FrameConstants
  <2> QED BY <2>1, <2>2, <2>3 DEF HeadAt
<1>9. QueueOf(1)' /\ OpenSeen'
  BY <1>0, <1>1 DEF QueueOf, OpenSeen
<1>10. Connected'
  <2>1. 1 \in 1 .. Count' + 1
    <3> DEFINE c == Count'
    <3>1. c \in Nat
      BY <1>2
    <3> HIDE DEF c
    <3>2. 1 \in 1 .. c + 1
      BY <3>1
    <3> QED BY <3>2 DEF c
  <2> QED BY <1>8, <1>9, <2>1 DEF Connected
<1> QED BY <1>4, <1>6, <1>7, <1>10 DEF FInv

\* Nothing changes when nothing happens.
LEMMA StutterKeeps ==
  ASSUME FInv, UNCHANGED vars
  PROVE  FInv'
<1>1. UNCHANGED <<conn, wire, kpos, buf, off, abs0, skip, moved, eof, fdq, fdtot, fdbad,
                  open, status, given>>
  BY DEF vars, cursor, queue
<1>2. TypeOK' /\ Positions' /\ MovedBefore'
  BY <1>1 DEF FInv, TypeOK, Positions, MovedBefore, Received, Pos
<1>3. Unconnected' /\ FdsAccounted' /\ DescriptorIsNamed'
  BY <1>1 DEF FInv, Unconnected, FdsAccounted, DescriptorIsNamed, Looking
<1>4. Connected'
  BY <1>1 DEF FInv, Connected, OpenSeen, HeadAt, QueueOf, Count, Received, Pos, Length, Looking
<1> QED BY <1>2, <1>3, <1>4 DEF FInv

\* Every step of the framer keeps it.
LEMMA StepFInv == FInv /\ [Next]_vars => FInv'
<1> SUFFICES ASSUME FInv, [Next]_vars PROVE FInv'
  OBVIOUS
<1>1. CASE FrameInit \/ ConnectFailed \/ CloseBus
  BY <1>1, ConnectionKeeps
<1>2. ASSUME NEW w \in Streams, SaslDone(w) PROVE FInv'
  BY <1>2, SaslKeeps
<1>3. CASE DbusFrameNext
  BY <1>3, NextKeeps
<1>4. CASE DbusFrameAdvance
  BY <1>4, AdvanceKeeps
<1>5. ASSUME NEW n \in 1 .. Cap, Recv(n) PROVE FInv'
  BY <1>5, RecvKeeps
<1>6. CASE RecvNothing \/ RecvEof
  BY <1>6, QuietKeeps
<1>7. ASSUME NEW i \in 0 .. FdqCap - 1, ClaimFd(i) PROVE FInv'
  BY <1>7, ClaimKeeps
<1>8. CASE UNCHANGED vars
  BY <1>8, StutterKeeps
<1> QED BY <1>1, <1>2, <1>3, <1>4, <1>5, <1>6, <1>7, <1>8 DEF Next, Bytes

\* The invariant, for every stream, piece size and buffer.
THEOREM Invariant == Spec => []FInv
BY InitFInv, StepFInv, PTL DEF Spec

-----------------------------------------------------------------------------
(* The safety properties *)

\* The reader is at the start of a message or skips to one.
LEMMA FInvInStep == FInv => InStep
<1> SUFFICES ASSUME FInv PROVE InStep
  OBVIOUS
<1>0. TypeOK /\ Positions /\ Connected
  BY DEF FInv
<1>1. kpos = Received /\ \A i \in DOMAIN buf : buf[i] = abs0 + i - 1
  <2>1. DOMAIN buf = 1 .. Len(buf)
    BY <1>0 DEF TypeOK
  <2> QED BY <1>0, <2>1 DEF Positions
<1>2. ASSUME conn = "open"
      PROVE  \E k \in 1 .. Count + 1 :
               /\ wire.bound[k] = Pos + skip
               /\ IF skip > 0 \/ k > Count THEN Received <= wire.bound[k]
                                           ELSE Received <= wire.bound[k + 1]
  <2>1. PICK k \in 1 .. Count + 1 : HeadAt(k)
    BY <1>0, <1>2 DEF Connected
  <2>2. Count \in Nat
    BY <1>0, StreamBounds DEF TypeOK
  <2>3. ~(k > Count) => k <= Count
    BY <2>2
  <2> QED BY <2>1, <2>3 DEF HeadAt
<1> QED BY <1>1, <1>2 DEF InStep

\* Queued descriptors are those of the message at the head.
LEMMA FInvFdsAreHeads == FInv => FdsAreHeads
<1> SUFFICES ASSUME FInv, conn = "open", fdq # <<>>
             PROVE  /\ skip = 0
                    /\ \A i \in DOMAIN fdq : /\ fdq[i][1] \in 1 .. Count
                                             /\ wire.bound[fdq[i][1]] = Pos
  BY DEF FdsAreHeads
<1>0. TypeOK /\ Positions /\ Connected
  BY DEF FInv
<1>m. Measured
  BY <1>0, Numbers
<1>1. PICK k \in 1 .. Count + 1 : HeadAt(k) /\ QueueOf(k)
  BY <1>0 DEF Connected
<1>2. skip = 0
  <2>1. ~(skip > 0)
    BY <1>1 DEF QueueOf
  <2> QED BY <1>m, <2>1 DEF Measured
<1>3. wire.bound[k] = Pos
  <2>1. wire.bound[k] = Pos + skip
    BY <1>1 DEF HeadAt
  <2> QED BY <1>2, <1>m, <2>1 DEF Measured
<1>4. Count \in Nat
  BY <1>0, StreamBounds DEF TypeOK
<1>5. \A i \in DOMAIN fdq : fdq[i][1] = k /\ k \in 1 .. Count
  BY <1>1, <1>4 DEF QueueOf
<1> QED BY <1>2, <1>3, <1>5

\* The framer stays in step with the stream: the head of the buffer is the
\* first byte of a message, a byte's position survives compaction, and
\* nothing is buffered beyond the head message (dbus_frame_next,
\* dbus_frame_compact and dbus_frame_want).
THEOREM StaysInStep == Spec => []InStep
BY Invariant, FInvInStep, PTL

\* Every queued descriptor arrived with the message at the head of the buffer
\* (dbus_frame_push_fd, dbus_frame_advance).
THEOREM QueueIsHeads == Spec => []FdsAreHeads
BY Invariant, FInvFdsAreHeads, PTL

\* Every descriptor received is queued once, closed, or handed out, and what
\* is handed out is not closed (dbus_frame_push_fd, dbus_frame_close_fds and
\* dbus_native_take_device).
THEOREM DescriptorsAccounted == Spec => []FdsAccounted
<1>1. FInv => FdsAccounted
  BY DEF FInv
<1> QED BY <1>1, Invariant, PTL

\* The descriptor a TakeDevice hands out is the one its reply names, whatever
\* the kernel or the queue lost (dbus_native_take_device).
THEOREM NamedIsGiven == Spec => []DescriptorIsNamed
<1>1. FInv => DescriptorIsNamed
  BY DEF FInv
<1> QED BY <1>1, Invariant, PTL

\* Compaction moves no more bytes than were received (dbus_frame_compact).
THEOREM MovesAreBounded == Spec => []MovedBounded
<1>1. FInv => MovedBounded
  BY DEF FInv, MovedBefore, MovedBounded
<1> QED BY <1>1, Invariant, PTL

-----------------------------------------------------------------------------
(* The framer implements MessageStream *)

\* The message that holds the framer's position is the one it is at.
AtIs ==
  \A j \in 1 .. Count + 1 :
    wire.bound[j] <= Pos /\ (j <= Count => Pos < wire.bound[j + 1]) => AtMessage = j

\* The message at the head is the one the position says.
LEMMA AtMessageIs == FInv => AtIs
<1> SUFFICES ASSUME FInv, NEW j \in 1 .. Count + 1,
                    wire.bound[j] <= Pos, j <= Count => Pos < wire.bound[j + 1]
             PROVE  AtMessage = j
  BY DEF AtIs
<1>0. WellFormed(wire) /\ TypeOK /\ Positions
  BY DEF FInv, TypeOK
<1>m. Measured
  BY <1>0, Numbers
<1>1. ASSUME NEW k \in 1 .. Count + 1, NEW l \in 1 .. Count + 1, k < l,
             k <= Count => Pos < wire.bound[k + 1]
      PROVE  ~(wire.bound[l] <= Pos)
  <2>1. Count \in Nat /\ k \in 1 .. Count /\ k + 1 \in 1 .. Count + 1 /\ (k + 1 = l \/ k + 1 < l)
    BY <1>0, <1>1, StreamBounds
  <2>2. k + 1 < l => wire.bound[k + 1] + Hdr <= wire.bound[l]
    BY <1>0, <2>1, StreamBounds
  <2>3. wire.bound[k + 1] \in Nat /\ wire.bound[l] \in Nat
    BY <1>0, <2>1, StreamBounds
  <2>4. wire.bound[k + 1] <= wire.bound[l]
    BY <2>1, <2>2, <2>3, FrameConstants
  <2>5. Pos \in Nat /\ Pos < wire.bound[k + 1]
    BY <1>1, <1>m, <2>1 DEF Measured
  <2> QED BY <2>3, <2>4, <2>5
<1>2. ASSUME NEW k \in 1 .. Count + 1,
             wire.bound[k] <= Pos, k <= Count => Pos < wire.bound[k + 1]
      PROVE  k = j
  <2>1. ~(j < k)
    BY <1>1, <1>2
  <2>2. ~(k < j)
    BY <1>1, <1>2
  <2>3. Count \in Nat
    BY <1>0, StreamBounds
  <2> QED BY <2>1, <2>2, <2>3
<1> QED BY <1>2 DEF AtMessage

\* The state of MessageStream this state stands for.
Up   == conn = "open"
On   == IF conn = "open" THEN wire ELSE NoWire
Nth  == IF conn = "open" THEN AtMessage ELSE 1
Out  == {g.fd : g \in given}

\* A step that is not seen from outside.
LEMMA Unseen ==
  ASSUME Up' <=> Up, On' = On, Nth' = Nth, Looking' <=> Looking, Out' = Out
  PROVE  UNCHANGED Stream!streamVars
BY DEF Stream!streamVars, Up, On, Nth, Looking, Out

\* At first the abstract stream is not connected either.
LEMMA InitRefines == Init => Stream!Init
BY DEF Init, Stream!Init, NoWire, Stream!NoStream

\* Making and closing a connection.
LEMMA ConnectionRefines ==
  ASSUME FInv, AtIs', FInv',
         FrameInit \/ ConnectFailed \/ CloseBus \/ \E w \in Streams : SaslDone(w)
  PROVE  [Stream!Next]_(Stream!streamVars)
<1>0. TypeOK /\ Unconnected /\ TypeOK'
  BY DEF FInv
<1>1. CASE FrameInit \/ ConnectFailed
  <2>1. /\ conn # "open" /\ conn' # "open" /\ ~Looking /\ UNCHANGED given
    BY <1>0, <1>1 DEF Unconnected, FrameInit, ConnectFailed
  <2>2. ~(Looking')
    BY <1>1, <2>1 DEF FrameInit, ConnectFailed, Looking
  <2>3. UNCHANGED Stream!streamVars
    BY <2>1, <2>2, Unseen DEF Up, On, Nth, Out
  <2> QED BY <2>3
<1>2. CASE CloseBus
  <2>1. /\ conn = "open" /\ conn' = "closed" /\ ~Looking /\ status' = status /\ given' = {}
    BY <1>2 DEF CloseBus, Looking
  <2>2. Stream!Disconnect
    BY <2>1 DEF Stream!Disconnect, Stream!NoStream, NoWire, Looking
  <2> QED BY <2>2 DEF Stream!Next
<1>3. ASSUME NEW w \in Streams, SaslDone(w)
      PROVE  [Stream!Next]_(Stream!streamVars)
  <2>1. /\ conn = "connecting" /\ conn' = "open" /\ wire' = w /\ UNCHANGED <<status, given>>
        /\ abs0' = abs0 /\ off' = w.bound[1] /\ abs0 = 0
    BY <1>0, <1>3 DEF SaslDone, Unconnected
  <2>2. AtMessage' = 1
    <3>1. WellFormed(wire') /\ Count' = Len(w.fds) /\ wire' = w
      BY <1>0, <2>1 DEF TypeOK, Count
    <3>2. /\ w.bound \in Seq(Nat) /\ w.fds \in Seq(Nat) /\ Len(w.bound) = Len(w.fds) + 1
          /\ \A j, k \in 1 .. Len(w.bound) : j < k => w.bound[j] + Hdr <= w.bound[k]
      BY <3>1 DEF WellFormed
    <3> DEFINE c == Len(w.fds)
    <3>3. c \in Nat /\ Len(w.bound) = c + 1 /\ Count' = c
      BY <3>1, <3>2
    <3> HIDE DEF c
    <3>4. 1 \in 1 .. c + 1 /\ 1 \in 1 .. Len(w.bound) /\ (1 <= c => 2 \in 1 .. Len(w.bound))
      BY <3>3
    <3>5. w.bound[1] \in Nat /\ (1 <= c => w.bound[2] \in Nat /\ w.bound[1] + Hdr <= w.bound[2])
      <4>1. w.bound[1] \in Nat /\ (1 <= c => w.bound[2] \in Nat)
        BY <3>2, <3>4, NthNat
      <4> QED BY <3>2, <3>4, <4>1
    <3>6. Pos' = w.bound[1]
      BY <2>1, <3>5 DEF Pos
    <3>7. w.bound[1] <= Pos' /\ (1 <= c => Pos' < w.bound[1 + 1])
      BY <3>5, <3>6, FrameConstants
    <3>8. \A j \in 1 .. c + 1 :
            w.bound[j] <= Pos' /\ (j <= c => Pos' < w.bound[j + 1]) => AtMessage' = j
      BY <3>1, <3>3 DEF AtIs
    <3> QED BY <3>4, <3>7, <3>8
  <2>3. Stream!Connect
    BY <2>1, <2>2 DEF Stream!Connect
  <2> QED BY <2>3 DEF Stream!Next
<1> QED BY <1>1, <1>2, <1>3

\* A receive is not seen: the position of the head does not change.
LEMMA ReadRefines ==
  ASSUME FInv, RecvNothing \/ RecvEof \/ \E n \in 1 .. Cap : Recv(n)
  PROVE  UNCHANGED Stream!streamVars
<1>0. TypeOK /\ Positions /\ MovedBefore
  BY DEF FInv
<1>1. /\ UNCHANGED <<conn, wire, given>> /\ ~Looking /\ status' = "none" /\ Compact
  BY DEF RecvNothing, RecvEof, Recv, Looking
<1>2. Slid
  BY <1>0, <1>1, CompactKeeps
<1>3. Pos' = Pos /\ Count' = Count
  BY <1>1, <1>2 DEF Slid, Pos, Count
<1>4. AtMessage' = AtMessage
  BY <1>1, <1>3 DEF AtMessage
<1>5. ~(Looking')
  BY <1>1 DEF Looking
<1> QED BY <1>1, <1>4, <1>5, Unseen DEF Up, On, Nth, Out

\* Where the framer is, as a message.
LEMMA NthIs ==
  ASSUME FInv, AtIs, NEW k \in 1 .. Count + 1, HeadAt(k)
  PROVE  /\ skip = 0 => AtMessage = k
         /\ skip > 0 => AtMessage = k - 1 /\ k - 1 \in 1 .. Count + 1
                        /\ wire.bound[k - 1] <= Pos
                        /\ k - 1 <= Count /\ wire.ok[k - 1] /\ (k - 1) + 1 = k
                        /\ Cap < Length(k - 1) /\ Length(k - 1) < MsgMax
<1>0. WellFormed(wire) /\ TypeOK /\ Positions
  BY DEF FInv, TypeOK
<1>m. Measured
  BY <1>0, Numbers
<1>b. /\ Count \in Nat
      /\ \A j \in 1 .. Count : wire.bound[j] \in Nat /\ wire.bound[j] < wire.bound[j + 1]
  <2>1. Count \in Nat
    BY <1>0, StreamBounds
  <2>2. ASSUME NEW j \in 1 .. Count
        PROVE  wire.bound[j] \in Nat /\ wire.bound[j] < wire.bound[j + 1]
    <3>1. j \in 1 .. Count + 1 /\ j + 1 \in 1 .. Count + 1 /\ j < j + 1
      BY <2>1
    <3>2. /\ wire.bound[j] \in Nat /\ wire.bound[j + 1] \in Nat
          /\ wire.bound[j] + Hdr <= wire.bound[j + 1]
      BY <1>0, <3>1, StreamBounds
    <3> QED BY <3>2, FrameConstants
  <2> QED BY <2>1, <2>2
<1>h. wire.bound[k] = Pos + skip
  BY DEF HeadAt
<1>1. CASE skip = 0
  <2>1. wire.bound[k] = Pos /\ Pos \in Nat /\ (k <= Count => k \in 1 .. Count)
    BY <1>1, <1>b, <1>h, <1>m DEF Measured
  <2>2. wire.bound[k] <= Pos /\ (k <= Count => Pos < wire.bound[k + 1])
    BY <1>b, <2>1
  <2> QED BY <1>1, <2>2 DEF AtIs
<1>2. CASE skip > 0
  <2>1. k > 1 /\ wire.ok[k - 1] /\ wire.bound[k - 1] <= Pos
        /\ Cap < Length(k - 1) /\ Length(k - 1) < MsgMax
    BY <1>2 DEF HeadAt
  <2>2. k - 1 \in 1 .. Count + 1 /\ (k - 1) + 1 = k /\ k - 1 <= Count
    BY <1>b, <2>1
  <2>3. Pos < wire.bound[k]
    BY <1>2, <1>h, <1>m DEF Measured
  <2>4. AtMessage = k - 1
    BY <2>1, <2>2, <2>3 DEF AtIs
  <2>5. skip # 0
    BY <1>2
  <2> QED BY <2>1, <2>2, <2>4, <2>5
<1> QED BY <1>1, <1>2, <1>m DEF Measured

\* A message is consumed whole.
LEMMA AdvanceRefines ==
  ASSUME FInv, AtIs, AtIs', FInv', DbusFrameAdvance
  PROVE  Stream!Consume
<1>0. /\ TypeOK /\ Positions /\ Connected /\ Looking /\ conn = "open"
      /\ UNCHANGED <<conn, wire, buf, abs0, given>>
      /\ off' = Smaller(off + Total(buf[off + 1]), Len(buf)) /\ status' = "none"
  BY DEF FInv, DbusFrameAdvance, Looking, Unconnected
<1>m. Measured
  BY <1>0, Numbers
<1>k. PICK k \in 1 .. Count + 1 : HeadAt(k)
  BY <1>0 DEF Connected
<1>b. WellFormed(wire) /\ Count \in Nat /\ Count' = Count /\ wire' = wire
  BY <1>0, StreamBounds DEF TypeOK, Count
<1>1. /\ k <= Count /\ wire.ok[k] /\ skip = 0 /\ Received = wire.bound[k + 1]
  BY <1>0, <1>k DEF HeadAt
<1>2. k \in 1 .. Count
  BY <1>1, <1>b
<1>3. buf[off + 1] = wire.bound[k] /\ AtMessage = k
  BY <1>0, <1>1, <1>k, HeadMessageIs, NthIs
<1>4. Pos' = wire.bound[k + 1]
  <2>1. Total(buf[off + 1]) = Length(k)
    BY <1>1, <1>2, <1>3, <1>b, TotalAt
  <2>2. wire.bound[k + 1] = wire.bound[k] + Length(k) /\ Length(k) \in Nat
    BY <1>2, <1>b, StreamBounds
  <2>3. wire.bound[k] = Pos
    <3>1. wire.bound[k] = Pos + skip /\ skip = 0
      BY <1>1, <1>k DEF HeadAt
    <3> QED BY <1>m, <3>1 DEF Measured
  <2>4. off + Length(k) = Len(buf)
    <3>1. Received = Pos + Length(k)
      BY <1>1, <2>2, <2>3
    <3> QED BY <1>m, <2>2, <3>1 DEF Measured
  <2>5. off' = Len(buf)
    BY <1>0, <2>1, <2>4 DEF Smaller
  <2>6. Pos' = Received
    BY <1>0, <1>m, <2>5 DEF Pos, Measured
  <2> QED BY <1>1, <2>6
<1>5. AtMessage' = k + 1
  <2>1. k + 1 \in 1 .. Count + 1
    BY <1>2, <1>b
  <2>2. wire.bound[k + 1] <= Pos'
    <3>1. wire.bound[k + 1] \in Nat
      BY <1>b, <2>1, StreamBounds
    <3> QED BY <1>4, <3>1
  <2>3. k + 1 <= Count => Pos' < wire.bound[(k + 1) + 1]
    <3> SUFFICES ASSUME k + 1 <= Count PROVE Pos' < wire.bound[(k + 1) + 1]
      OBVIOUS
    <3>1. (k + 1) + 1 \in 1 .. Count + 1 /\ k + 1 < (k + 1) + 1
      BY <1>2, <1>b
    <3>2. /\ wire.bound[k + 1] + Hdr <= wire.bound[(k + 1) + 1]
          /\ wire.bound[k + 1] \in Nat /\ wire.bound[(k + 1) + 1] \in Nat
      BY <1>b, <2>1, <3>1, StreamBounds
    <3> QED BY <1>4, <3>2, FrameConstants
  <2>4. \A j \in 1 .. Count + 1 :
          wire.bound[j] <= Pos' /\ (j <= Count => Pos' < wire.bound[j + 1]) => AtMessage' = j
    BY <1>b DEF AtIs
  <2> QED BY <2>1, <2>2, <2>3, <2>4
<1>6. ~(Looking')
  BY <1>0 DEF Looking
<1>7. Nth' = Nth + 1 /\ On' = On /\ Out' = Out
  BY <1>0, <1>3, <1>5 DEF Nth, On, Out
<1>8. conn' = "open" /\ conn = "open"
  BY <1>0
<1> QED BY <1>0, <1>6, <1>7, <1>8 DEF Stream!Consume, Looking, Nth, On, Out

\* The framer yields a message that fits, or gets past one that does not;
\* otherwise it stays within the message it is at.
LEMMA NextRefines ==
  ASSUME FInv, AtIs, AtIs', FInv', DbusFrameNext
  PROVE  [Stream!Next]_(Stream!streamVars)
<1>0. /\ TypeOK /\ Positions /\ Connected /\ ~Looking /\ conn = "open"
      /\ UNCHANGED <<conn, wire, buf, abs0, given>>
      /\ status' = NextResult.st /\ off' = NextResult.off /\ skip' = NextResult.skip
  BY DEF FInv, DbusFrameNext, Looking
<1>m. Measured
  BY <1>0, Numbers
<1>k. PICK k \in 1 .. Count + 1 : HeadAt(k)
  BY <1>0 DEF Connected
<1>r. NextIs(k, NextResult)
  BY <1>0, <1>k, NextCases
<1>b. /\ WellFormed(wire) /\ Count \in Nat /\ Count' = Count /\ wire' = wire
      /\ Pos' = abs0 + off'
      /\ \A j \in 1 .. Count + 1 :
           wire.bound[j] <= Pos' /\ (j <= Count => Pos' < wire.bound[j + 1]) => AtMessage' = j
  <2>1. WellFormed(wire) /\ Count \in Nat /\ Count' = Count /\ wire' = wire
    BY <1>0, StreamBounds DEF TypeOK, Count
  <2> QED BY <1>0, <2>1 DEF AtIs, Pos
<1>n. /\ skip = 0 => AtMessage = k
      /\ skip > 0 => AtMessage = k - 1 /\ k - 1 \in 1 .. Count + 1
                     /\ wire.bound[k - 1] <= Pos
                     /\ k - 1 <= Count /\ wire.ok[k - 1] /\ (k - 1) + 1 = k
                     /\ Cap < Length(k - 1) /\ Length(k - 1) < MsgMax
  BY <1>k, NthIs
<1>h. wire.bound[k] = Pos + skip
  BY <1>k DEF HeadAt
<1>w. \A j \in 1 .. Count + 1 : wire.bound[j] \in Nat
  BY <1>b, StreamBounds
<1>s. ASSUME AtMessage' = AtMessage, ~(Looking')
      PROVE  UNCHANGED Stream!streamVars
  BY <1>0, <1>s, Unseen DEF Up, On, Nth, Out
<1>1. CASE skip > Avail
  <2>1. skip > 0 /\ off' = Len(buf) /\ status' \in {"truncated", "need_more"}
    BY <1>0, <1>1, <1>m, <1>r DEF NextIs, Measured
  <2>2. k - 1 \in 1 .. Count + 1 /\ wire.bound[k - 1] <= Pos /\ (k - 1) + 1 = k
        /\ AtMessage = k - 1
    BY <1>n, <2>1
  <2>3. Pos' = Received /\ Received < wire.bound[k] /\ Pos <= Received
    BY <1>1, <1>b, <1>h, <1>m, <2>1 DEF Measured
  <2>4. wire.bound[k - 1] <= Pos'
    BY <1>m, <1>w, <2>2, <2>3 DEF Measured
  <2>5. AtMessage' = k - 1
    BY <1>b, <2>2, <2>3, <2>4
  <2>6. ~(Looking')
    BY <2>1 DEF Looking
  <2> QED BY <1>s, <2>2, <2>5, <2>6
<1>2. CASE skip > 0 /\ ~(skip > Avail)
  <2>1. /\ off' = Len(buf) /\ skip = Avail /\ status' \in {"eof", "need_more"}
    BY <1>0, <1>2, <1>m, <1>r DEF NextIs, Measured
  <2>2. Pos' = wire.bound[k]
    BY <1>b, <1>h, <1>m, <2>1 DEF Measured
  <2>3. AtMessage' = k
    <3>1. wire.bound[k] \in Nat
      BY <1>w
    <3>2. k <= Count => Pos' < wire.bound[k + 1]
      <4> SUFFICES ASSUME k <= Count PROVE Pos' < wire.bound[k + 1]
        OBVIOUS
      <4>1. k + 1 \in 1 .. Count + 1 /\ k < k + 1
        BY <1>b
      <4>2. wire.bound[k] + Hdr <= wire.bound[k + 1] /\ wire.bound[k + 1] \in Nat
        BY <1>b, <4>1, StreamBounds
      <4> QED BY <2>2, <3>1, <4>2, FrameConstants
    <3>3. wire.bound[k] <= Pos'
      BY <2>2, <3>1
    <3> QED BY <1>b, <3>2, <3>3
  <2>4. /\ AtMessage = k - 1 /\ k - 1 <= Count /\ wire.ok[k - 1] /\ (k - 1) + 1 = k
        /\ Cap < Length(k - 1) /\ Length(k - 1) < MsgMax
    BY <1>2, <1>n
  <2>5. Stream!Over(AtMessage)
    <3>1. On = wire
      BY <1>0 DEF On
    <3> QED BY <1>0, <2>4, <3>1 DEF Stream!Over, Stream!Size, Length, Count, On
  <2>6. Stream!Discard
    <3>1. Nth = AtMessage /\ Nth' = AtMessage + 1 /\ On' = On /\ Out' = Out /\ ~(Looking')
      BY <1>0, <2>1, <2>3, <2>4 DEF Nth, On, Out, Looking
    <3>2. conn' = "open" /\ conn = "open" /\ ~Looking
      BY <1>0
    <3> QED BY <2>5, <3>1, <3>2 DEF Stream!Discard, Nth, On, Out, Looking
  <2> QED BY <2>6 DEF Stream!Next
<1>3. CASE skip = 0
  <2>0. AtMessage = k /\ wire.bound[k] = Pos
    BY <1>3, <1>h, <1>m, <1>n DEF Measured
  <2>1. CASE off' = off /\ status' # "message"
    <3>1. Pos' = Pos
      BY <1>b, <1>m, <2>1 DEF Measured
    <3>2. AtMessage' = AtMessage
      BY <1>b, <3>1 DEF AtMessage
    <3>3. ~(Looking')
      BY <1>0, <1>3, <1>m, <1>r, <2>1 DEF NextIs, Measured, Looking
    <3> QED BY <1>s, <3>2, <3>3
  <2>2. CASE status' = "message"
    <3>1. k <= Count /\ wire.ok[k] /\ Length(k) <= Cap /\ off' = off
      BY <1>0, <1>3, <1>m, <1>r, <2>2 DEF NextIs, Measured
    <3>2. Pos' = Pos
      BY <1>b, <1>m, <3>1 DEF Measured
    <3>3. AtMessage' = AtMessage
      BY <1>b, <3>2 DEF AtMessage
    <3>4. On = wire
      BY <1>0 DEF On
    <3>5. Stream!Fits(k)
      BY <3>1, <3>4 DEF Stream!Fits, Stream!Size, Length, Count, On
    <3>6. Nth = k /\ Nth' = Nth /\ On' = On /\ Out' = Out /\ Looking'
      BY <1>0, <2>0, <2>2, <3>3 DEF Nth, On, Out, Looking
    <3>7. conn' = "open" /\ conn = "open" /\ ~Looking
      BY <1>0
    <3>8. Stream!Yield
      BY <3>5, <3>6, <3>7 DEF Stream!Yield, Nth, On, Out, Looking
    <3> QED BY <3>8 DEF Stream!Next
  <2>3. CASE off' # off
    <3>1. /\ k <= Count /\ Cap < Length(k) /\ off' = Len(buf)
          /\ status' \in {"truncated", "need_more"}
      BY <1>0, <1>3, <1>m, <1>r, <2>3 DEF NextIs, Measured
    <3>2. k \in 1 .. Count
      BY <1>b, <3>1
    <3>3. wire.bound[k + 1] = wire.bound[k] + Length(k) /\ Length(k) \in Nat
      BY <1>b, <3>2, StreamBounds
    <3>4. wire.bound[k] <= Pos' /\ Pos' < wire.bound[k + 1]
      <4>1. Avail < Length(k)
        BY <1>m, <3>1, <3>3, FrameConstants DEF Measured
      <4>2. Pos' = Pos + Avail
        BY <1>b, <1>m, <3>1 DEF Measured
      <4> QED BY <1>m, <2>0, <3>3, <4>1, <4>2 DEF Measured
    <3>5. AtMessage' = AtMessage
      BY <1>b, <2>0, <3>4
    <3>6. ~(Looking')
      BY <3>1 DEF Looking
    <3> QED BY <1>s, <3>5, <3>6
  <2> QED BY <2>1, <2>2, <2>3
<1> QED BY <1>1, <1>2, <1>3, <1>m DEF Measured

\* A descriptor that is handed out is one the message carried.
LEMMA ClaimRefines ==
  ASSUME FInv, AtIs, NEW i \in 0 .. FdqCap - 1, ClaimFd(i)
  PROVE  [Stream!Next]_(Stream!streamVars)
<1>0. /\ TypeOK /\ Positions /\ Connected /\ Looking /\ conn = "open"
      /\ UNCHANGED <<conn, wire, off, abs0>> /\ Looking' /\ Trusted
      /\ i \in Nat /\ i < Len(fdq) /\ status = "message"
      /\ \/ given' = given \cup {[fd |-> fdq[i + 1], named |-> <<HeadMessage, i + 1>>]}
         \/ UNCHANGED given
  <2>1. conn = "open" /\ Looking
    BY DEF FInv, ClaimFd, Unconnected, Looking
  <2> QED BY <2>1, FrameConstants DEF FInv, ClaimFd, cursor, Looking
<1>k. PICK k \in 1 .. Count + 1 : HeadAt(k) /\ QueueOf(k)
  BY <1>0 DEF Connected
<1>1. AtMessage' = AtMessage
  BY <1>0 DEF AtMessage, Pos, Count
<1>2. CASE UNCHANGED given
  <2>1. UNCHANGED Stream!streamVars
    BY <1>0, <1>1, <1>2, Unseen DEF Up, On, Nth, Out
  <2> QED BY <2>1
<1>3. CASE given' = given \cup {[fd |-> fdq[i + 1], named |-> <<HeadMessage, i + 1>>]}
  <2>1. HeadMessage = k /\ AtMessage = k
    <3>1. skip = 0
      BY <1>0, <1>k DEF HeadAt
    <3> QED BY <1>0, <1>k, <3>1, HeadMessageIs, NthIs
  <2>2. fdq[i + 1] = <<k, i + 1>> /\ i + 1 <= wire.fds[k]
    <3>1. fdtot = wire.fds[k] /\ fdq # <<>>
      BY <1>0, <2>1, EmptySeq DEF Trusted
    <3>2. i + 1 \in DOMAIN fdq
      BY <1>0 DEF TypeOK
    <3> QED BY <1>0, <1>k, <3>1, <3>2 DEF QueueOf
  <2>3. wire.fds[k] \in Nat
    <3>1. k \in 1 .. Count
      BY <1>0, <1>k, StreamBounds DEF HeadAt, TypeOK
    <3> QED BY <1>0, <3>1, StreamBounds DEF TypeOK
  <2>4. i + 1 \in 1 .. wire.fds[k]
    BY <1>0, <2>2, <2>3
  <2>5. Out' = Out \cup {<<k, i + 1>>}
    <3> DEFINE y == [fd |-> fdq[i + 1], named |-> <<HeadMessage, i + 1>>]
    <3>1. y.fd = <<k, i + 1>>
      BY <2>2
    <3>2. given' = given \cup {y}
      BY <1>3
    <3> HIDE DEF y
    <3> QED BY <3>1, <3>2 DEF Out
  <2>6. Nth = k /\ Nth' = Nth /\ On' = On /\ On = wire
    BY <1>0, <1>1, <2>1 DEF Nth, On
  <2>7. conn' = "open" /\ conn = "open"
    BY <1>0
  <2>8. \E n \in 1 .. On.fds[Nth] : Out' = Out \cup {<<Nth, n>>}
    BY <2>4, <2>5, <2>6
  <2>9. Stream!HandOut
    BY <1>0, <2>6, <2>7, <2>8 DEF Stream!HandOut, Nth, On, Out, Looking
  <2> QED BY <2>9 DEF Stream!Next
<1> QED BY <1>0, <1>2, <1>3

\* Every step of the framer is one of the stream, or none.
LEMMA StepRefines ==
  FInv /\ AtIs /\ [Next]_vars /\ FInv' /\ AtIs' => [Stream!Next]_(Stream!streamVars)
<1> SUFFICES ASSUME FInv, AtIs, [Next]_vars, FInv', AtIs'
             PROVE  [Stream!Next]_(Stream!streamVars)
  OBVIOUS
<1>1. CASE FrameInit \/ ConnectFailed \/ CloseBus \/ \E w \in Streams : SaslDone(w)
  BY <1>1, ConnectionRefines
<1>2. CASE DbusFrameNext
  BY <1>2, NextRefines
<1>3. CASE DbusFrameAdvance
  <2>1. Stream!Consume
    BY <1>3, AdvanceRefines
  <2> QED BY <2>1 DEF Stream!Next
<1>4. CASE RecvNothing \/ RecvEof \/ \E n \in 1 .. Cap : Recv(n)
  BY <1>4, ReadRefines
<1>5. ASSUME NEW i \in 0 .. FdqCap - 1, ClaimFd(i)
      PROVE  [Stream!Next]_(Stream!streamVars)
  BY <1>5, ClaimRefines
<1>6. CASE UNCHANGED vars
  <2>1. UNCHANGED <<conn, wire, abs0, off, status, given>>
    BY <1>6 DEF vars, cursor
  <2>2. AtMessage' = AtMessage
    BY <2>1 DEF AtMessage, Pos, Count
  <2> QED BY <2>1, <2>2, Unseen DEF Up, On, Nth, Out, Looking
<1> QED BY <1>1, <1>2, <1>3, <1>4, <1>5, <1>6 DEF Next, Bytes

\* The framer delivers every message that fits, whole, once and in order, and
\* hands out only descriptors of the message at hand: buffering, partial
\* reads, compaction and draining cannot be seen from outside
\* (dbus_frame.cyr).
THEOREM FramerImplementsStream == Spec => ImplementsStream
<1>1. Spec => [](FInv /\ AtIs)
  BY Invariant, AtMessageIs, PTL
<1>2. [](FInv /\ AtIs) /\ Spec => Stream!Spec
  BY InitRefines, StepRefines, PTL DEF Spec, Stream!Spec
<1> QED BY <1>1, <1>2, PTL DEF ImplementsStream

====

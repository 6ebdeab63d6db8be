---------------------------- MODULE DbusTapProofs ----------------------------
(***************************************************************************)
(* Theorems about DbusTap, for every number of connections, every plan of  *)
(* who writes how much, every size of the kernel's queues and of recvmsg's *)
(* buffer: the relay is transparent, the capture is ahead of what is sent, *)
(* no descriptor stays open in the relay, and none is lost without a word. *)
(*                                                                         *)
(* The bytes of a connection are followed in each direction on their own.  *)
(* With fc for what the capture has, the invariant says that what is       *)
(* recorded, what is received and what waits make what was written, and    *)
(* that what arrived and what is still to be sent make fc (Flows, below).  *)
(* A descriptor is then found by the byte it came with (Follows).          *)
(***************************************************************************)
EXTENDS DbusTap, SeqFacts

-----------------------------------------------------------------------------
(* What the kernel has queued *)

Fd  == Nat \X Nat
Skb == [bytes : Seq(Nat), fds : Seq(Fd)]

\* The descriptors of one write are known by its first byte and a number.
LEMMA FdList ==
  ASSUME NEW m \in Nat, NEW k \in Nat
  PROVE  [i \in 1 .. k |-> <<m + 1, i>>] \in Seq(Fd)
<1>1. \A i \in 1 .. k : <<m + 1, i>> \in Fd
  BY DEF Fd
<1> HIDE DEF Fd
<1> QED BY <1>1

\* The bytes and the descriptors of the writes of a queue are lists.
LEMMA Chunks ==
  ASSUME NEW q \in Seq(Skb)
  PROVE  /\ [i \in DOMAIN q |-> q[i].bytes] \in Seq(Seq(Nat))
         /\ [i \in DOMAIN q |-> q[i].fds] \in Seq(Seq(Fd))
         /\ Len([i \in DOMAIN q |-> q[i].bytes]) = Len(q)
         /\ Len([i \in DOMAIN q |-> q[i].fds]) = Len(q)
<1>1. DOMAIN q = 1 .. Len(q) /\ Len(q) \in Nat /\ \A i \in 1 .. Len(q) : q[i] \in Skb
  OBVIOUS
<1>2. \A i \in 1 .. Len(q) : q[i].bytes \in Seq(Nat) /\ q[i].fds \in Seq(Fd)
  BY <1>1 DEF Skb
<1> QED BY <1>1, <1>2

\* So are those of the whole queue; an empty one has none, and one write its own.
LEMMA QueueType ==
  ASSUME NEW q \in Seq(Skb)
  PROVE  /\ Bytes(q) \in Seq(Nat) /\ Fds(q) \in Seq(Fd)
         /\ q = <<>> => Bytes(q) = <<>> /\ Fds(q) = <<>>
         /\ Len(q) = 1 => Bytes(q) = q[1].bytes /\ Fds(q) = q[1].fds
<1> DEFINE b == [i \in DOMAIN q |-> q[i].bytes]
           d == [i \in DOMAIN q |-> q[i].fds]
<1>1. b \in Seq(Seq(Nat)) /\ d \in Seq(Seq(Fd)) /\ Len(b) = Len(q) /\ Len(d) = Len(q)
  BY Chunks
<1>2. Bytes(q) = FlattenSeq(b) /\ Fds(q) = FlattenSeq(d)
  BY DEF Bytes, Fds
<1>3. q = <<>> => b = <<>> /\ d = <<>>
  OBVIOUS
<1>4. Len(q) = 1 => b[1] = q[1].bytes /\ d[1] = q[1].fds
  OBVIOUS
<1> HIDE DEF b, d
<1>5. /\ FlattenSeq(b) \in Seq(Nat)
      /\ b = <<>> => FlattenSeq(b) = <<>>
      /\ Len(b) = 1 => FlattenSeq(b) = b[1]
  BY <1>1, FlattenType
<1>6. /\ FlattenSeq(d) \in Seq(Fd)
      /\ d = <<>> => FlattenSeq(d) = <<>>
      /\ Len(d) = 1 => FlattenSeq(d) = d[1]
  BY <1>1, FlattenType
<1> QED BY <1>1, <1>2, <1>3, <1>4, <1>5, <1>6

\* Two queues, one after the other.
LEMMA QueueConcat ==
  ASSUME NEW q \in Seq(Skb), NEW r \in Seq(Skb)
  PROVE  /\ q \o r \in Seq(Skb)
         /\ Bytes(q \o r) = Bytes(q) \o Bytes(r)
         /\ Fds(q \o r) = Fds(q) \o Fds(r)
<1> DEFINE b(s) == [i \in DOMAIN s |-> s[i].bytes]
           d(s) == [i \in DOMAIN s |-> s[i].fds]
           s == q \o r
<1>0. /\ s \in Seq(Skb) /\ Len(s) = Len(q) + Len(r)
      /\ \A i \in 1 .. Len(q) + Len(r) : s[i] = IF i <= Len(q) THEN q[i] ELSE r[i - Len(q)]
  BY ConcatProperties
<1>1. Len(q) \in Nat /\ DOMAIN q = 1 .. Len(q) /\ Len(r) \in Nat /\ DOMAIN r = 1 .. Len(r)
  OBVIOUS
<1> HIDE DEF s
<1>2. DOMAIN s = 1 .. Len(q) + Len(r)
  BY <1>0
<1>3. /\ b(q) \in Seq(Seq(Nat)) /\ b(r) \in Seq(Seq(Nat)) /\ b(s) \in Seq(Seq(Nat))
      /\ Len(b(q)) = Len(q) /\ Len(b(r)) = Len(r) /\ Len(b(s)) = Len(s)
      /\ d(q) \in Seq(Seq(Fd)) /\ d(r) \in Seq(Seq(Fd)) /\ d(s) \in Seq(Seq(Fd))
      /\ Len(d(q)) = Len(q) /\ Len(d(r)) = Len(r) /\ Len(d(s)) = Len(s)
  BY <1>0, Chunks
<1>4. \A i \in 1 .. Len(q) : b(q)[i] = q[i].bytes /\ d(q)[i] = q[i].fds
  BY <1>1
<1>5. \A i \in 1 .. Len(r) : b(r)[i] = r[i].bytes /\ d(r)[i] = r[i].fds
  BY <1>1
<1>6. \A i \in 1 .. Len(q) + Len(r) : b(s)[i] = s[i].bytes /\ d(s)[i] = s[i].fds
  BY <1>2
<1> HIDE DEF b, d
<1>7. b(s) = b(q) \o b(r) /\ d(s) = d(q) \o d(r)
  <2>1. \A i \in 1 .. Len(q) : b(s)[i] = b(q)[i] /\ d(s)[i] = d(q)[i]
    <3> TAKE i \in 1 .. Len(q)
    <3>1. i \in 1 .. Len(q) + Len(r) /\ s[i] = q[i]
      BY <1>0, <1>1
    <3> QED BY <1>4, <1>6, <3>1
  <2>2. \A i \in 1 .. Len(r) : b(s)[Len(q) + i] = b(r)[i] /\ d(s)[Len(q) + i] = d(r)[i]
    <3> TAKE i \in 1 .. Len(r)
    <3>1. Len(q) + i \in 1 .. Len(q) + Len(r) /\ ~(Len(q) + i <= Len(q)) /\ (Len(q) + i) - Len(q) = i
      BY <1>1
    <3>2. s[Len(q) + i] = r[i]
      BY <1>0, <3>1
    <3> QED BY <1>5, <1>6, <3>1, <3>2
  <2>3. b(s) = b(q) \o b(r)
    <3> DEFINE u == b(q)
               v == b(r)
               w == b(s)
    <3>1. /\ u \in Seq(Seq(Nat)) /\ v \in Seq(Seq(Nat)) /\ w \in Seq(Seq(Nat))
          /\ Len(w) = Len(u) + Len(v)
          /\ \A i \in 1 .. Len(u) : w[i] = u[i]
          /\ \A i \in 1 .. Len(v) : w[Len(u) + i] = v[i]
      BY <1>0, <1>3, <2>1, <2>2
    <3> HIDE DEF u, v, w
    <3>2. w = u \o v
      BY <3>1, IsConcat
    <3> QED BY <3>2 DEF u, v, w
  <2>4. d(s) = d(q) \o d(r)
    <3> DEFINE u == d(q)
               v == d(r)
               w == d(s)
    <3>1. /\ u \in Seq(Seq(Fd)) /\ v \in Seq(Seq(Fd)) /\ w \in Seq(Seq(Fd))
          /\ Len(w) = Len(u) + Len(v)
          /\ \A i \in 1 .. Len(u) : w[i] = u[i]
          /\ \A i \in 1 .. Len(v) : w[Len(u) + i] = v[i]
      BY <1>0, <1>3, <2>1, <2>2
    <3> HIDE DEF u, v, w
    <3>2. w = u \o v
      BY <3>1, IsConcat
    <3> QED BY <3>2 DEF u, v, w
  <2> QED BY <2>3, <2>4
<1>9. /\ Bytes(s) = FlattenSeq(b(s)) /\ Bytes(q) = FlattenSeq(b(q)) /\ Bytes(r) = FlattenSeq(b(r))
      /\ Fds(s) = FlattenSeq(d(s)) /\ Fds(q) = FlattenSeq(d(q)) /\ Fds(r) = FlattenSeq(d(r))
  BY DEF Bytes, Fds, b, d
<1>10. FlattenSeq(b(s)) = FlattenSeq(b(q)) \o FlattenSeq(b(r))
  BY <1>3, <1>7, FlattenConcat
<1>11. FlattenSeq(d(s)) = FlattenSeq(d(q)) \o FlattenSeq(d(r))
  BY <1>3, <1>7, FlattenConcat
<1> QED BY <1>0, <1>9, <1>10, <1>11 DEF s

\* A write more, at the end of a queue.
LEMMA QueueAppend ==
  ASSUME NEW q \in Seq(Skb), NEW w \in Skb
  PROVE  /\ Append(q, w) \in Seq(Skb)
         /\ Bytes(Append(q, w)) = Bytes(q) \o w.bytes
         /\ Fds(Append(q, w)) = Fds(q) \o w.fds
<1>1. <<w>> \in Seq(Skb) /\ Len(<<w>>) = 1 /\ <<w>>[1] = w
  OBVIOUS
<1>2. Append(q, w) = q \o <<w>>
  BY AppendIsConcat
<1>3. Bytes(<<w>>) = w.bytes /\ Fds(<<w>>) = w.fds
  BY <1>1, QueueType
<1> QED BY <1>1, <1>2, <1>3, QueueConcat

\* A write less, at its head.
LEMMA QueueHead ==
  ASSUME NEW q \in Seq(Skb), q # <<>>
  PROVE  /\ Head(q) \in Skb /\ Tail(q) \in Seq(Skb)
         /\ Bytes(q) = Head(q).bytes \o Bytes(Tail(q))
         /\ Fds(q) = Head(q).fds \o Fds(Tail(q))
<1>1. Head(q) \in Skb /\ Tail(q) \in Seq(Skb)
  BY HeadTailProperties
<1>2. q = <<Head(q)>> \o Tail(q)
  <2>1. Len(q) \in Nat /\ Len(q) # 0 /\ SubSeq(q, 1, Len(q)) = q /\ Head(q) = q[1] /\ Tail(q) = SubSeq(q, 2, Len(q))
    BY SubSeqFull, TailIsSubSeq
  <2>2. 1 \in 1 .. Len(q) /\ Len(q) \in 1 .. Len(q)
    BY <2>1
  <2>3. SubSeq(q, 1, Len(q)) = <<q[1]>> \o SubSeq(q, 1 + 1, Len(q))
    BY <2>2, SubSeqRecursiveFirst
  <2> QED BY <2>1, <2>3
<1>3. <<Head(q)>> \in Seq(Skb) /\ Len(<<Head(q)>>) = 1 /\ <<Head(q)>>[1] = Head(q)
  BY <1>1
<1>4. Bytes(<<Head(q)>>) = Head(q).bytes /\ Fds(<<Head(q)>>) = Head(q).fds
  BY <1>3, QueueType
<1>5. /\ Bytes(<<Head(q)>> \o Tail(q)) = Bytes(<<Head(q)>>) \o Bytes(Tail(q))
      /\ Fds(<<Head(q)>> \o Tail(q)) = Fds(<<Head(q)>>) \o Fds(Tail(q))
  BY <1>1, <1>3, QueueConcat
<1> QED BY <1>1, <1>2, <1>4, <1>5

\* A queue in two parts.
LEMMA QueueSplit ==
  ASSUME NEW q \in Seq(Skb), NEW n \in 0 .. Len(q)
  PROVE  /\ SubSeq(q, 1, n) \in Seq(Skb) /\ SubSeq(q, n + 1, Len(q)) \in Seq(Skb)
         /\ Bytes(q) = Bytes(SubSeq(q, 1, n)) \o Bytes(SubSeq(q, n + 1, Len(q)))
         /\ Fds(q) = Fds(SubSeq(q, 1, n)) \o Fds(SubSeq(q, n + 1, Len(q)))
<1>1. Len(q) \in Nat /\ \A i \in 1 .. Len(q) : q[i] \in Skb
  OBVIOUS
<1>2. SubSeq(q, 1, n) \in Seq(Skb) /\ SubSeq(q, n + 1, Len(q)) \in Seq(Skb)
  OBVIOUS
<1>3. 1 \in 1 .. Len(q) + 1 /\ n \in 1 - 1 .. Len(q) /\ Len(q) \in n .. Len(q)
  BY <1>1
<1>4. SubSeq(q, 1, n) \o SubSeq(q, n + 1, Len(q)) = SubSeq(q, 1, Len(q))
  BY <1>3, ConcatAdjacentSubSeq
<1>5. SubSeq(q, 1, Len(q)) = q
  BY SubSeqFull
<1>6. /\ Bytes(SubSeq(q, 1, n) \o SubSeq(q, n + 1, Len(q)))
           = Bytes(SubSeq(q, 1, n)) \o Bytes(SubSeq(q, n + 1, Len(q)))
      /\ Fds(SubSeq(q, 1, n) \o SubSeq(q, n + 1, Len(q)))
           = Fds(SubSeq(q, 1, n)) \o Fds(SubSeq(q, n + 1, Len(q)))
  BY <1>2, QueueConcat
<1> QED BY <1>2, <1>4, <1>5, <1>6

-----------------------------------------------------------------------------
(* What one recvmsg takes out of a queue *)

\* Bytes are joined in any order.
LEMMA Joined == \A x, y, z \in Seq(Nat) : (x \o y) \o z = x \o (y \o z)
<1> DEFINE S == Nat
<1>1. \A x, y, z \in Seq(S) : (x \o y) \o z = x \o (y \o z)
  <2> HIDE DEF S
  <2> QED BY Associative
<1> QED BY <1>1

\* The sizes are numbers, none of them too small to carry a byte.
LEMMA Parameters == Room \in Nat \ {0} /\ RecvMax \in Nat \ {0} /\ MaxFds \in Nat
  BY TapConstants

Took(q)     == Bytes(SubSeq(q, 1, Gathered(q)))
TookFds(q)  == Fds(SubSeq(q, 1, Gathered(q)))
Received(q) == SubSeq(Took(q), 1, Smaller(RecvMax, Len(Took(q))))
Rest(q)     == SubSeq(Took(q), RecvMax + 1, Len(Took(q)))
Back(q)     == IF Rest(q) = <<>> THEN <<>> ELSE <<[bytes |-> Rest(q), fds |-> <<>>]>>
Left(q)     == Back(q) \o SubSeq(q, Gathered(q) + 1, Len(q))

\* It gathers at least one write, and goes on only past writes without
\* descriptors and while it has less than it asked for.
LEMMA GatheredIs ==
  ASSUME NEW q \in Seq(Skb), q # <<>>
  PROVE  /\ Gathered(q) \in 1 .. Len(q)
         /\ \A i \in 1 .. Gathered(q) - 1 :
              q[i].fds = <<>> /\ Len(Bytes(SubSeq(q, 1, i))) < RecvMax
<1> DEFINE Stops(n) == n = Len(q) \/ q[n].fds # <<>> \/ Len(Bytes(SubSeq(q, 1, n))) >= RecvMax
           T == {n \in 1 .. Len(q) : Stops(n)}
           Is(n) == /\ \A i \in 1 .. n - 1 : q[i].fds = <<>> /\ Len(Bytes(SubSeq(q, 1, i))) < RecvMax
                    /\ Stops(n)
<1>1. Len(q) \in Nat /\ Len(q) # 0 /\ DOMAIN q = 1 .. Len(q) /\ Len(q) \in T
  OBVIOUS
<1>2. PICK n \in T : \A i \in T : n <= i
  <2>1. T \in SUBSET Nat /\ T # {}
    <3> HIDE DEF Stops
    <3> QED BY <1>1
  <2> HIDE DEF T
  <2> QED BY <2>1, LeastNat
<1>3. n \in 1 .. Len(q) /\ Stops(n)
  BY <1>2
<1>4. \A i \in 1 .. n - 1 : q[i].fds = <<>> /\ Len(Bytes(SubSeq(q, 1, i))) < RecvMax
  <2> TAKE i \in 1 .. n - 1
  <2>1. i \in 1 .. Len(q) /\ ~(n <= i) /\ i \in 0 .. Len(q)
    <3>1. n \in 1 .. Len(q) /\ Len(q) \in Nat
      BY <1>1, <1>3
    <3> HIDE DEF T, Stops
    <3> QED BY <3>1
  <2>2. ~Stops(i)
    <3>1. i \notin T
      <4> HIDE DEF T
      <4> QED BY <1>2, <2>1
    <3> HIDE DEF Stops
    <3> QED BY <2>1, <3>1
  <2>3. SubSeq(q, 1, i) \in Seq(Skb)
    BY <2>1, QueueSplit
  <2>4. Bytes(SubSeq(q, 1, i)) \in Seq(Nat)
    BY <2>3, QueueType
  <2>5. Len(Bytes(SubSeq(q, 1, i))) \in Nat
    BY <2>4
  <2> QED BY <2>2, <2>5, Parameters
<1>5. Is(n)
  BY <1>3, <1>4
<1>6. Gathered(q) = CHOOSE m \in DOMAIN q : Is(m)
  BY DEF Gathered
<1>7. Gathered(q) \in DOMAIN q /\ Is(Gathered(q))
  <2> HIDE DEF Is
  <2> QED BY <1>1, <1>3, <1>5, <1>6
<1> QED BY <1>1, <1>7

\* What was received and what is left are what was queued.
LEMMA RecvSplits ==
  ASSUME NEW q \in Seq(Skb), q # <<>>
  PROVE  /\ Received(q) \in Seq(Nat) /\ Left(q) \in Seq(Skb) /\ TookFds(q) \in Seq(Fd)
         /\ Received(q) \o Bytes(Left(q)) = Bytes(q)
         /\ TookFds(q) \o Fds(Left(q)) = Fds(q)
<1> DEFINE n == Gathered(q)
           a == SubSeq(q, 1, n)
           r == SubSeq(q, n + 1, Len(q))
           t == Bytes(a)
           k == Smaller(RecvMax, Len(t))
<1>1. n \in 0 .. Len(q)
  BY GatheredIs
<1>2. a \in Seq(Skb) /\ r \in Seq(Skb) /\ Bytes(q) = t \o Bytes(r) /\ Fds(q) = Fds(a) \o Fds(r)
  BY <1>1, QueueSplit
<1>3. t \in Seq(Nat) /\ Fds(a) \in Seq(Fd) /\ Bytes(r) \in Seq(Nat) /\ Fds(r) \in Seq(Fd)
  BY <1>2, QueueType
<1>4. Took(q) = t /\ TookFds(q) = Fds(a) /\ Left(q) = Back(q) \o r
      /\ Received(q) = SubSeq(t, 1, k) /\ Rest(q) = SubSeq(t, RecvMax + 1, Len(t))
  BY DEF Took, TookFds, Left, Received, Rest
<1> HIDE DEF n, a, r, t
<1>5. Len(t) \in Nat /\ k \in 0 .. Len(t) /\ k = IF RecvMax < Len(t) THEN RecvMax ELSE Len(t)
  BY <1>3, Parameters DEF Smaller
<1> HIDE DEF k
<1>6. Rest(q) = SubSeq(t, k + 1, Len(t))
  <2>1. CASE RecvMax < Len(t)
    BY <1>4, <1>5, <2>1
  <2>2. CASE ~(RecvMax < Len(t))
    <3>1. Len(t) < RecvMax + 1 /\ Len(t) < k + 1
      BY <1>5, <2>2, Parameters
    <3>2. SubSeq(t, RecvMax + 1, Len(t)) = <<>>
      BY <1>5, <3>1, Parameters, SubSeqEmpty
    <3>3. SubSeq(t, k + 1, Len(t)) = <<>>
      <4>1. k + 1 \in Int /\ Len(t) \in Int
        BY <1>5
      <4> QED BY <3>1, <4>1, SubSeqEmpty
    <3> QED BY <1>4, <3>2, <3>3
  <2> QED BY <2>1, <2>2
<1>7. Received(q) \in Seq(Nat) /\ Rest(q) \in Seq(Nat) /\ Received(q) \o Rest(q) = t
  <2>1. /\ SubSeq(t, 1, k) \in Seq(Nat) /\ SubSeq(t, k + 1, Len(t)) \in Seq(Nat)
        /\ SubSeq(t, 1, k) \o SubSeq(t, k + 1, Len(t)) = t
    BY <1>3, <1>5, CutAt
  <2> QED BY <1>4, <1>6, <2>1
<1>8. Back(q) \in Seq(Skb) /\ Bytes(Back(q)) = Rest(q) /\ Fds(Back(q)) = <<>>
  <2>1. CASE Rest(q) = <<>>
    <3>1. Back(q) = <<>> /\ Back(q) \in Seq(Skb)
      BY <2>1, EmptySeq DEF Back
    <3> QED BY <2>1, <3>1, QueueType
  <2>2. CASE Rest(q) # <<>>
    <3> DEFINE w == [bytes |-> Rest(q), fds |-> <<>>]
    <3>1. w \in Skb /\ w.bytes = Rest(q) /\ w.fds = <<>>
      BY <1>7, EmptySeq DEF Skb
    <3> HIDE DEF w
    <3>2. <<w>> \in Seq(Skb) /\ Len(<<w>>) = 1 /\ <<w>>[1] = w
      BY <3>1
    <3>3. Back(q) = <<w>>
      BY <2>2 DEF Back, w
    <3> QED BY <3>1, <3>2, <3>3, QueueType
  <2> QED BY <2>1, <2>2
<1>9. Left(q) \in Seq(Skb) /\ Bytes(Left(q)) = Rest(q) \o Bytes(r) /\ Fds(Left(q)) = <<>> \o Fds(r)
  <2>1. /\ Back(q) \o r \in Seq(Skb)
        /\ Bytes(Back(q) \o r) = Bytes(Back(q)) \o Bytes(r)
        /\ Fds(Back(q) \o r) = Fds(Back(q)) \o Fds(r)
    BY <1>2, <1>8, QueueConcat
  <2> QED BY <1>4, <1>8, <2>1
<1>10. Received(q) \o (Rest(q) \o Bytes(r)) = (Received(q) \o Rest(q)) \o Bytes(r)
  <2>1. Received(q) \in Seq(Nat) /\ Rest(q) \in Seq(Nat) /\ Bytes(r) \in Seq(Nat)
    BY <1>3, <1>7
  <2>2. (Received(q) \o Rest(q)) \o Bytes(r) = Received(q) \o (Rest(q) \o Bytes(r))
    BY <2>1, Joined, Zenon
  <2> QED BY <2>2
<1>11. Fds(Left(q)) = Fds(r)
  BY <1>3, <1>9, ConcatEmptySeq
<1> QED BY <1>2, <1>3, <1>4, <1>7, <1>9, <1>10, <1>11

-----------------------------------------------------------------------------
(* One direction of a connection, as sequences of bytes: what the capture   *)
(* has (fc), what was received and is not in it (g), what waits (i), what   *)
(* has arrived (a), what is recorded and to be sent (s) and what was        *)
(* written (w); whether the relay runs, the connection's status and whether *)
(* the receiver is there.                                                   *)

Prefix(s, t) == \E r \in Seq(Nat) : s \o r = t

Flows(run, st, there, fc, g, i, a, s, w) ==
  /\ run /\ st # "closed" => (fc \o g) \o i = w
  /\ Prefix(fc, w)
  /\ Prefix(a, fc)
  /\ run /\ there => a \o s = fc
  /\ run /\ st = "closed" /\ there => fc = w

\* Joining bytes to bytes, or to none.
LEMMA Assoc ==
  /\ \A x, y, z \in Seq(Nat) : (x \o y) \o z = x \o (y \o z)
  /\ \A x \in Seq(Nat) : x \o <<>> = x /\ <<>> \o x = x
  /\ \A x, y \in Seq(Nat) : x \o y \in Seq(Nat)
  /\ <<>> \in Seq(Nat)
<1>1. \A x, y, z \in Seq(Nat) : (x \o y) \o z = x \o (y \o z)
  BY Joined, Zenon
<1>2. \A x \in Seq(Nat) : x \o <<>> = x /\ <<>> \o x = x
  BY ConcatEmptySeq
<1>3. \A x, y \in Seq(Nat) : x \o y \in Seq(Nat)
  BY ConcatProperties
<1> QED BY <1>1, <1>2, <1>3, EmptySeq

\* What is longer by two parts is longer.
LEMMA TwoLonger ==
  \A x, r, u \in Seq(Nat) : Prefix(x, (x \o r) \o u)
<1> SUFFICES ASSUME NEW x \in Seq(Nat), NEW r \in Seq(Nat), NEW u \in Seq(Nat)
             PROVE  Prefix(x, (x \o r) \o u)
  OBVIOUS
<1>1. (x \o r) \o u = x \o (r \o u)
  BY Joined, Zenon
<1>2. r \o u \in Seq(Nat)
  BY ConcatProperties
<1> QED BY <1>1, <1>2 DEF Prefix

\* Prefixes of prefixes, and of what is longer.
LEMMA PrefixFacts ==
  ASSUME NEW x \in Seq(Nat), NEW y \in Seq(Nat), NEW z \in Seq(Nat)
  PROVE  /\ Prefix(x, x \o y) /\ Prefix(x, x)
         /\ Prefix(x, y) /\ Prefix(y, z) => Prefix(x, z)
         /\ Prefix(x, y) => IsPrefix(x, y)
<1>1. Prefix(x, x \o y)
  BY DEF Prefix
<1>2. Prefix(x, x)
  BY Assoc, Zenon DEF Prefix
<1>3. ASSUME Prefix(x, y), Prefix(y, z) PROVE Prefix(x, z)
  <2>1. PICK r \in Seq(Nat) : x \o r = y
    BY <1>3 DEF Prefix
  <2>2. PICK u \in Seq(Nat) : y \o u = z
    BY <1>3 DEF Prefix
  <2>3. Prefix(x, (x \o r) \o u)
    BY TwoLonger, Zenon
  <2> QED BY <2>1, <2>2, <2>3
<1>4. ASSUME Prefix(x, y) PROVE IsPrefix(x, y)
  <2>1. PICK r \in Seq(Nat) : x \o r = y
    BY <1>4 DEF Prefix
  <2>2. /\ Len(y) = Len(x) + Len(r)
        /\ \A i \in 1 .. Len(x) + Len(r) : y[i] = IF i <= Len(x) THEN x[i] ELSE r[i - Len(x)]
    BY <2>1, ConcatProperties
  <2>3. Len(x) \in Nat /\ Len(r) \in Nat /\ Len(x) <= Len(y) /\ Len(x) \in 0 .. Len(y)
    BY <2>2
  <2>4. /\ SubSeq(y, 1, Len(x)) \in Seq(Nat) /\ Len(SubSeq(y, 1, Len(x))) = Len(x)
        /\ \A i \in 1 .. Len(x) : SubSeq(y, 1, Len(x))[i] = y[i]
    BY <2>3, CutAt
  <2>5. SubSeq(y, 1, Len(x)) = x
    <3>1. \A i \in 1 .. Len(x) : y[i] = x[i]
      BY <2>2, <2>3
    <3> QED BY <2>4, <3>1, SeqEqual
  <2>6. SubSeq(x, 1, Len(x)) = x
    BY SubSeqFull
  <2> QED BY <2>3, <2>5, <2>6 DEF IsPrefix
<1> QED BY <1>1, <1>2, <1>3, <1>4

-----------------------------------------------------------------------------
(* The inductive invariant *)

Status == {"new", "pending", "open", "closed"}

TypeOK ==
  /\ limit \in Plans /\ running \in BOOLEAN /\ fresh \in BOOLEAN
  /\ pc \in {"loop", "got", "send"} /\ hand \in Seq(Nat) /\ anc \in Seq(Fd)
  /\ status \in [Conns -> Status] /\ alive \in SUBSET Ends
  /\ wrote \in [Ends -> Nat] /\ attached \in [Ends -> SUBSET Fd]
  /\ in \in [Ends -> Seq(Skb)] /\ out \in [Ends -> Seq(Skb)]
  /\ got \in [Ends -> Seq(Nat)] /\ DOMAIN gotfds = Ends
  /\ cap \in [Ends -> Seq(Seq(Nat))]

\* With data in hand the relay runs and the connection it came from is open.
Busy == pc # "loop" => running /\ cur \in Ends /\ status[cur[1]] = "open"

\* Whom it is about to accept waits for it.
Waiting == \A c \in Conns : <<c, "accept">> \in batch => status[c] = "pending"

\* The descriptors it has open are those of the data in hand.
Owned == (pc = "loop" => open = {}) /\ open \subseteq ToSet(anc)

Kept(e)    == FlattenSeq(cap[e])
Taken(e)   == IF pc = "got" /\ cur = e THEN hand ELSE <<>>
Sending(e) == IF pc = "send" /\ cur = e THEN hand ELSE <<>>
Flow(e) ==
  Flows(running, status[e[1]], Other(e) \in alive, Kept(e), Taken(e), Bytes(in[e]),
        Arrived(e), Sending(e), Written(e))

\* Before a connection is made nothing has gone either way, and the bus does
\* not know of it; after it is closed nothing waits.
Outside(e) ==
  /\ status[e[1]] \in {"new", "pending"} =>
       /\ cap[e] = <<>> /\ out[e] = <<>> /\ got[e] = <<>>
       /\ e[2] = "bus" => e \notin alive /\ in[e] = <<>> /\ attached[e] = {}
  /\ status[e[1]] = "closed" => in[e] = <<>>

Relays == TypeOK /\ Busy /\ Waiting /\ Owned /\ \A e \in Ends : Flow(e) /\ Outside(e)

\* The two ends of a connection.
LEMMA TwoEnds ==
  ASSUME NEW e \in Ends
  PROVE  /\ e[1] \in Conns /\ Other(e) \in Ends /\ Other(Other(e)) = e
         /\ Other(e) # e /\ Other(e)[1] = e[1]
         /\ e[2] = "client" <=> Other(e)[2] = "bus"
         /\ e = <<e[1], e[2]>> /\ e[2] \in {"client", "bus"}
         /\ \A d \in Ends : d[1] = e[1] => d = e \/ d = Other(e)
<1>1. PICK c \in Conns, side \in {"client", "bus"} : e = <<c, side>>
  BY DEF Ends
<1>2. Other(e) = <<c, IF side = "client" THEN "bus" ELSE "client">>
  BY <1>1 DEF Other
<1> QED BY <1>1, <1>2 DEF Ends, Other

\* Counting on.
LEMMA Counting ==
  ASSUME NEW m \in Nat, NEW n \in Nat
  PROVE  [i \in 1 .. m + n |-> i] = [i \in 1 .. m |-> i] \o [i \in 1 .. n |-> m + i]
<1> DEFINE u == [i \in 1 .. m |-> i]
           v == [i \in 1 .. n |-> m + i]
           w == [i \in 1 .. m + n |-> i]
<1>1. /\ u \in Seq(Nat) /\ Len(u) = m /\ \A i \in 1 .. m : u[i] = i
      /\ v \in Seq(Nat) /\ Len(v) = n /\ \A i \in 1 .. n : v[i] = m + i
      /\ w \in Seq(Nat) /\ Len(w) = m + n /\ \A i \in 1 .. m + n : w[i] = i
  OBVIOUS
<1> HIDE DEF u, v, w
<1>2. \A i \in 1 .. Len(u) : w[i] = u[i]
  BY <1>1
<1>3. \A i \in 1 .. Len(v) : w[Len(u) + i] = v[i]
  BY <1>1
<1>4. w = u \o v
  BY <1>1, <1>2, <1>3, IsConcat
<1> QED BY <1>4 DEF u, v, w

\* What an end wrote, and what the sequences of Flow are made of.
LEMMA FlowType ==
  ASSUME TypeOK, NEW e \in Ends
  PROVE  /\ Kept(e) \in Seq(Nat) /\ Taken(e) \in Seq(Nat) /\ Bytes(in[e]) \in Seq(Nat)
         /\ Arrived(e) \in Seq(Nat) /\ Sending(e) \in Seq(Nat) /\ Written(e) \in Seq(Nat)
         /\ Bytes(out[e]) \in Seq(Nat)
<1>1. cap[e] \in Seq(Seq(Nat)) /\ in[e] \in Seq(Skb) /\ out[e] \in Seq(Skb) /\ wrote[e] \in Nat
      /\ out[Other(e)] \in Seq(Skb) /\ got[Other(e)] \in Seq(Nat) /\ hand \in Seq(Nat)
  BY TwoEnds DEF TypeOK
<1>2. Kept(e) \in Seq(Nat)
  BY <1>1, FlattenType DEF Kept
<1>3. Bytes(in[e]) \in Seq(Nat) /\ Bytes(out[e]) \in Seq(Nat) /\ Bytes(out[Other(e)]) \in Seq(Nat)
  BY <1>1, QueueType
<1>4. Arrived(e) \in Seq(Nat)
  BY <1>1, <1>3, ConcatProperties DEF Arrived
<1>5. Written(e) \in Seq(Nat)
  BY <1>1 DEF Written
<1>6. Taken(e) \in Seq(Nat) /\ Sending(e) \in Seq(Nat)
  BY <1>1, EmptySeq DEF Taken, Sending
<1> QED BY <1>2, <1>3, <1>4, <1>5, <1>6

\* What recvmsg does.
LEMMA RecvMsgIs ==
  ASSUME NEW e \in Ends, RecvMsg(e), TypeOK
  PROVE  /\ running /\ pc = "loop" /\ status[e[1]] = "open" /\ in[e] # <<>> /\ in[e] \in Seq(Skb)
         /\ hand' = Received(in[e]) /\ in' = [in EXCEPT ![e] = Left(in[e])]
         /\ \E k \in 0 .. Smaller(Len(TookFds(in[e])), MaxFds) :
              /\ anc' = SubSeq(TookFds(in[e]), 1, k)
              /\ open' = open \cup ToSet(anc')
              /\ warned' = Warned(e, k, Len(TookFds(in[e])))
         /\ cur' = e /\ pc' = "got" /\ fresh' = TRUE
         /\ UNCHANGED <<limit, running, status, alive, wrote, attached, got, gotfds, out, cap>>
  BY DEF RecvMsg, TypeOK, Live, Took, TookFds, Received, Rest, Back, Left, peervars

-----------------------------------------------------------------------------
(* Every step keeps it *)

\* At first there is nothing.
LEMMA RelaysInit == Init => Relays
<1> SUFFICES ASSUME Init PROVE Relays
  OBVIOUS
<1>1. TypeOK
  BY DEF Init, TypeOK, Status
<1>2. Busy /\ Waiting /\ Owned
  BY DEF Init, Busy, Waiting, Owned
<1>3. ASSUME NEW e \in Ends PROVE Flow(e) /\ Outside(e)
  <2>1. /\ cap[e] = <<>> /\ in[e] = <<>> /\ out[e] = <<>> /\ got[e] = <<>> /\ attached[e] = {}
        /\ out[Other(e)] = <<>> /\ got[Other(e)] = <<>> /\ wrote[e] = 0
        /\ status[e[1]] = "new" /\ alive = {} /\ pc = "loop"
    BY TwoEnds DEF Init
  <2>2. Outside(e)
    BY <2>1 DEF Outside
  <2>3. cap[e] \in Seq(Seq(Nat)) /\ in[e] \in Seq(Skb) /\ out[Other(e)] \in Seq(Skb)
    BY <1>1, TwoEnds DEF TypeOK
  <2>4. /\ Kept(e) = <<>> /\ Bytes(in[e]) = <<>> /\ Bytes(out[Other(e)]) = <<>>
        /\ Taken(e) = <<>> /\ Sending(e) = <<>> /\ Written(e) = <<>>
    <3>1. Kept(e) = <<>>
      BY <2>1, <2>3, FlattenType DEF Kept
    <3>2. Bytes(in[e]) = <<>> /\ Bytes(out[Other(e)]) = <<>>
      BY <2>1, <2>3, QueueType
    <3>3. Taken(e) = <<>> /\ Sending(e) = <<>>
      BY <2>1 DEF Taken, Sending
    <3>4. Written(e) = <<>>
      BY <2>1 DEF Written
    <3> QED BY <3>1, <3>2, <3>3, <3>4
  <2>5. <<>> \o <<>> = <<>> /\ <<>> \in Seq(Nat)
    BY Assoc
  <2>6. Arrived(e) = <<>>
    BY <2>1, <2>4, <2>5 DEF Arrived
  <2>7. Flow(e)
    BY <2>1, <2>4, <2>5, <2>6 DEF Flow, Flows, Prefix
  <2> QED BY <2>2, <2>7
<1> QED BY <1>1, <1>2, <1>3 DEF Relays

\* An end that a step has nothing to do with.
Steady(e) ==
  /\ running' = running /\ status'[e[1]] = status[e[1]]
  /\ Other(e) \in alive' <=> Other(e) \in alive
  /\ cap'[e] = cap[e] /\ in'[e] = in[e] /\ wrote'[e] = wrote[e]
  /\ Taken(e)' = Taken(e) /\ Sending(e)' = Sending(e) /\ Arrived(e)' = Arrived(e)

\* What it wrote flows on.
LEMMA SteadyFlow ==
  ASSUME NEW e \in Ends, Flow(e), Steady(e)
  PROVE  Flow(e)'
<1>1. /\ Kept(e)' = Kept(e) /\ Written(e)' = Written(e) /\ Bytes(in[e])' = Bytes(in[e])
  BY DEF Steady, Kept, Written
<1> HIDE DEF Kept
<1> QED BY <1>1 DEF Flow, Flows, Steady

\* The types are kept.
LEMMA TypeNext == TypeOK /\ [Next]_vars => TypeOK'
<1> SUFFICES ASSUME TypeOK, [Next]_vars PROVE TypeOK'
  OBVIOUS
<1>1. CASE \E c \in Conns : Connect(c)
  BY <1>1 DEF TypeOK, Connect, Ends, Status, tapvars
<1>2. CASE \E e \in DOMAIN limit : \E n \in 1 .. limit[e], k \in 0 .. MaxFds : Write(e, n, k)
  <2>1. PICK e \in DOMAIN limit : \E n \in 1 .. limit[e], k \in 0 .. MaxFds : Write(e, n, k)
    BY <1>2
  <2>2. PICK n \in 1 .. limit[e], k \in 0 .. MaxFds : Write(e, n, k)
    BY <2>1
  <2>3. e \in Ends /\ limit[e] \in Nat /\ n \in Nat /\ k \in Nat /\ wrote[e] \in Nat /\ in[e] \in Seq(Skb)
    BY <2>1, <2>2, TapConstants DEF TypeOK
  <2> DEFINE w == [bytes |-> [i \in 1 .. n |-> wrote[e] + i], fds |-> [i \in 1 .. k |-> <<wrote[e] + 1, i>>]]
  <2>4. w \in Skb
    <3>1. [i \in 1 .. n |-> wrote[e] + i] \in Seq(Nat)
      BY <2>3
    <3>2. [i \in 1 .. k |-> <<wrote[e] + 1, i>>] \in Seq(Fd)
      BY <2>3, FdList
    <3> QED BY <3>1, <3>2 DEF Skb
  <2>5. { <<wrote[e] + 1, i>> : i \in 1 .. k } \in SUBSET Fd
    BY <2>3 DEF Fd
  <2>6. wrote[e] + n \in Nat
    BY <2>3
  <2>7. Append(in[e], w) \in Seq(Skb)
    <3> HIDE DEF w
    <3> QED BY <2>3, <2>4, AppendProperties
  <2>8. in' = [in EXCEPT ![e] = Append(in[e], w)]
    BY <2>2 DEF Write
  <2> HIDE DEF w
  <2>9. in' \in [Ends -> Seq(Skb)]
    BY <2>3, <2>7, <2>8 DEF TypeOK
  <2>10. wrote' \in [Ends -> Nat]
    BY <2>2, <2>3, <2>6 DEF TypeOK, Write
  <2>11. attached' \in [Ends -> SUBSET Fd]
    <3>1. attached' = [attached EXCEPT ![e] = @ \cup { <<wrote[e] + 1, i>> : i \in 1 .. k }]
      BY <2>2 DEF Write
    <3> QED BY <2>3, <2>5, <3>1 DEF TypeOK
  <2>12. UNCHANGED <<tapvars, status, alive, got, gotfds, out, cap>>
    BY <2>2 DEF Write
  <2> QED BY <2>9, <2>10, <2>11, <2>12 DEF TypeOK, tapvars
<1>3. CASE \E e \in Ends : Read(e)
  <2>1. PICK e \in Ends : Read(e)
    BY <1>3
  <2>2. out[e] \in Seq(Skb) /\ out[e] # <<>> /\ got[e] \in Seq(Nat)
    BY <2>1 DEF Read, TypeOK
  <2>3. Tail(out[e]) \in Seq(Skb) /\ Head(out[e]).bytes \in Seq(Nat)
    BY <2>2, QueueHead DEF Skb
  <2>4. got[e] \o Head(out[e]).bytes \in Seq(Nat)
    BY <2>2, <2>3, ConcatProperties
  <2> QED BY <2>1, <2>3, <2>4 DEF Read, TypeOK, tapvars
<1>4. CASE \E e \in Ends : Close(e)
  BY <1>4, EmptySeq DEF TypeOK, Close, tapvars
<1>5. CASE Select \/ \E e \in Ends : Stale(e)
  BY <1>5 DEF TypeOK, Select, Stale, peervars
<1>6. CASE (\E c \in Conns : Accept(c)) \/ (\E e \in Ends : Eof(e))
  <2>1. ASSUME NEW c, c \in Conns, Hangup(c) PROVE status' \in [Conns -> Status] /\ in' \in [Ends -> Seq(Skb)]
    BY <2>1, EmptySeq DEF Hangup, TypeOK, Status
  <2>2. CASE \E c \in Conns : Accept(c)
    BY <2>1, <2>2 DEF Accept, TypeOK, Status, Ends
  <2>3. CASE \E e \in Ends : Eof(e)
    <3>1. PICK e \in Ends : Eof(e)
      BY <2>3
    <3>2. status' \in [Conns -> Status] /\ in' \in [Ends -> Seq(Skb)]
      BY <2>1, <3>1, TwoEnds DEF Eof
    <3> QED BY <3>1, <3>2 DEF Eof, TypeOK, peervars
  <2> QED BY <1>6, <2>2, <2>3
<1>7. CASE \E e \in Ends : RecvMsg(e)
  <2>1. PICK e \in Ends : RecvMsg(e)
    BY <1>7
  <2>2. in[e] \in Seq(Skb) /\ in[e] # <<>>
    BY <2>1, RecvMsgIs
  <2>3. Received(in[e]) \in Seq(Nat) /\ Left(in[e]) \in Seq(Skb) /\ TookFds(in[e]) \in Seq(Fd)
    BY <2>2, RecvSplits
  <2>4. \A k \in 0 .. Smaller(Len(TookFds(in[e])), MaxFds) : SubSeq(TookFds(in[e]), 1, k) \in Seq(Fd)
    <3> TAKE k \in 0 .. Smaller(Len(TookFds(in[e])), MaxFds)
    <3>1. k \in 0 .. Len(TookFds(in[e]))
      <4> DEFINE m == Len(TookFds(in[e]))
      <4>1. m \in Nat
        BY <2>3
      <4> HIDE DEF m
      <4>2. k \in 0 .. m
        BY <4>1, Parameters DEF Smaller, m
      <4> QED BY <4>2 DEF m
    <3> QED BY <2>3, <3>1, CutAt
  <2>5. /\ hand' = Received(in[e]) /\ in' = [in EXCEPT ![e] = Left(in[e])]
        /\ anc' \in Seq(Fd) /\ pc' = "got" /\ fresh' = TRUE
        /\ UNCHANGED <<limit, running, status, alive, wrote, attached, got, gotfds, out, cap>>
    BY <2>1, <2>4, RecvMsgIs
  <2> QED BY <2>1, <2>3, <2>5 DEF TypeOK
<1>8. CASE CaptureWrite
  <2>1. \A e \in Ends : Append(cap[e], hand) \in Seq(Seq(Nat))
    BY AppendProperties DEF TypeOK
  <2> QED BY <1>8, <2>1 DEF CaptureWrite, Recorded, TypeOK, peervars
<1>9. CASE Send
  <2> DEFINE to == Other(cur)
             n  == Smaller(Free(out[to]), Len(hand))
             w  == [bytes |-> SubSeq(hand, 1, n), fds |-> IF fresh THEN anc ELSE <<>>]
  <2>1. to \in Ends /\ out[to] \in Seq(Skb) /\ hand \in Seq(Nat) /\ anc \in Seq(Fd)
    BY <1>9 DEF Send, TypeOK
  <2>2. n \in 0 .. Len(hand)
    <3>1. Bytes(out[to]) \in Seq(Nat)
      BY <2>1, QueueType
    <3>2. Free(out[to]) \in Int /\ Len(hand) \in Nat /\ n > 0
      BY <1>9, <2>1, <3>1, Parameters DEF Free, Send
    <3> QED BY <3>2 DEF Smaller
  <2> HIDE DEF n
  <2>3. SubSeq(hand, 1, n) \in Seq(Nat) /\ SubSeq(hand, n + 1, Len(hand)) \in Seq(Nat)
    BY <2>1, <2>2, CutAt
  <2>4. w \in Skb
    BY <2>1, <2>3, EmptySeq DEF Skb
  <2>5. Append(out[to], w) \in Seq(Skb)
    <3> HIDE DEF w
    <3> QED BY <2>1, <2>4, AppendProperties
  <2>6. out' = [out EXCEPT ![to] = Append(out[to], w)] /\ hand' = SubSeq(hand, n + 1, Len(hand))
    BY <1>9 DEF Send, n
  <2>7. pc' \in {"loop", "got", "send"} /\ anc' \in Seq(Fd)
    BY <1>9, EmptySeq DEF Send, Done, TypeOK
  <2> HIDE DEF w, to
  <2> QED BY <1>9, <2>1, <2>3, <2>5, <2>6, <2>7 DEF Send, TypeOK, peervars
<1>10. CASE SendFails
  BY <1>10, EmptySeq DEF SendFails, Done, TypeOK, peervars
<1>11. CASE Interrupt
  BY <1>11, EmptySeq DEF Interrupt, TypeOK, Status, peervars
<1>12. CASE UNCHANGED vars
  BY <1>12 DEF vars, tapvars, peervars, TypeOK
<1> QED BY <1>1, <1>2, <1>3, <1>4, <1>5, <1>6, <1>7, <1>8, <1>9, <1>10, <1>11, <1>12
  DEF Next, Relay, Peers

\* What is to be shown of each step, given that the types are kept.
Goes == Busy /\ Waiting /\ Owned /\ \A e \in Ends : Flow(e) /\ Outside(e)

\* Nothing has gone either way on a connection that is not made.
LEMMA NothingYet ==
  ASSUME Relays, NEW e \in Ends, status[e[1]] \in {"new", "pending"}
  PROVE  /\ Kept(e) = <<>> /\ Arrived(e) = <<>> /\ Sending(e) = <<>> /\ Taken(e) = <<>>
         /\ status[e[1]] # "closed"
<1>1. Outside(e) /\ Outside(Other(e)) /\ Other(e)[1] = e[1] /\ Other(e) \in Ends
  BY TwoEnds DEF Relays
<1>2. cap[e] = <<>> /\ out[Other(e)] = <<>> /\ got[Other(e)] = <<>>
  BY <1>1 DEF Outside
<1>3. cap[e] \in Seq(Seq(Nat)) /\ out[Other(e)] \in Seq(Skb)
  BY <1>1 DEF Relays, TypeOK
<1>4. Kept(e) = <<>>
  BY <1>2, <1>3, FlattenType DEF Kept
<1>5. Bytes(out[Other(e)]) = <<>>
  BY <1>2, <1>3, QueueType
<1>6. Arrived(e) = <<>>
  BY <1>2, <1>5, Assoc DEF Arrived
<1>7. Sending(e) = <<>> /\ Taken(e) = <<>>
  BY DEF Relays, Busy, Sending, Taken
<1> QED BY <1>4, <1>6, <1>7

\* A client connects, or its connection is made: the flow may begin.
LEMMA Meets ==
  ASSUME Relays, NEW c \in Conns, NEW u \in {"pending", "open"}, NEW d, d \in Ends, d[1] = c,
         status[c] \in {"new", "pending"}, status' = [status EXCEPT ![c] = u],
         alive' = alive \cup {d}, u = "pending" => d[2] = "client",
         UNCHANGED <<running, pc, cur, hand, wrote, attached, in, out, got, cap>>
  PROVE  \A e \in Ends : Flow(e)' /\ Outside(e)'
<1> SUFFICES ASSUME NEW e \in Ends PROVE Flow(e)' /\ Outside(e)'
  OBVIOUS
<1>0. /\ status \in [Conns -> Status] /\ Flow(e) /\ Outside(e) /\ e[1] \in Conns
      /\ Other(e) \in Ends /\ Other(e)[1] = e[1]
  BY TwoEnds DEF Relays, TypeOK
<1>1. /\ Taken(e)' = Taken(e) /\ Sending(e)' = Sending(e) /\ Arrived(e)' = Arrived(e)
      /\ Kept(e)' = Kept(e) /\ Written(e)' = Written(e)
      /\ running' = running /\ in'[e] = in[e] /\ cap'[e] = cap[e] /\ wrote'[e] = wrote[e]
  BY DEF Taken, Sending, Arrived, Kept, Written
<1>2. CASE e[1] = c
  <2>1. /\ Kept(e) = <<>> /\ Arrived(e) = <<>> /\ Sending(e) = <<>> /\ status[e[1]] # "closed"
    BY <1>2, NothingYet
  <2>2. /\ Kept(e) \in Seq(Nat) /\ Taken(e) \in Seq(Nat) /\ Bytes(in[e]) \in Seq(Nat)
        /\ Arrived(e) \in Seq(Nat) /\ Sending(e) \in Seq(Nat) /\ Written(e) \in Seq(Nat)
    BY FlowType DEF Relays
  <2>3. Flows(running, u, Other(e) \in alive', Kept(e), Taken(e), Bytes(in[e]), Arrived(e),
              Sending(e), Written(e))
    <3>1. <<>> \o <<>> = <<>>
      BY Assoc
    <3> QED BY <1>0, <2>1, <3>1 DEF Flow, Flows
  <2>4. status'[e[1]] = u
    BY <1>0, <1>2
  <2>5. Flow(e)'
    BY <1>1, <2>3, <2>4 DEF Flow
  <2>6. Outside(e)'
    BY <1>0, <1>2, <2>4 DEF Outside
  <2> QED BY <2>5, <2>6
<1>3. CASE e[1] # c
  <2>1. status'[e[1]] = status[e[1]] /\ e # d /\ Other(e) # d
    BY <1>0, <1>3
  <2>2. Steady(e)
    BY <1>1, <2>1 DEF Steady
  <2>3. Outside(e)'
    BY <1>0, <2>1 DEF Outside
  <2> QED BY <1>0, <2>2, <2>3, SteadyFlow
<1> QED BY <1>2, <1>3

\* A connection is closed when nothing waits for an end that is there.
LEMMA Hangs ==
  ASSUME Relays, NEW c \in Conns, running, pc = "loop", status[c] # "closed", Hangup(c),
         \A e \in Ends : e[1] = c /\ Other(e) \in alive => in[e] = <<>>,
         UNCHANGED <<running, pc, cur, hand, alive, wrote, attached, out, got, cap>>
  PROVE  \A e \in Ends : Flow(e)' /\ Outside(e)'
<1> SUFFICES ASSUME NEW e \in Ends PROVE Flow(e)' /\ Outside(e)'
  OBVIOUS
<1>0. /\ status \in [Conns -> Status] /\ Flow(e) /\ Outside(e) /\ e[1] \in Conns /\ in[e] \in Seq(Skb)
      /\ Other(e) \in Ends /\ Other(e)[1] = e[1]
  BY TwoEnds DEF Relays, TypeOK
<1>1. /\ Taken(e)' = Taken(e) /\ Sending(e)' = Sending(e) /\ Arrived(e)' = Arrived(e)
      /\ Kept(e)' = Kept(e) /\ Written(e)' = Written(e) /\ Taken(e) = <<>>
      /\ running' = running /\ cap'[e] = cap[e] /\ wrote'[e] = wrote[e]
  BY DEF Taken, Sending, Arrived, Kept, Written
<1>2. CASE e[1] = c
  <2>1. status'[e[1]] = "closed" /\ in'[e] = <<>>
    BY <1>0, <1>2 DEF Hangup
  <2>2. /\ Kept(e) \in Seq(Nat) /\ Taken(e) \in Seq(Nat) /\ Bytes(in[e]) \in Seq(Nat)
        /\ Arrived(e) \in Seq(Nat) /\ Sending(e) \in Seq(Nat) /\ Written(e) \in Seq(Nat)
    BY FlowType DEF Relays
  <2>3. running /\ Other(e) \in alive => Bytes(in[e]) = <<>>
    BY <1>0, <1>2, QueueType
  <2>4. Flows(running, "closed", Other(e) \in alive, Kept(e), Taken(e), <<>>, Arrived(e),
              Sending(e), Written(e))
    <3>1. Kept(e) \o <<>> = Kept(e)
      BY <2>2, ConcatEmptySeq
    <3> QED BY <1>0, <1>1, <1>2, <2>3, <3>1 DEF Flow, Flows
  <2>5. Bytes(in'[e]) = <<>>
    BY <1>0, <2>1, EmptySeq, QueueType
  <2>6. Flow(e)'
    BY <1>1, <2>1, <2>4, <2>5 DEF Flow
  <2>7. Outside(e)'
    BY <2>1 DEF Outside
  <2> QED BY <2>6, <2>7
<1>3. CASE e[1] # c
  <2>1. status'[e[1]] = status[e[1]] /\ in'[e] = in[e]
    BY <1>0, <1>3 DEF Hangup
  <2>2. Steady(e)
    BY <1>1, <2>1 DEF Steady
  <2>3. Outside(e)'
    BY <1>0, <2>1 DEF Outside
  <2> QED BY <1>0, <2>2, <2>3, SteadyFlow
<1> QED BY <1>2, <1>3

\* The client connects.
LEMMA ConnectGoes == ASSUME Relays, NEW c \in Conns, Connect(c) PROVE Goes'
<1>1. status \in [Conns -> Status]
  BY DEF Relays, TypeOK
<1>2. <<c, "client">> \in Ends
  BY DEF Ends
<1>3. \A e \in Ends : Flow(e)' /\ Outside(e)'
  BY <1>2, Meets DEF Connect, tapvars
<1>4. Busy' /\ Waiting' /\ Owned'
  BY <1>1, TwoEnds DEF Relays, Busy, Waiting, Owned, Connect, tapvars
<1> QED BY <1>3, <1>4 DEF Goes

\* What waits when the bus is not reached is not for an end that is there.
LEMMA NothingForClient ==
  ASSUME Relays, NEW e \in Ends, status[e[1]] = "pending", Other(e) \in alive
  PROVE  in[e] = <<>>
<1>1. Outside(e) /\ Outside(Other(e)) /\ Other(e) \in Ends /\ Other(e)[1] = e[1]
  BY TwoEnds DEF Relays
<1>2. Other(e)[2] # "bus"
  BY <1>1 DEF Outside
<1>3. e[2] = "bus"
  BY <1>2, TwoEnds
<1> QED BY <1>1, <1>3 DEF Outside

\* Nor is what waits when an end's stream has ended.
LEMMA NothingAtEof ==
  ASSUME NEW e \in Ends, Eof(e), NEW d \in Ends, d[1] = e[1], Other(d) \in alive
  PROVE  in[d] = <<>>
<1>1. d = e \/ d = Other(e)
  BY TwoEnds
<1>2. d # Other(e)
  BY TwoEnds DEF Eof, Ended
<1> QED BY <1>1, <1>2 DEF Eof, Ended

\* The relay accepts a client: it reaches the bus, or does not.
LEMMA AcceptGoes == ASSUME Relays, NEW c \in Conns, Accept(c) PROVE Goes'
<1>0. status \in [Conns -> Status] /\ status[c] = "pending" /\ batch' = batch \ {<<c, "accept">>}
  BY DEF Relays, TypeOK, Waiting, Accept
<1>1. CASE Hangup(c) /\ UNCHANGED alive
  <2>1. ASSUME NEW e \in Ends, e[1] = c, Other(e) \in alive PROVE in[e] = <<>>
    BY <1>0, <2>1, NothingForClient
  <2>2. \A e \in Ends : Flow(e)' /\ Outside(e)'
    BY <1>0, <1>1, <2>1, Hangs DEF Accept
  <2>3. Busy' /\ Waiting' /\ Owned'
    BY <1>0, <1>1 DEF Relays, Busy, Waiting, Owned, Accept, Hangup
  <2> QED BY <2>2, <2>3 DEF Goes
<1>2. CASE status' = [status EXCEPT ![c] = "open"] /\ alive' = alive \cup {<<c, "bus">>} /\ UNCHANGED in
  <2>1. <<c, "bus">> \in Ends
    BY DEF Ends
  <2>2. \A e \in Ends : Flow(e)' /\ Outside(e)'
    BY <1>0, <1>2, <2>1, Meets DEF Accept
  <2>3. Busy' /\ Waiting' /\ Owned'
    BY <1>0, <1>2 DEF Relays, Busy, Waiting, Owned, Accept
  <2> QED BY <2>2, <2>3 DEF Goes
<1> QED BY <1>1, <1>2 DEF Accept

\* A connection is taken down once nothing more comes from one of its ends.
LEMMA EofGoes == ASSUME Relays, NEW e \in Ends, Eof(e) PROVE Goes'
<1>0. status \in [Conns -> Status] /\ e[1] \in Conns /\ status[e[1]] = "open" /\ pc = "loop" /\ running
  BY TwoEnds DEF Relays, TypeOK, Eof, Live
<1>1. ASSUME NEW d \in Ends, d[1] = e[1], Other(d) \in alive PROVE in[d] = <<>>
  BY <1>1, NothingAtEof
<1>2. \A d \in Ends : Flow(d)' /\ Outside(d)'
  BY <1>0, <1>1, Hangs DEF Eof, peervars
<1>3. Busy' /\ Waiting' /\ Owned'
  BY <1>0 DEF Relays, Busy, Waiting, Owned, Eof, Hangup
<1> QED BY <1>2, <1>3 DEF Goes

\* What does not concern the bytes at all.
LEMMA SelectGoes == ASSUME Relays, Select \/ (\E e \in Ends : Stale(e)) \/ UNCHANGED vars PROVE Goes'
<1>1. /\ batch' = batch \/ batch' \subseteq batch \/ batch' = Ready
      /\ UNCHANGED <<running, pc, cur, hand, anc, open, status, alive, wrote, attached, in, out, got, cap>>
  BY DEF Select, Stale, vars, tapvars, peervars
<1>2. ASSUME NEW e \in Ends PROVE Flow(e)' /\ Outside(e)'
  <2>1. Flow(e) /\ Outside(e)
    BY DEF Relays
  <2>2. Steady(e)
    BY <1>1 DEF Steady, Taken, Sending, Arrived
  <2>3. Outside(e)'
    BY <1>1, <2>1 DEF Outside
  <2> QED BY <2>1, <2>2, <2>3, SteadyFlow
<1>3. \A c \in Conns : <<c, "accept">> \in Ready => status[c] = "pending"
  BY DEF Ready, Ends
<1>4. Busy' /\ Waiting' /\ Owned'
  BY <1>1, <1>3 DEF Relays, Busy, Waiting, Owned
<1> QED BY <1>2, <1>4 DEF Goes

\* An end writes.
LEMMA WriteGoes ==
  ASSUME Relays, NEW d \in Ends, NEW n \in Nat, NEW k \in Nat, Write(d, n, k) PROVE Goes'
<1> DEFINE x == [i \in 1 .. n |-> wrote[d] + i]
           w == [bytes |-> x, fds |-> [i \in 1 .. k |-> <<wrote[d] + 1, i>>]]
<1>0. /\ wrote \in [Ends -> Nat] /\ in \in [Ends -> Seq(Skb)] /\ wrote[d] \in Nat
      /\ status[d[1]] \in {"pending", "open"} /\ d \in alive
      /\ in' = [in EXCEPT ![d] = Append(in[d], w)]
      /\ wrote' = [wrote EXCEPT ![d] = wrote[d] + n]
      /\ UNCHANGED <<running, pc, cur, hand, anc, open, batch, status, alive, out, got, cap>>
      /\ \A e \in Ends : e # d => attached'[e] = attached[e]
  BY DEF Relays, TypeOK, Write, tapvars
<1>1. x \in Seq(Nat) /\ w \in Skb /\ w.bytes = x
  <2>1. x \in Seq(Nat)
    BY <1>0
  <2>2. [i \in 1 .. k |-> <<wrote[d] + 1, i>>] \in Seq(Fd)
    BY <1>0, FdList
  <2> QED BY <2>1, <2>2 DEF Skb
<1>2. x = [i \in 1 .. n |-> wrote[d] + i]
  OBVIOUS
<1> HIDE DEF x, w
<1>3. Bytes(Append(in[d], w)) = Bytes(in[d]) \o x
  BY <1>0, <1>1, QueueAppend
<1>4. Written(d)' = Written(d) \o x
  <2> DEFINE m == wrote[d]
  <2>1. Written(d) = [i \in 1 .. m |-> i] /\ Written(d)' = [i \in 1 .. m + n |-> i] /\ m \in Nat
    BY <1>0 DEF Written
  <2>2. x = [i \in 1 .. n |-> m + i]
    BY <1>2
  <2> HIDE DEF m
  <2>3. [i \in 1 .. m + n |-> i] = [i \in 1 .. m |-> i] \o [i \in 1 .. n |-> m + i]
    BY <2>1, Counting
  <2> QED BY <2>1, <2>2, <2>3
<1>5. ASSUME NEW e \in Ends PROVE Flow(e)' /\ Outside(e)'
  <2>0. Flow(e) /\ Outside(e)
    BY DEF Relays
  <2>1. /\ Taken(e)' = Taken(e) /\ Sending(e)' = Sending(e) /\ Arrived(e)' = Arrived(e)
        /\ Kept(e)' = Kept(e)
    BY <1>0 DEF Taken, Sending, Arrived, Kept
  <2>2. CASE e = d
    <3>1. /\ Kept(e) \in Seq(Nat) /\ Taken(e) \in Seq(Nat) /\ Bytes(in[e]) \in Seq(Nat)
          /\ Written(e) \in Seq(Nat)
      BY FlowType DEF Relays
    <3>2. (Kept(e) \o Taken(e)) \o (Bytes(in[e]) \o x) = ((Kept(e) \o Taken(e)) \o Bytes(in[e])) \o x
      <4>1. Kept(e) \o Taken(e) \in Seq(Nat)
        BY <3>1, ConcatProperties
      <4> QED BY <1>1, <3>1, <4>1, Joined, Zenon
    <3>3. Prefix(Kept(e), Written(e) \o x)
      <4>1. Prefix(Kept(e), Written(e))
        BY <2>0 DEF Flow, Flows
      <4>2. Prefix(Written(e), Written(e) \o x) /\ Written(e) \o x \in Seq(Nat)
        BY <1>1, <3>1, PrefixFacts, ConcatProperties
      <4> QED BY <3>1, <4>1, <4>2, PrefixFacts
    <3>4. /\ Bytes(in[e])' = Bytes(in[e]) \o x /\ Written(e)' = Written(e) \o x
          /\ running' = running /\ status'[e[1]] = status[e[1]] /\ status[e[1]] # "closed"
          /\ alive' = alive
      BY <1>0, <1>3, <1>4, <2>2
    <3>5. Flow(e)'
      BY <2>0, <2>1, <3>2, <3>3, <3>4 DEF Flow, Flows
    <3>6. Outside(e)'
      BY <1>0, <2>0, <2>2 DEF Outside
    <3> QED BY <3>5, <3>6
  <2>3. CASE e # d
    <3>1. in'[e] = in[e] /\ wrote'[e] = wrote[e] /\ attached'[e] = attached[e]
      BY <1>0, <2>3
    <3>2. Steady(e)
      BY <1>0, <2>1, <3>1 DEF Steady
    <3>3. Outside(e)'
      BY <1>0, <2>0, <3>1 DEF Outside
    <3> QED BY <2>0, <3>2, <3>3, SteadyFlow
  <2> QED BY <2>2, <2>3
<1>6. Busy' /\ Waiting' /\ Owned'
  BY <1>0 DEF Relays, Busy, Waiting, Owned
<1> QED BY <1>5, <1>6 DEF Goes

\* An end reads what has arrived.
LEMMA ReadGoes == ASSUME Relays, NEW d \in Ends, Read(d) PROVE Goes'
<1>0. /\ out \in [Ends -> Seq(Skb)] /\ got \in [Ends -> Seq(Nat)] /\ d \in alive /\ out[d] # <<>>
      /\ out' = [out EXCEPT ![d] = Tail(out[d])]
      /\ got' = [got EXCEPT ![d] = got[d] \o Head(out[d]).bytes]
      /\ UNCHANGED <<running, pc, cur, hand, anc, open, batch, status, alive, wrote, attached, in, cap>>
  BY DEF Relays, TypeOK, Read, tapvars
<1>1. /\ Head(out[d]).bytes \in Seq(Nat) /\ Tail(out[d]) \in Seq(Skb)
      /\ Bytes(out[d]) = Head(out[d]).bytes \o Bytes(Tail(out[d]))
  BY <1>0, QueueHead DEF Skb
<1>2. (got[d] \o Head(out[d]).bytes) \o Bytes(Tail(out[d])) = got[d] \o Bytes(out[d])
  <2>1. Bytes(Tail(out[d])) \in Seq(Nat) /\ got[d] \in Seq(Nat)
    BY <1>0, <1>1, QueueType
  <2>2. (got[d] \o Head(out[d]).bytes) \o Bytes(Tail(out[d]))
          = got[d] \o (Head(out[d]).bytes \o Bytes(Tail(out[d])))
    BY <1>1, <2>1, Joined, Zenon
  <2> QED BY <1>1, <2>2
<1>3. ASSUME NEW e \in Ends PROVE Flow(e)' /\ Outside(e)'
  <2>0. Flow(e) /\ Outside(e) /\ Other(e) \in Ends
    BY TwoEnds DEF Relays
  <2>1. Arrived(e)' = Arrived(e)
    <3>1. CASE Other(e) = d
      BY <1>0, <1>2, <3>1 DEF Arrived
    <3>2. CASE Other(e) # d
      BY <1>0, <2>0, <3>2 DEF Arrived
    <3> QED BY <3>1, <3>2
  <2>2. Steady(e)
    BY <1>0, <2>1 DEF Steady, Taken, Sending
  <2>3. Outside(e)'
    BY <1>0, <2>0 DEF Outside
  <2> QED BY <2>0, <2>2, <2>3, SteadyFlow
<1>4. Busy' /\ Waiting' /\ Owned'
  BY <1>0 DEF Relays, Busy, Waiting, Owned
<1> QED BY <1>3, <1>4 DEF Goes

\* An end closes: what it did not read is lost.
LEMMA CloseGoes == ASSUME Relays, NEW d \in Ends, Close(d) PROVE Goes'
<1>0. /\ out \in [Ends -> Seq(Skb)] /\ got \in [Ends -> Seq(Nat)] /\ d \in alive
      /\ out' = [out EXCEPT ![d] = <<>>] /\ alive' = alive \ {d}
      /\ UNCHANGED <<running, pc, cur, hand, anc, open, batch, status, wrote, attached, in, got, cap>>
  BY DEF Relays, TypeOK, Close, tapvars
<1>3. ASSUME NEW e \in Ends PROVE Flow(e)' /\ Outside(e)'
  <2>0. Flow(e) /\ Outside(e) /\ Other(e) \in Ends
    BY TwoEnds DEF Relays
  <2>1. /\ Taken(e)' = Taken(e) /\ Sending(e)' = Sending(e) /\ Kept(e)' = Kept(e)
        /\ Written(e)' = Written(e) /\ running' = running /\ status' = status /\ in' = in
    BY <1>0 DEF Taken, Sending, Kept, Written
  <2>2. Flow(e)'
    <3>1. CASE Other(e) = d
      <4>1. Arrived(e) = got[d] \o Bytes(out[d]) /\ Arrived(e)' = got[d] \o Bytes(<<>>)
        BY <1>0, <3>1 DEF Arrived
      <4>2. <<>> \in Seq(Skb) /\ out[d] \in Seq(Skb) /\ got[d] \in Seq(Nat)
        BY <1>0, EmptySeq
      <4>3. Bytes(<<>>) = <<>> /\ Bytes(out[d]) \in Seq(Nat)
        BY <4>2, QueueType
      <4>4. Arrived(e)' = got[d]
        BY <4>1, <4>2, <4>3, ConcatEmptySeq
      <4>5. Prefix(got[d], Arrived(e))
        BY <4>1, <4>2, <4>3, PrefixFacts
      <4>6. Prefix(got[d], Kept(e))
        <5>1. Prefix(Arrived(e), Kept(e)) /\ Arrived(e) \in Seq(Nat) /\ Kept(e) \in Seq(Nat)
          BY <2>0, FlowType DEF Flow, Flows, Relays
        <5> QED BY <4>2, <4>5, <5>1, PrefixFacts
      <4>7. Other(e) \notin alive'
        BY <1>0, <3>1
      <4> QED BY <2>0, <2>1, <4>4, <4>6, <4>7 DEF Flow, Flows
    <3>2. CASE Other(e) # d
      <4>1. Arrived(e)' = Arrived(e)
        BY <1>0, <2>0, <3>2 DEF Arrived
      <4>2. Steady(e)
        BY <1>0, <2>1, <3>2, <4>1 DEF Steady
      <4> QED BY <2>0, <4>2, SteadyFlow
    <3> QED BY <3>1, <3>2
  <2>3. Outside(e)'
    BY <1>0, <2>0 DEF Outside
  <2> QED BY <2>2, <2>3
<1>4. Busy' /\ Waiting' /\ Owned'
  BY <1>0 DEF Relays, Busy, Waiting, Owned
<1> QED BY <1>3, <1>4 DEF Goes

\* The relay receives.
LEMMA RecvGoes == ASSUME Relays, NEW d \in Ends, RecvMsg(d) PROVE Goes'
<1>0. /\ running /\ pc = "loop" /\ status[d[1]] = "open" /\ in[d] # <<>> /\ in[d] \in Seq(Skb)
      /\ hand' = Received(in[d]) /\ in' = [in EXCEPT ![d] = Left(in[d])]
      /\ cur' = d /\ pc' = "got" /\ in \in [Ends -> Seq(Skb)]
      /\ UNCHANGED <<running, status, alive, wrote, attached, got, out, cap>>
      /\ open' = open \cup ToSet(anc')
  BY RecvMsgIs DEF Relays, TypeOK
<1>1. /\ Received(in[d]) \in Seq(Nat) /\ Left(in[d]) \in Seq(Skb)
      /\ Received(in[d]) \o Bytes(Left(in[d])) = Bytes(in[d])
  BY <1>0, RecvSplits
<1>2. ASSUME NEW e \in Ends PROVE Flow(e)' /\ Outside(e)'
  <2>0. Flow(e) /\ Outside(e)
    BY DEF Relays
  <2>1. /\ Sending(e)' = <<>> /\ Sending(e) = <<>> /\ Taken(e) = <<>> /\ Kept(e)' = Kept(e)
        /\ Written(e)' = Written(e) /\ Arrived(e)' = Arrived(e)
    BY <1>0 DEF Sending, Taken, Kept, Written, Arrived
  <2>2. CASE e = d
    <3>1. Taken(e)' = Received(in[d]) /\ Bytes(in[e])' = Bytes(Left(in[d]))
      BY <1>0, <2>2 DEF Taken
    <3>2. Kept(e) \in Seq(Nat) /\ Bytes(Left(in[d])) \in Seq(Nat)
      BY <1>1, FlowType, QueueType DEF Relays
    <3>3. (Kept(e) \o Received(in[d])) \o Bytes(Left(in[d]))
            = Kept(e) \o (Received(in[d]) \o Bytes(Left(in[d])))
      BY <1>1, <3>2, Joined, Zenon
    <3>4. Kept(e) \o <<>> = Kept(e)
      BY <3>2, ConcatEmptySeq
    <3>5. (Kept(e) \o Taken(e)') \o Bytes(in[e])' = (Kept(e) \o Taken(e)) \o Bytes(in[e])
      BY <1>1, <2>1, <2>2, <3>1, <3>3, <3>4
    <3>6. running' = running /\ status' = status /\ alive' = alive
      BY <1>0
    <3>7. Flow(e)'
      BY <2>0, <2>1, <3>5, <3>6 DEF Flow, Flows
    <3>8. Outside(e)'
      BY <1>0, <2>0, <2>2 DEF Outside
    <3> QED BY <3>7, <3>8
  <2>3. CASE e # d
    <3>1. in'[e] = in[e] /\ Taken(e)' = <<>>
      BY <1>0, <2>3 DEF Taken
    <3>2. Steady(e)
      BY <1>0, <2>1, <3>1 DEF Steady
    <3>3. Outside(e)'
      BY <1>0, <2>0, <3>1 DEF Outside
    <3> QED BY <2>0, <3>2, <3>3, SteadyFlow
  <2> QED BY <2>2, <2>3
<1>3. Busy' /\ Waiting' /\ Owned'
  <2>1. batch' \subseteq batch
    BY DEF RecvMsg
  <2> QED BY <1>0, <2>1 DEF Relays, Busy, Waiting, Owned
<1> QED BY <1>2, <1>3 DEF Goes

\* It records what it received.
LEMMA CaptureGoes == ASSUME Relays, CaptureWrite PROVE Goes'
<1>0. /\ running /\ pc = "got" /\ pc' = "send" /\ cur \in Ends /\ status[cur[1]] = "open"
      /\ cap \in [Ends -> Seq(Seq(Nat))] /\ hand \in Seq(Nat)
      /\ cap' = [cap EXCEPT ![cur] = Append(cap[cur], hand)]
      /\ UNCHANGED <<running, cur, hand, anc, open, batch, status, alive, wrote, attached, in, out, got>>
  BY DEF Relays, TypeOK, Busy, CaptureWrite, Recorded, peervars
<1>1. ASSUME NEW e \in Ends PROVE Flow(e)' /\ Outside(e)'
  <2>0. Flow(e) /\ Outside(e)
    BY DEF Relays
  <2>1. Written(e)' = Written(e) /\ Arrived(e)' = Arrived(e) /\ Taken(e)' = <<>> /\ Sending(e) = <<>>
    BY <1>0 DEF Sending, Taken, Written, Arrived
  <2>2. CASE e = cur
    <3>1. Taken(e) = hand /\ Sending(e)' = hand
      BY <1>0, <2>2 DEF Taken, Sending
    <3>2. Kept(e)' = Kept(e) \o hand
      <4>1. Kept(e)' = FlattenSeq(Append(cap[e], hand))
        BY <1>0, <2>2 DEF Kept
      <4>2. cap[e] \in Seq(Seq(Nat))
        BY <1>0
      <4> QED BY <1>0, <4>1, <4>2, FlattenAppend DEF Kept
    <3>3. /\ Kept(e) \in Seq(Nat) /\ Arrived(e) \in Seq(Nat) /\ Bytes(in[e]) \in Seq(Nat)
          /\ Kept(e) \o hand \in Seq(Nat)
      BY <1>0, FlowType, ConcatProperties DEF Relays
    <3>4. (Kept(e) \o hand) \o <<>> = Kept(e) \o hand /\ Arrived(e) \o <<>> = Arrived(e)
      BY <3>3, ConcatEmptySeq
    <3>5. (Kept(e) \o hand) \o Bytes(in[e]) = Written(e)
      BY <1>0, <2>0, <2>2, <3>1 DEF Flow, Flows
    <3>6. Prefix(Kept(e) \o hand, Written(e))
      BY <3>3, <3>5 DEF Prefix
    <3>7. Prefix(Arrived(e), Kept(e) \o hand)
      <4>1. Prefix(Arrived(e), Kept(e)) /\ Prefix(Kept(e), Kept(e) \o hand)
        BY <1>0, <2>0, <3>3, PrefixFacts DEF Flow, Flows
      <4> QED BY <3>3, <4>1, PrefixFacts
    <3>8. /\ running' = running /\ status' = status /\ alive' = alive /\ Bytes(in[e])' = Bytes(in[e])
          /\ status[e[1]] = "open"
      BY <1>0, <2>2
    <3>9. Other(e) \in alive => Arrived(e) = Kept(e)
      BY <1>0, <2>0, <2>1, <3>4 DEF Flow, Flows
    <3>10. Flow(e)'
      BY <2>1, <3>1, <3>2, <3>4, <3>5, <3>6, <3>7, <3>8, <3>9 DEF Flow, Flows
    <3>11. Outside(e)'
      BY <1>0, <2>0, <2>2 DEF Outside
    <3> QED BY <3>10, <3>11
  <2>3. CASE e # cur
    <3>1. cap'[e] = cap[e] /\ Taken(e) = <<>> /\ Sending(e)' = <<>>
      BY <1>0, <2>3 DEF Taken, Sending
    <3>2. Steady(e)
      BY <1>0, <2>1, <3>1 DEF Steady
    <3>3. Outside(e)'
      BY <1>0, <2>0, <3>1 DEF Outside
    <3> QED BY <2>0, <3>2, <3>3, SteadyFlow
  <2> QED BY <2>2, <2>3
<1>2. Busy' /\ Waiting' /\ Owned'
  BY <1>0 DEF Relays, Busy, Waiting, Owned
<1> QED BY <1>1, <1>2 DEF Goes

\* It sends on what it recorded, or as much of it as the receiver's queue takes.
LEMMA SendGoes == ASSUME Relays, Send PROVE Goes'
<1> DEFINE to == Other(cur)
           n  == Smaller(Free(out[to]), Len(hand))
           x  == SubSeq(hand, 1, n)
           y  == SubSeq(hand, n + 1, Len(hand))
           w  == [bytes |-> x, fds |-> IF fresh THEN anc ELSE <<>>]
<1>0. /\ running /\ pc = "send" /\ cur \in Ends /\ status[cur[1]] = "open" /\ to \in alive
      /\ to \in Ends /\ to[1] = cur[1] /\ Other(to) = cur /\ hand \in Seq(Nat) /\ anc \in Seq(Fd)
      /\ out \in [Ends -> Seq(Skb)] /\ got \in [Ends -> Seq(Nat)] /\ n > 0
      /\ out' = [out EXCEPT ![to] = Append(out[to], w)] /\ hand' = y
      /\ UNCHANGED <<running, cur, batch, status, alive, wrote, attached, in, got, cap>>
  BY TwoEnds DEF Relays, TypeOK, Busy, Send, peervars
<1>1. IF n = Len(hand) THEN Done ELSE UNCHANGED <<pc, anc, open>>
  BY DEF Send
<1>2. n \in 0 .. Len(hand)
  <2>1. Bytes(out[to]) \in Seq(Nat)
    BY <1>0, QueueType
  <2>2. Free(out[to]) \in Int /\ Len(hand) \in Nat /\ n > 0
    BY <1>0, <2>1, Parameters DEF Free
  <2> QED BY <2>2 DEF Smaller
<1> HIDE DEF n
<1>3. x \in Seq(Nat) /\ y \in Seq(Nat) /\ x \o y = hand
  BY <1>0, <1>2, CutAt
<1>4. n = Len(hand) => y = <<>>
  <2>1. Len(hand) \in Nat /\ Len(hand) + 1 \in Int /\ Len(hand) < Len(hand) + 1
    BY <1>0
  <2> QED BY <2>1, SubSeqEmpty
<1>5. w \in Skb /\ w.bytes = x
  BY <1>0, <1>3, EmptySeq DEF Skb
<1> HIDE DEF x, y, w
<1>6. Bytes(Append(out[to], w)) = Bytes(out[to]) \o x
  BY <1>0, <1>5, QueueAppend
<1>7. ASSUME NEW e \in Ends PROVE Flow(e)' /\ Outside(e)'
  <2>0. Flow(e) /\ Outside(e) /\ Other(e) \in Ends /\ Other(Other(e)) = e
    BY TwoEnds DEF Relays
  <2>1. /\ Written(e)' = Written(e) /\ Kept(e)' = Kept(e) /\ Bytes(in[e])' = Bytes(in[e])
        /\ Taken(e) = <<>>
    BY <1>0 DEF Taken, Written, Kept
  <2>2. Taken(e)' = <<>>
    BY <1>0, <1>1 DEF Taken, Done
  <2>3. Outside(e)'
    <3>1. e = to => status[e[1]] = "open"
      BY <1>0
    <3>2. e # to => out'[e] = out[e]
      BY <1>0
    <3> QED BY <1>0, <2>0, <3>1, <3>2 DEF Outside
  <2>4. CASE e = cur
    <3>1. Sending(e) = hand
      BY <1>0, <2>4 DEF Sending
    <3>2. Sending(e)' = y
      BY <1>0, <1>1, <1>4, <2>4 DEF Sending, Done
    <3>3. Arrived(e)' = Arrived(e) \o x
      <4>1. Arrived(e)' = got[to] \o (Bytes(out[to]) \o x) /\ Arrived(e) = got[to] \o Bytes(out[to])
        BY <1>0, <1>6, <2>4 DEF Arrived
      <4>2. got[to] \in Seq(Nat) /\ Bytes(out[to]) \in Seq(Nat)
        BY <1>0, QueueType
      <4>3. (got[to] \o Bytes(out[to])) \o x = got[to] \o (Bytes(out[to]) \o x)
        BY <1>3, <4>2, Joined, Zenon
      <4> QED BY <4>1, <4>3
    <3>4. Arrived(e) \in Seq(Nat) /\ Arrived(e) \o x \in Seq(Nat) /\ Kept(e) \in Seq(Nat)
      BY <1>3, FlowType, ConcatProperties DEF Relays
    <3>5. (Arrived(e) \o x) \o y = Kept(e)
      <4>1. (Arrived(e) \o x) \o y = Arrived(e) \o (x \o y)
        <5>1. Arrived(e) \in Seq(Nat) /\ x \in Seq(Nat) /\ y \in Seq(Nat)
          BY <1>3, <3>4
        <5> QED BY <5>1, Joined, Zenon
      <4>2. Arrived(e) \o hand = Kept(e)
        BY <1>0, <2>0, <2>4, <3>1 DEF Flow, Flows
      <4> QED BY <1>3, <4>1, <4>2
    <3>6. Prefix(Arrived(e) \o x, Kept(e))
      BY <1>3, <3>5 DEF Prefix
    <3>7. Flow(e)'
      BY <1>0, <2>0, <2>1, <2>2, <3>2, <3>3, <3>5, <3>6 DEF Flow, Flows
    <3> QED BY <2>3, <3>7
  <2>5. CASE e # cur
    <3>1. Other(e) # to
      BY <1>0, <2>0, <2>5
    <3>2. Sending(e) = <<>> /\ Sending(e)' = <<>> /\ Arrived(e)' = Arrived(e)
      BY <1>0, <2>0, <2>5, <3>1 DEF Sending, Arrived
    <3>3. Steady(e)
      BY <1>0, <2>1, <2>2, <3>2 DEF Steady
    <3> QED BY <2>0, <2>3, <3>3, SteadyFlow
  <2> QED BY <2>4, <2>5
<1>8. Busy' /\ Waiting' /\ Owned'
  BY <1>0, <1>1 DEF Relays, Busy, Waiting, Owned, Done
<1> QED BY <1>7, <1>8 DEF Goes

\* It finds the receiver gone.
LEMMA SendFailsGoes == ASSUME Relays, SendFails PROVE Goes'
<1>0. /\ running /\ pc = "send" /\ cur \in Ends /\ Other(cur) \notin alive
      /\ hand' = <<>> /\ Done
      /\ UNCHANGED <<running, cur, batch, status, alive, wrote, attached, in, out, got, cap>>
  BY DEF Relays, Busy, SendFails, peervars
<1>1. ASSUME NEW e \in Ends PROVE Flow(e)' /\ Outside(e)'
  <2>0. Flow(e) /\ Outside(e)
    BY DEF Relays
  <2>1. /\ Written(e)' = Written(e) /\ Kept(e)' = Kept(e) /\ Bytes(in[e])' = Bytes(in[e])
        /\ Taken(e) = <<>> /\ Taken(e)' = <<>> /\ Arrived(e)' = Arrived(e)
    BY <1>0 DEF Taken, Written, Kept, Arrived, Done
  <2>2. Outside(e)'
    BY <1>0, <2>0 DEF Outside
  <2>3. Other(e) \in alive => Sending(e)' = Sending(e)
    BY <1>0 DEF Sending, Done
  <2>4. running' = running /\ status' = status /\ alive' = alive
    BY <1>0
  <2>5. Flow(e)'
    BY <2>0, <2>1, <2>3, <2>4 DEF Flow, Flows
  <2> QED BY <2>2, <2>5
<1>2. Busy' /\ Waiting' /\ Owned'
  BY <1>0 DEF Relays, Busy, Waiting, Owned, Done
<1> QED BY <1>1, <1>2 DEF Goes

\* It is interrupted: what it had in hand is lost, nothing is out of order.
LEMMA InterruptGoes == ASSUME Relays, Interrupt PROVE Goes'
<1>0. /\ running' = FALSE /\ batch' = {} /\ pc' = "loop" /\ open' = {}
      /\ status' = [c \in Conns |-> IF status[c] = "new" THEN "new" ELSE "closed"]
      /\ in' = [e \in Ends |-> <<>>]
      /\ UNCHANGED <<alive, wrote, attached, out, got, cap>>
  BY DEF Interrupt, peervars
<1>1. ASSUME NEW e \in Ends PROVE Flow(e)' /\ Outside(e)'
  <2>0. Flow(e) /\ Outside(e) /\ e[1] \in Conns
    BY TwoEnds DEF Relays
  <2>1. Written(e)' = Written(e) /\ Kept(e)' = Kept(e) /\ Arrived(e)' = Arrived(e)
    BY <1>0 DEF Written, Kept, Arrived
  <2>2. Flow(e)'
    BY <1>0, <2>0, <2>1 DEF Flow, Flows
  <2>3. Outside(e)'
    BY <1>0, <2>0 DEF Outside
  <2> QED BY <2>2, <2>3
<1>2. Busy' /\ Waiting' /\ Owned'
  BY <1>0 DEF Relays, Busy, Waiting, Owned
<1> QED BY <1>1, <1>2 DEF Goes

\* Every step of the relay and of its peers keeps it.
LEMMA RelaysNext == Relays /\ [Next]_vars => Relays'
<1> SUFFICES ASSUME Relays, [Next]_vars PROVE Relays'
  OBVIOUS
<1>1. TypeOK'
  BY TypeNext DEF Relays
<1>2. Goes'
  <2>2. CASE \E c \in Conns : Connect(c) \/ Accept(c)
    BY <2>2, ConnectGoes, AcceptGoes
  <2>3. CASE \E e \in DOMAIN limit : \E n \in 1 .. limit[e], k \in 0 .. MaxFds : Write(e, n, k)
    <3>1. PICK e \in DOMAIN limit : \E n \in 1 .. limit[e], k \in 0 .. MaxFds : Write(e, n, k)
      BY <2>3
    <3>2. PICK n \in 1 .. limit[e], k \in 0 .. MaxFds : Write(e, n, k)
      BY <3>1
    <3>3. e \in Ends /\ n \in Nat /\ k \in Nat
      BY <3>1, <3>2, TapConstants DEF Relays, TypeOK
    <3> QED BY <3>2, <3>3, WriteGoes
  <2>4. CASE \E e \in Ends : Read(e) \/ Close(e) \/ RecvMsg(e) \/ Eof(e)
    BY <2>4, ReadGoes, CloseGoes, RecvGoes, EofGoes
  <2>5. CASE Select \/ (\E e \in Ends : Stale(e)) \/ UNCHANGED vars
    BY <2>5, SelectGoes
  <2>6. CASE CaptureWrite \/ Send \/ SendFails \/ Interrupt
    BY <2>6, CaptureGoes, SendGoes, SendFailsGoes, InterruptGoes
  <2> QED BY <2>2, <2>3, <2>4, <2>5, <2>6 DEF Next, Relay, Peers
<1> QED BY <1>1, <1>2 DEF Goes, Relays

\* It holds in every state the relay reaches.
LEMMA RelaysAlways == Spec => []Relays
  BY RelaysInit, RelaysNext, PTL DEF Spec

-----------------------------------------------------------------------------
(* What it says *)

\* What the capture has and what arrived are written, and nothing is missing.
LEMMA RelaysTransparent == Relays => Transparent /\ RecordedFirst
<1> SUFFICES ASSUME Relays, NEW e \in Ends
             PROVE  /\ IsPrefix(Arrived(e), Written(e))
                    /\ running /\ Other(e) \in alive
                         => Arrived(e) \o InHand(e) \o Bytes(in[e]) = Written(e)
                    /\ IsPrefix(Arrived(e), FlattenSeq(cap[e]))
                    /\ IsPrefix(FlattenSeq(cap[e]), Written(e))
  BY DEF Transparent, RecordedFirst
<1>0. Flow(e) /\ Outside(e) /\ TypeOK /\ Busy /\ e[1] \in Conns /\ in[e] \in Seq(Skb)
  BY TwoEnds DEF Relays, TypeOK
<1>1. /\ Kept(e) \in Seq(Nat) /\ Taken(e) \in Seq(Nat) /\ Bytes(in[e]) \in Seq(Nat)
      /\ Arrived(e) \in Seq(Nat) /\ Sending(e) \in Seq(Nat) /\ Written(e) \in Seq(Nat)
  BY <1>0, FlowType
<1>2. Prefix(Arrived(e), Kept(e)) /\ Prefix(Kept(e), Written(e))
  BY <1>0 DEF Flow, Flows
<1>3. /\ IsPrefix(Arrived(e), Kept(e)) /\ IsPrefix(Kept(e), Written(e))
      /\ IsPrefix(Arrived(e), Written(e))
  BY <1>1, <1>2, PrefixFacts
<1>4. ASSUME running, Other(e) \in alive
      PROVE  Arrived(e) \o InHand(e) \o Bytes(in[e]) = Written(e)
  <2>1. Arrived(e) \o Sending(e) = Kept(e)
    BY <1>0, <1>4 DEF Flow, Flows
  <2>2. Arrived(e) \o InHand(e) = Kept(e) \o Taken(e)
    <3>1. CASE pc = "got" /\ cur = e
      <4>1. Sending(e) = <<>> /\ Taken(e) = InHand(e)
        BY <3>1 DEF Sending, Taken, InHand
      <4>2. Arrived(e) \o <<>> = Arrived(e)
        BY <1>1, ConcatEmptySeq
      <4> QED BY <2>1, <4>1, <4>2
    <3>2. CASE ~(pc = "got" /\ cur = e)
      <4>1. Taken(e) = <<>> /\ Sending(e) = InHand(e)
        BY <1>0, <3>2 DEF Sending, Taken, InHand, TypeOK
      <4>2. Kept(e) \o <<>> = Kept(e)
        BY <1>1, ConcatEmptySeq
      <4> QED BY <2>1, <4>1, <4>2
    <3> QED BY <3>1, <3>2
  <2>3. CASE status[e[1]] # "closed"
    BY <1>0, <1>4, <2>2, <2>3 DEF Flow, Flows
  <2>4. CASE status[e[1]] = "closed"
    <3>1. Bytes(in[e]) = <<>>
      BY <1>0, <2>4, QueueType DEF Outside
    <3>2. Taken(e) = <<>>
      BY <1>0, <2>4 DEF Busy, Taken
    <3>3. Kept(e) = Written(e)
      BY <1>0, <1>4, <2>4 DEF Flow, Flows
    <3>4. (Kept(e) \o <<>>) \o <<>> = Kept(e)
      BY <1>1, ConcatEmptySeq
    <3> QED BY <2>2, <3>1, <3>2, <3>3, <3>4
  <2> QED BY <2>3, <2>4
<1> QED BY <1>3, <1>4 DEF Kept

(* The relay is transparent for every number of connections, every plan of  *)
(* who writes how much and every size of the kernel's queues and of         *)
(* recvmsg's buffer (dbus_tap.py, relay()): what arrives at an end is a     *)
(* prefix of what the other wrote, and while the receiver is there nothing  *)
(* is missing between the two.                                              *)
THEOREM RelayIsTransparent == Spec => []Transparent
<1>1. Relays => Transparent
  BY RelaysTransparent
<1> QED BY <1>1, RelaysAlways, PTL

(* Capture.write runs before the send (dbus_tap.py, relay()): the capture   *)
(* has all that has been sent on, in order, whenever the relay is stopped.  *)
THEOREM RecordedBeforeSent == Spec => []RecordedFirst
<1>1. Relays => RecordedFirst
  BY RelaysTransparent
<1> QED BY <1>1, RelaysAlways, PTL

(* Whatever becomes of a call of recvmsg and of the send after it, the      *)
(* relay's copies of the descriptors are closed before the next event.      *)
THEOREM NothingLeaks == Spec => []NoLeak
<1>1. Relays => NoLeak
  BY DEF Relays, Owned, NoLeak
<1> QED BY <1>1, RelaysAlways, PTL

-----------------------------------------------------------------------------
(* Where a descriptor is *)

\* The elements of two lists are those of both.
LEMMA BothSets ==
  ASSUME NEW S, NEW a \in Seq(S), NEW b \in Seq(S)
  PROVE  ToSet(a \o b) = ToSet(a) \cup ToSet(b)
<1>1. /\ a \o b \in Seq(S) /\ Len(a \o b) = Len(a) + Len(b)
      /\ \A i \in 1 .. Len(a) + Len(b) : (a \o b)[i] = IF i <= Len(a) THEN a[i] ELSE b[i - Len(a)]
  BY ConcatProperties
<1>2. Len(a) \in Nat /\ Len(b) \in Nat /\ DOMAIN a = 1 .. Len(a) /\ DOMAIN b = 1 .. Len(b)
  OBVIOUS
<1> DEFINE c == a \o b
<1>3. DOMAIN c = 1 .. Len(a) + Len(b)
  BY <1>1
<1>4. \A i \in 1 .. Len(a) + Len(b) : c[i] = IF i <= Len(a) THEN a[i] ELSE b[i - Len(a)]
  BY <1>1
<1> HIDE DEF c
<1>5. ASSUME NEW x \in ToSet(c) PROVE x \in ToSet(a) \cup ToSet(b)
  <2>1. PICK i \in 1 .. Len(a) + Len(b) : x = c[i]
    BY <1>3, <1>5 DEF ToSet
  <2>2. i <= Len(a) => i \in DOMAIN a /\ x = a[i]
    BY <1>2, <1>4, <2>1
  <2>3. ~(i <= Len(a)) => i - Len(a) \in DOMAIN b /\ x = b[i - Len(a)]
    BY <1>2, <1>4, <2>1
  <2> QED BY <2>2, <2>3 DEF ToSet
<1>6. ASSUME NEW x \in ToSet(a) PROVE x \in ToSet(c)
  <2>1. PICK i \in 1 .. Len(a) : x = a[i]
    BY <1>2, <1>6 DEF ToSet
  <2>2. i \in DOMAIN c /\ c[i] = x
    BY <1>2, <1>3, <1>4, <2>1
  <2> QED BY <2>2 DEF ToSet
<1>7. ASSUME NEW x \in ToSet(b) PROVE x \in ToSet(c)
  <2>1. PICK i \in 1 .. Len(b) : x = b[i]
    BY <1>2, <1>7 DEF ToSet
  <2>2. Len(a) + i \in 1 .. Len(a) + Len(b) /\ ~(Len(a) + i <= Len(a)) /\ (Len(a) + i) - Len(a) = i
    BY <1>2
  <2>3. Len(a) + i \in DOMAIN c /\ c[Len(a) + i] = x
    BY <1>3, <1>4, <2>1, <2>2
  <2> QED BY <2>3 DEF ToSet
<1> QED BY <1>5, <1>6, <1>7 DEF c

\* A descriptor of a queue came with one of its writes.
LEMMA FdIsOnes ==
  ASSUME NEW q \in Seq(Skb), NEW f \in ToSet(Fds(q))
  PROVE  \E i \in 1 .. Len(q) : f \in ToSet(q[i].fds)
<1> DEFINE Upto(n) == f \in ToSet(Fds(SubSeq(q, 1, n)))
           T == {n \in 0 .. Len(q) : Upto(n)}
<1>0. Len(q) \in Nat /\ SubSeq(q, 1, Len(q)) = q /\ \A i \in 1 .. Len(q) : q[i] \in Skb
  BY SubSeqFull
<1>1. PICK n \in T : \A i \in T : n <= i
  <2>1. Upto(Len(q))
    BY <1>0
  <2> HIDE DEF Upto
  <2>2. T \in SUBSET Nat /\ Len(q) \in T
    BY <1>0, <2>1
  <2> HIDE DEF T
  <2> QED BY <2>2, LeastNat
<1>2. n \in 0 .. Len(q) /\ f \in ToSet(Fds(SubSeq(q, 1, n)))
  BY <1>1
<1>3. n # 0
  <2>1. SubSeq(q, 1, 0) = <<>> /\ <<>> \in Seq(Skb)
    BY SubSeqEmpty, EmptySeq
  <2>2. Fds(<<>>) = <<>>
    BY <2>1, QueueType
  <2>3. ToSet(<<>>) = {}
    BY DEF ToSet
  <2> QED BY <1>2, <2>1, <2>2, <2>3
<1>4. n \in 1 .. Len(q) /\ n - 1 \in 0 .. Len(q) /\ n - 1 \notin T
  <2>1. n \in 1 .. Len(q) /\ n - 1 \in 0 .. Len(q) /\ ~(n <= n - 1)
    BY <1>0, <1>2, <1>3
  <2> HIDE DEF T
  <2> QED BY <1>1, <2>1
<1> HIDE DEF Upto
<1> DEFINE p == SubSeq(q, 1, n - 1)
<1>5. SubSeq(q, 1, n) = Append(p, q[n]) /\ p \in Seq(Skb) /\ q[n] \in Skb
  <2>1. p \in Seq(Skb)
    BY <1>4, QueueSplit
  <2>2. SubSeq(q, 1, n) = Append(p, q[n])
    <3>1. 1 \in 1 .. Len(q) /\ n \in 1 .. Len(q)
      BY <1>0, <1>4
    <3>2. SubSeq(q, 1, n) = p \o <<q[n]>>
      BY <3>1, SubSeqRecursiveSecond
    <3> QED BY <2>1, <3>1, <3>2, <1>0, AppendIsConcat
  <2> QED BY <1>0, <1>4, <2>1, <2>2
<1>6. f \notin ToSet(Fds(p))
  BY <1>4 DEF Upto
<1> HIDE DEF p, T
<1>7. Fds(SubSeq(q, 1, n)) = Fds(p) \o q[n].fds
  BY <1>5, QueueAppend
<1>8. Fds(p) \in Seq(Fd) /\ q[n].fds \in Seq(Fd)
  BY <1>5, QueueType DEF Skb
<1>9. f \in ToSet(q[n].fds)
  <2> DEFINE u == Fds(p)
             v == q[n].fds
  <2>1. u \in Seq(Fd) /\ v \in Seq(Fd) /\ f \in ToSet(u \o v) /\ f \notin ToSet(u)
    BY <1>2, <1>6, <1>7, <1>8
  <2> HIDE DEF u, v
  <2>2. f \in ToSet(v)
    BY <2>1, BothSets
  <2> QED BY <2>2 DEF v
<1> QED BY <1>4, <1>9

\* Where the first byte of a write is in its queue.
LEMMA FirstByte ==
  ASSUME NEW q \in Seq(Skb), NEW i \in 1 .. Len(q), q[i].bytes # <<>>,
         NEW m, m = Len(Bytes(SubSeq(q, 1, i - 1)))
  PROVE  m \in Nat /\ m + 1 \in 1 .. Len(Bytes(q)) /\ Bytes(q)[m + 1] = q[i].bytes[1]
<1> DEFINE p == SubSeq(q, 1, i - 1)
           r == SubSeq(q, i, Len(q))
<1>0. Len(q) \in Nat /\ i \in 1 .. Len(q) /\ q[i] \in Skb /\ i - 1 \in 0 .. Len(q) /\ (i - 1) + 1 = i
  OBVIOUS
<1>1. p \in Seq(Skb) /\ r \in Seq(Skb) /\ Bytes(q) = Bytes(p) \o Bytes(r)
  BY <1>0, QueueSplit
<1>2. r # <<>> /\ Head(r) = q[i]
  <2>1. r \in Seq(Skb) /\ Len(r) = Len(q) - i + 1 /\ \A j \in 1 .. Len(r) : r[j] = q[i + j - 1]
    BY <1>0
  <2> HIDE DEF r
  <2>2. Len(r) # 0 /\ 1 \in 1 .. Len(r) /\ r[1] = q[i]
    <3>1. i + 1 - 1 = i /\ Len(r) \in Nat /\ Len(r) # 0
      BY <1>0, <2>1
    <3>2. 1 \in 1 .. Len(r)
      BY <3>1
    <3> QED BY <2>1, <3>1, <3>2
  <2> QED BY <2>1, <2>2, HeadTailProperties, EmptySeq
<1> HIDE DEF p, r
<1>3. /\ Bytes(r) = q[i].bytes \o Bytes(Tail(r)) /\ Tail(r) \in Seq(Skb)
      /\ q[i].bytes \in Seq(Nat)
  BY <1>0, <1>1, <1>2, QueueHead DEF Skb
<1> DEFINE a == Bytes(p)
           b == q[i].bytes
           c == Bytes(Tail(r))
<1>4. a \in Seq(Nat) /\ b \in Seq(Nat) /\ c \in Seq(Nat) /\ b # <<>>
  BY <1>1, <1>3, QueueType
<1>5. Bytes(q) = a \o (b \o c) /\ m = Len(a)
  BY <1>1, <1>3 DEF p
<1> HIDE DEF a, b, c
<1>6. Len(a) \in Nat /\ Len(b) \in Nat /\ Len(b) # 0 /\ Len(c) \in Nat
  BY <1>4, EmptySeq
<1>7. b \o c \in Seq(Nat) /\ Len(b \o c) = Len(b) + Len(c) /\ (b \o c)[1] = b[1]
  BY <1>4, <1>6, ConcatProperties
<1> DEFINE d == b \o c
<1>8. d \in Seq(Nat) /\ Len(d) \in Nat /\ Len(d) # 0 /\ d[1] = b[1]
  BY <1>6, <1>7
<1> HIDE DEF d
<1>9. /\ Len(a \o d) = Len(a) + Len(d)
      /\ \A j \in 1 .. Len(a) + Len(d) : (a \o d)[j] = IF j <= Len(a) THEN a[j] ELSE d[j - Len(a)]
  BY <1>4, <1>8, ConcatProperties
<1>10. Len(a) + 1 \in 1 .. Len(a) + Len(d) /\ ~(Len(a) + 1 <= Len(a)) /\ (Len(a) + 1) - Len(a) = 1
  BY <1>6, <1>8
<1>11. (a \o d)[Len(a) + 1] = d[1]
  BY <1>9, <1>10
<1>12. Bytes(q) = a \o d
  BY <1>5 DEF d
<1>13. q[i].bytes[1] = b[1]
  BY DEF b
<1> QED BY <1>5, <1>6, <1>8, <1>9, <1>10, <1>11, <1>12, <1>13

\* A descriptor is known by the first byte of the write it came with.
Named(q) ==
  \A i \in 1 .. Len(q) : \A f \in ToSet(q[i].fds) :
    q[i].bytes # <<>> /\ f[1] = q[i].bytes[1]

\* That byte is in the queue with it.
LEMMA NamedIn ==
  ASSUME NEW q \in Seq(Skb), Named(q), NEW f \in ToSet(Fds(q))
  PROVE  f[1] \in ToSet(Bytes(q))
<1>1. PICK i \in 1 .. Len(q) : f \in ToSet(q[i].fds)
  BY FdIsOnes
<1>2. q[i].bytes # <<>> /\ f[1] = q[i].bytes[1]
  BY <1>1 DEF Named
<1> DEFINE m == Len(Bytes(SubSeq(q, 1, i - 1)))
<1>3. m + 1 \in 1 .. Len(Bytes(q)) /\ Bytes(q)[m + 1] = f[1]
  BY <1>2, FirstByte
<1>4. Bytes(q) \in Seq(Nat)
  BY QueueType
<1> QED BY <1>3, <1>4 DEF ToSet

\* And it is received with it.
LEMMA NamedReceived ==
  ASSUME NEW q \in Seq(Skb), q # <<>>, Named(q), NEW f \in ToSet(TookFds(q))
  PROVE  f[1] \in ToSet(Received(q))
<1> DEFINE n == Gathered(q)
           a == SubSeq(q, 1, n)
           t == Bytes(a)
<1>0. /\ n \in 1 .. Len(q) /\ Len(q) \in Nat
      /\ \A i \in 1 .. n - 1 : q[i].fds = <<>> /\ Len(Bytes(SubSeq(q, 1, i))) < RecvMax
  BY GatheredIs
<1>1. TookFds(q) = Fds(a) /\ Received(q) = SubSeq(t, 1, Smaller(RecvMax, Len(t)))
  BY DEF Took, TookFds, Received
<1> HIDE DEF n
<1>2. a \in Seq(Skb) /\ Len(a) = n /\ \A i \in 1 .. n : a[i] = q[i]
  BY <1>0, CutAt
<1>3. \A i \in 0 .. n : SubSeq(a, 1, i) = SubSeq(q, 1, i)
  BY <1>0
<1> HIDE DEF a
<1>4. PICK i \in 1 .. n : f \in ToSet(a[i].fds)
  BY <1>1, <1>2, FdIsOnes
<1>5. i = n
  <2>1. f \in ToSet(q[i].fds)
    BY <1>2, <1>4
  <2>2. q[i].fds # <<>>
    BY <2>1 DEF ToSet
  <2> QED BY <1>0, <1>4, <2>2
<1>6. a[i].bytes # <<>> /\ f[1] = a[i].bytes[1]
  <2>1. i \in 1 .. Len(q) /\ a[i] = q[i]
    BY <1>0, <1>2, <1>4
  <2>2. f \in ToSet(q[i].fds)
    BY <1>4, <2>1
  <2>3. q[i].bytes # <<>> /\ f[1] = q[i].bytes[1]
    BY <2>1, <2>2 DEF Named
  <2> QED BY <2>1, <2>3
<1> DEFINE m == Len(Bytes(SubSeq(a, 1, i - 1)))
<1>7. m \in Nat /\ m + 1 \in 1 .. Len(t) /\ t[m + 1] = f[1]
  BY <1>2, <1>4, <1>6, FirstByte
<1>8. m + 1 <= RecvMax
  <2>1. CASE n = 1
    <3>1. SubSeq(a, 1, 0) = <<>> /\ <<>> \in Seq(Skb)
      BY SubSeqEmpty, EmptySeq
    <3>2. Bytes(<<>>) = <<>>
      BY <3>1, QueueType
    <3>0. i - 1 = 0
      BY <1>5, <2>1
    <3>3. m = 0
      <4>1. Bytes(SubSeq(a, 1, i - 1)) = <<>>
        BY <3>0, <3>1, <3>2
      <4> QED BY <4>1
    <3> QED BY <3>3, Parameters
  <2>2. CASE n # 1
    <3>1. n - 1 \in 1 .. n - 1 /\ n - 1 \in 0 .. n
      BY <1>0, <2>2
    <3>2. Len(Bytes(SubSeq(q, 1, n - 1))) < RecvMax
      BY <1>0, <3>1
    <3>3. m < RecvMax
      BY <1>3, <1>5, <3>1, <3>2
    <3> HIDE DEF m
    <3> QED BY <1>7, <3>3, Parameters
  <2> QED BY <2>1, <2>2
<1> HIDE DEF m
<1>9. t \in Seq(Nat)
  BY <1>2, QueueType
<1> HIDE DEF t
<1> DEFINE k == Smaller(RecvMax, Len(t))
<1>10. k \in 0 .. Len(t) /\ m + 1 \in 1 .. k
  BY <1>7, <1>8, <1>9, Parameters DEF Smaller
<1> HIDE DEF k
<1>11. /\ SubSeq(t, 1, k) \in Seq(Nat) /\ Len(SubSeq(t, 1, k)) = k
       /\ \A j \in 1 .. k : SubSeq(t, 1, k)[j] = t[j]
  BY <1>9, <1>10, CutAt
<1>12. m + 1 \in DOMAIN SubSeq(t, 1, k) /\ SubSeq(t, 1, k)[m + 1] = f[1]
  BY <1>7, <1>10, <1>11
<1> QED BY <1>1, <1>12 DEF ToSet, k

\* What is left of a queue still says which byte each descriptor came with.
LEMMA NamedLeft ==
  ASSUME NEW q \in Seq(Skb), q # <<>>, Named(q)
  PROVE  Named(Left(q))
<1> DEFINE n == Gathered(q)
           r == SubSeq(q, n + 1, Len(q))
           b == Back(q)
<1>0. n \in 1 .. Len(q) /\ Len(q) \in Nat /\ n \in 0 .. Len(q)
  BY GatheredIs
<1>1. Left(q) = b \o r
  BY DEF Left
<1> HIDE DEF n
<1>2. r \in Seq(Skb) /\ Len(r) = Len(q) - n /\ \A i \in 1 .. Len(r) : r[i] = q[n + i]
  BY <1>0
<1>3. b = <<>> \/ (Len(b) = 1 /\ b[1].fds = <<>> /\ DOMAIN b = {1})
  BY DEF Back
<1>4. b = <<>> \/ b = <<[bytes |-> Rest(q), fds |-> <<>>]>>
  BY DEF Back
<1> HIDE DEF b, r
<1>5. Named(r)
  <2> SUFFICES ASSUME NEW i \in 1 .. Len(r) PROVE \A f \in ToSet(r[i].fds) : r[i].bytes # <<>> /\ f[1] = r[i].bytes[1]
    BY DEF Named
  <2>1. n + i \in 1 .. Len(q) /\ r[i] = q[n + i]
    BY <1>0, <1>2
  <2> QED BY <2>1 DEF Named
<1>6. CASE b = <<>>
  BY <1>1, <1>2, <1>5, <1>6, ConcatEmptySeq
<1>7. CASE b # <<>>
  <2> DEFINE w == [bytes |-> Rest(q), fds |-> <<>>]
  <2>1. b = <<w>> /\ w.fds = <<>>
    BY <1>4, <1>7
  <2> HIDE DEF w
  <2>2. Len(<<w>> \o r) = 1 + Len(r) /\ \A i \in 1 .. 1 + Len(r) : (<<w>> \o r)[i] = IF i = 1 THEN w ELSE r[i - 1]
    BY <1>2
  <2> SUFFICES ASSUME NEW i \in 1 .. 1 + Len(r), NEW f \in ToSet((<<w>> \o r)[i].fds)
               PROVE  (<<w>> \o r)[i].bytes # <<>> /\ f[1] = (<<w>> \o r)[i].bytes[1]
    BY <1>1, <2>1, <2>2 DEF Named
  <2>3. i # 1
    BY <2>1, <2>2 DEF ToSet
  <2>4. i - 1 \in 1 .. Len(r) /\ (<<w>> \o r)[i] = r[i - 1]
    BY <1>2, <2>2, <2>3
  <2> QED BY <1>5, <2>4 DEF Named
<1> QED BY <1>6, <1>7

-----------------------------------------------------------------------------
(* What becomes of a descriptor: until the relay drops some and says so it  *)
(* has reached the receiver, is in the relay's hand or waits.               *)

Reached(e, f) == (\E r \in gotfds[Other(e)] : r.fd = f) \/ f \in ToSet(Fds(out[Other(e)]))
Held(e, f)    == pc # "loop" /\ cur = e /\ fresh /\ f \in ToSet(anc)
Queued(e, f)  == f \in ToSet(Fds(in[e]))

\* The receiver is there or may still come.
Expects(e) == Other(e) \in alive \/ status[e[1]] \in {"new", "pending"}

Attended(e) ==
  running /\ Expects(e) /\ e \notin warned
    => \A f \in attached[e] : Reached(e, f) \/ Held(e, f) \/ Queued(e, f)

\* What NoSilentLoss says of the descriptors of one end.
Lossless(e) ==
  \A f \in attached[e] :
    Other(e) \in alive /\ e \notin warned /\ f[1] \in ToSet(Arrived(e)) => Reached(e, f)

\* The byte that the descriptors in hand came with is in hand with them.
Carried == pc # "loop" /\ fresh => \A f \in ToSet(anc) : f[1] \in ToSet(hand)

\* Once the relay is stopped no connection is pending or open.
Stopped == running \/ \A c \in Conns : status[c] \in {"new", "closed"}

Follows ==
  /\ Carried /\ Stopped
  /\ \A e \in Ends : Named(in[e]) /\ Attended(e) /\ (~running => Lossless(e))

\* Nothing is both before and after a point of a count.
LEMMA Apart ==
  ASSUME NEW x \in Seq(Nat), NEW y \in Seq(Nat), NEW m \in Nat,
         x \o y = [i \in 1 .. m |-> i], NEW v \in ToSet(x), v \in ToSet(y)
  PROVE  FALSE
<1>1. /\ Len(x \o y) = Len(x) + Len(y)
      /\ \A i \in 1 .. Len(x) + Len(y) : (x \o y)[i] = IF i <= Len(x) THEN x[i] ELSE y[i - Len(x)]
  BY JoinedAt, Zenon
<1>2. Len(x) \in Nat /\ Len(y) \in Nat /\ DOMAIN x = 1 .. Len(x) /\ DOMAIN y = 1 .. Len(y)
  OBVIOUS
<1>3. PICK i \in 1 .. Len(x) : v = x[i]
  BY <1>2 DEF ToSet
<1>4. PICK j \in 1 .. Len(y) : v = y[j]
  BY <1>2 DEF ToSet
<1> DEFINE w == [l \in 1 .. m |-> l]
<1>5. Len(w) = m /\ \A l \in 1 .. m : w[l] = l
  OBVIOUS
<1>6. x \o y = w
  OBVIOUS
<1> HIDE DEF w
<1>7. m = Len(x) + Len(y)
  BY <1>1, <1>5, <1>6
<1>8. w[i] = x[i] /\ i \in 1 .. m
  <2>1. i \in 1 .. Len(x) + Len(y) /\ i <= Len(x)
    BY <1>2
  <2> QED BY <1>1, <1>6, <1>7, <2>1
<1>9. w[Len(x) + j] = y[j] /\ Len(x) + j \in 1 .. m
  <2>1. Len(x) + j \in 1 .. Len(x) + Len(y) /\ ~(Len(x) + j <= Len(x)) /\ (Len(x) + j) - Len(x) = j
    BY <1>2
  <2> QED BY <1>1, <1>6, <1>7, <2>1
<1>10. i = Len(x) + j
  BY <1>3, <1>4, <1>5, <1>8, <1>9
<1> QED BY <1>2, <1>10

\* While the relay runs, what came with a byte that has arrived has reached the receiver.
LEMMA AttendedLossless ==
  ASSUME Relays, Follows, running, NEW e \in Ends
  PROVE  Lossless(e)
<1> SUFFICES ASSUME NEW f \in attached[e], Other(e) \in alive, e \notin warned,
                    f[1] \in ToSet(Arrived(e)), ~Reached(e, f)
             PROVE  FALSE
  BY DEF Lossless
<1> DEFINE a == Arrived(e)
           h == InHand(e)
           i == Bytes(in[e])
<1>1. a \in Seq(Nat) /\ h \in Seq(Nat) /\ i \in Seq(Nat) /\ wrote[e] \in Nat /\ in[e] \in Seq(Skb)
  <2>1. h \in Seq(Nat)
    BY EmptySeq DEF Relays, TypeOK, InHand
  <2> QED BY <2>1, FlowType DEF Relays, TypeOK
<1>2. (a \o h) \o i = [j \in 1 .. wrote[e] |-> j]
  <2>1. Transparent
    BY RelaysTransparent
  <2> QED BY <2>1 DEF Transparent, Written
<1>3. Held(e, f) \/ Queued(e, f)
  BY DEF Follows, Attended, Expects
<1>4. Held(e, f) => f[1] \in ToSet(h)
  BY DEF Follows, Carried, Held, InHand
<1>5. Queued(e, f) => f[1] \in ToSet(i)
  BY <1>1, NamedIn DEF Follows, Queued
<1> HIDE DEF a, h, i
<1>6. f[1] \in ToSet(a)
  BY DEF a
<1>7. CASE f[1] \in ToSet(h)
  <2>1. h \o i \in Seq(Nat) /\ ToSet(h \o i) = ToSet(h) \cup ToSet(i)
    BY <1>1, BothSets, ConcatProperties
  <2>2. a \o (h \o i) = (a \o h) \o i
    BY <1>1, Joined, Zenon
  <2> DEFINE y == h \o i
  <2>3. y \in Seq(Nat) /\ f[1] \in ToSet(y) /\ a \o y = [j \in 1 .. wrote[e] |-> j]
    BY <1>2, <1>7, <2>1, <2>2
  <2> HIDE DEF y
  <2> QED BY <1>1, <1>6, <2>3, Apart
<1>8. CASE f[1] \in ToSet(i)
  <2> DEFINE x == a \o h
  <2>1. x \in Seq(Nat) /\ ToSet(x) = ToSet(a) \cup ToSet(h)
    BY <1>1, BothSets, ConcatProperties
  <2>2. f[1] \in ToSet(x) /\ x \o i = [j \in 1 .. wrote[e] |-> j]
    BY <1>2, <1>6, <2>1
  <2> HIDE DEF x
  <2> QED BY <1>1, <1>8, <2>1, <2>2, Apart
<1> QED BY <1>3, <1>4, <1>5, <1>7, <1>8

\* An end whose descriptors a step has nothing to do with.
Aside(e) ==
  /\ running' = running /\ in'[e] = in[e] /\ attached'[e] = attached[e]
  /\ gotfds'[Other(e)] = gotfds[Other(e)] /\ out'[Other(e)] = out[Other(e)]
  /\ got'[Other(e)] = got[Other(e)]
  /\ e \in warned => e \in warned'
  /\ Expects(e)' => Expects(e)
  /\ ~running /\ Other(e) \in alive' => Other(e) \in alive
  /\ \A f : Held(e, f) => Held(e, f)'

\* They are where they were.
LEMMA AsideKeeps ==
  ASSUME NEW e \in Ends, Named(in[e]), Attended(e), ~running => Lossless(e), Aside(e)
  PROVE  Named(in[e])' /\ Attended(e)' /\ (~running => Lossless(e))'
<1>1. \A f : Reached(e, f)' <=> Reached(e, f)
  BY DEF Aside, Reached
<1>2. \A f : Queued(e, f)' <=> Queued(e, f)
  BY DEF Aside, Queued
<1>3. Arrived(e)' = Arrived(e)
  BY DEF Aside, Arrived
<1>4. Named(in[e])'
  BY DEF Aside, Named
<1>5. Attended(e)'
  BY <1>1, <1>2 DEF Aside, Attended
<1>6. (~running => Lossless(e))'
  BY <1>1, <1>3 DEF Aside, Lossless
<1> QED BY <1>4, <1>5, <1>6

\* At first there are none.
LEMMA FollowsInit == Init => Follows
<1> SUFFICES ASSUME Init PROVE Follows
  OBVIOUS
<1>1. Carried /\ Stopped
  BY DEF Init, Carried, Stopped
<1>2. ASSUME NEW e \in Ends PROVE Named(in[e]) /\ Attended(e) /\ (~running => Lossless(e))
  <2>1. in[e] = <<>> /\ attached[e] = {}
    BY <1>2 DEF Init
  <2>2. Named(in[e])
    BY <2>1 DEF Named
  <2> QED BY <2>1, <2>2 DEF Attended, Lossless
<1> QED BY <1>1, <1>2 DEF Follows

-----------------------------------------------------------------------------
(* Every step follows them *)

\* What is to be shown of the descriptors of each end.
Cared(e) == Named(in[e]) /\ Attended(e) /\ (~running => Lossless(e))

\* A client connects, or the relay has a bus for it.
LEMMA MeetsFollows ==
  ASSUME Relays, Follows, (\E c \in Conns : Connect(c)) \/ (\E c \in Conns : Accept(c) /\ ~Hangup(c))
  PROVE  Follows'
<1>0. PICK c \in Conns : Connect(c) \/ (Accept(c) /\ ~Hangup(c))
  OBVIOUS
<1>1. \E d \in Ends : d[1] = c /\ alive' = alive \cup {d} /\ status[c] \in {"new", "pending"}
  <2>1. <<c, "client">> \in Ends /\ <<c, "bus">> \in Ends
    BY DEF Ends
  <2>2. Accept(c) => status[c] = "pending"
    BY DEF Relays, Waiting, Accept
  <2> QED BY <1>0, <2>1, <2>2 DEF Connect, Accept
<1>2. /\ running' = running /\ running /\ \E u \in {"pending", "open"} : status' = [status EXCEPT ![c] = u]
      /\ UNCHANGED <<pc, cur, hand, anc, fresh, attached, got, gotfds, in, out, warned>>
  BY <1>0 DEF Connect, Accept, tapvars
<1>3. ASSUME NEW e \in Ends PROVE Cared(e)'
  <2>1. status \in [Conns -> Status] /\ e[1] \in Conns /\ Other(e)[1] = e[1]
    BY TwoEnds DEF Relays, TypeOK
  <2>2. Expects(e)' => Expects(e)
    BY <1>1, <1>2, <2>1 DEF Expects
  <2>3. Aside(e)
    BY <1>2, <2>2 DEF Aside, Held
  <2> QED BY <2>3, AsideKeeps DEF Follows, Cared
<1>4. Carried' /\ Stopped'
  BY <1>2 DEF Follows, Carried, Stopped
<1> QED BY <1>3, <1>4 DEF Follows, Cared

\* A connection is taken down.
LEMMA HangsFollows ==
  ASSUME Relays, Follows, NEW c \in Conns, Hangup(c), running,
         \A e \in Ends : e[1] = c /\ Other(e) \in alive => in[e] = <<>>,
         UNCHANGED <<running, pc, cur, hand, anc, fresh, alive, attached, got, gotfds, out, warned>>
  PROVE  Follows'
<1>1. ASSUME NEW e \in Ends PROVE Cared(e)'
  <2>1. status \in [Conns -> Status] /\ e[1] \in Conns
    BY TwoEnds DEF Relays, TypeOK
  <2>2. CASE e[1] # c \/ Other(e) \in alive
    <3>1. in'[e] = in[e]
      BY <2>2 DEF Hangup
    <3>2. Expects(e)' => Expects(e)
      BY <2>1, <2>2 DEF Expects, Hangup
    <3>3. Aside(e)
      BY <3>1, <3>2 DEF Aside, Held
    <3> QED BY <3>3, AsideKeeps DEF Follows, Cared
  <2>3. CASE e[1] = c /\ Other(e) \notin alive
    <3>1. in'[e] = <<>> /\ ~Expects(e)'
      BY <2>1, <2>3 DEF Hangup, Expects
    <3>2. Named(in[e])'
      BY <3>1 DEF Named
    <3> QED BY <3>1, <3>2 DEF Cared, Attended
  <2> QED BY <2>2, <2>3
<1>2. Carried' /\ Stopped'
  BY DEF Follows, Carried, Stopped
<1> QED BY <1>1, <1>2 DEF Follows, Cared

\* What does not concern the descriptors at all.
LEMMA IdleFollows ==
  ASSUME Relays, Follows,
         Select \/ (\E e \in Ends : Stale(e)) \/ CaptureWrite \/ UNCHANGED vars
  PROVE  Follows'
<1>1. /\ UNCHANGED <<running, cur, hand, anc, fresh, status, alive, attached, got, gotfds, in, out, warned>>
      /\ pc' # "loop" <=> pc # "loop"
  BY DEF Select, Stale, CaptureWrite, vars, tapvars, peervars
<1>2. ASSUME NEW e \in Ends PROVE Cared(e)'
  <2>1. Aside(e)
    BY <1>1 DEF Aside, Held, Expects
  <2> QED BY <2>1, AsideKeeps DEF Follows, Cared
<1>3. Carried' /\ Stopped'
  BY <1>1 DEF Follows, Carried, Stopped
<1> QED BY <1>2, <1>3 DEF Follows, Cared

\* An end writes: its descriptors wait with its bytes.
LEMMA WriteFollows ==
  ASSUME Relays, Follows, NEW d \in Ends, NEW n \in Nat \ {0}, NEW k \in Nat, Write(d, n, k)
  PROVE  Follows'
<1> DEFINE x == [i \in 1 .. n |-> wrote[d] + i]
           y == [i \in 1 .. k |-> <<wrote[d] + 1, i>>]
           w == [bytes |-> x, fds |-> y]
           z == {<<wrote[d] + 1, i>> : i \in 1 .. k}
<1>0. /\ in \in [Ends -> Seq(Skb)] /\ attached \in [Ends -> SUBSET Fd] /\ wrote[d] \in Nat
      /\ in' = [in EXCEPT ![d] = Append(in[d], w)]
      /\ attached' = [attached EXCEPT ![d] = attached[d] \cup z]
      /\ UNCHANGED <<running, pc, cur, hand, anc, fresh, status, alive, got, gotfds, out, warned>>
  BY DEF Relays, TypeOK, Write, tapvars
<1>1. running
  <2>1. status[d[1]] \in {"pending", "open"} /\ d[1] \in Conns
    BY TwoEnds DEF Write
  <2> QED BY <2>1 DEF Follows, Stopped
<1>2. /\ w \in Skb /\ w.bytes # <<>> /\ w.fds = y /\ y \in Seq(Fd)
      /\ ToSet(y) = z /\ \A f \in z : f[1] = w.bytes[1]
  <2>1. x \in Seq(Nat) /\ Len(x) = n /\ x[1] = wrote[d] + 1
    <3>1. \A i \in 1 .. n : wrote[d] + i \in Nat
      BY <1>0
    <3>2. 1 \in 1 .. n
      OBVIOUS
    <3> QED BY <3>1, <3>2
  <2>2. y \in Seq(Fd)
    BY <1>0, FdList
  <2>3. x # <<>>
    BY <2>1
  <2>4. ToSet(y) = z
    BY DEF ToSet
  <2>5. \A f \in z : f[1] = wrote[d] + 1
    OBVIOUS
  <2> HIDE DEF x, y, z
  <2> QED BY <2>1, <2>2, <2>3, <2>4, <2>5 DEF Skb
<1> HIDE DEF x, y, w, z
<1>3. ASSUME NEW e \in Ends PROVE Cared(e)'
  <2>1. CASE e # d
    <3>1. in'[e] = in[e] /\ attached'[e] = attached[e]
      BY <1>0, <2>1
    <3>2. Aside(e)
      BY <1>0, <3>1 DEF Aside, Held, Expects
    <3> QED BY <3>2, AsideKeeps DEF Follows, Cared
  <2>2. CASE e = d
    <3> DEFINE q == in[d]
    <3>1. q \in Seq(Skb) /\ Named(q) /\ in'[e] = Append(q, w) /\ Len(q) \in Nat
      BY <1>0, <2>2 DEF Follows
    <3>2. Fds(in'[e]) = Fds(q) \o y /\ Fds(q) \in Seq(Fd)
      BY <1>2, <3>1, QueueAppend, QueueType
    <3>3. ToSet(Fds(in'[e])) = ToSet(Fds(q)) \cup z
      <4> DEFINE u == Fds(q)
      <4>1. u \in Seq(Fd)
        BY <3>2
      <4> HIDE DEF u
      <4>2. ToSet(u \o y) = ToSet(u) \cup ToSet(y)
        BY <1>2, <4>1, BothSets
      <4> QED BY <1>2, <3>2, <4>2 DEF u
    <3>4. Named(in'[e])
      <4> HIDE DEF q
      <4> SUFFICES ASSUME NEW i \in 1 .. Len(q) + 1, NEW f \in ToSet(Append(q, w)[i].fds)
                   PROVE  Append(q, w)[i].bytes # <<>> /\ f[1] = Append(q, w)[i].bytes[1]
        <5>1. Len(Append(q, w)) = Len(q) + 1
          BY <1>2, <3>1, AppendProperties
        <5> QED BY <3>1, <5>1 DEF Named
      <4>1. CASE i = Len(q) + 1
        <5>1. Append(q, w)[i] = w
          BY <1>2, <3>1, <4>1, AppendProperties
        <5> QED BY <1>2, <5>1
      <4>2. CASE i # Len(q) + 1
        <5>1. i \in 1 .. Len(q) /\ Append(q, w)[i] = q[i]
          BY <1>2, <3>1, <4>2, AppendProperties
        <5> QED BY <3>1, <5>1 DEF Named
      <4> QED BY <4>1, <4>2
    <3>5. \A f : Queued(e, f)' <=> Queued(e, f) \/ f \in z
      BY <2>2, <3>3 DEF Queued
    <3>6. \A f : (Reached(e, f)' <=> Reached(e, f)) /\ (Held(e, f)' <=> Held(e, f))
      BY <1>0 DEF Reached, Held
    <3>7. attached'[e] = attached[e] \cup z
      BY <1>0, <2>2
    <3>8. Attended(e)'
      <4>1. Attended(e)
        BY DEF Follows
      <4>2. (Expects(e)' <=> Expects(e)) /\ warned' = warned
        BY <1>0 DEF Expects
      <4> QED BY <1>1, <3>5, <3>6, <3>7, <4>1, <4>2 DEF Attended
    <3> QED BY <1>0, <1>1, <3>4, <3>8 DEF Cared, Named
  <2> QED BY <2>1, <2>2
<1>4. Carried' /\ Stopped'
  BY <1>0 DEF Follows, Carried, Stopped
<1> QED BY <1>3, <1>4 DEF Follows, Cared

\* An end reads: what it reads has reached it as what waited for it had.
LEMMA ReadFollows ==
  ASSUME Relays, Follows, NEW d \in Ends, Read(d)
  PROVE  Follows'
<1> DEFINE w == Head(out[d])
           z == {[fd |-> w.fds[i], with |-> w.bytes[1]] : i \in DOMAIN w.fds}
<1>0. /\ out \in [Ends -> Seq(Skb)] /\ got \in [Ends -> Seq(Nat)] /\ DOMAIN gotfds = Ends
      /\ out[d] # <<>> /\ out' = [out EXCEPT ![d] = Tail(out[d])]
      /\ got' = [got EXCEPT ![d] = got[d] \o w.bytes]
      /\ gotfds' = [gotfds EXCEPT ![d] = gotfds[d] \cup z]
      /\ UNCHANGED <<running, pc, cur, hand, anc, fresh, status, alive, attached, in, warned>>
  BY DEF Relays, TypeOK, Read, tapvars
<1>1. /\ w \in Skb /\ Tail(out[d]) \in Seq(Skb) /\ Bytes(out[d]) = w.bytes \o Bytes(Tail(out[d]))
      /\ Fds(out[d]) = w.fds \o Fds(Tail(out[d]))
  BY <1>0, QueueHead
<1>2. \A f : f \in ToSet(w.fds) <=> \E r \in z : r.fd = f
  <2>1. \A f \in ToSet(w.fds) : \E r \in z : r.fd = f
    <3> TAKE f \in ToSet(w.fds)
    <3>1. PICK i \in DOMAIN w.fds : f = w.fds[i]
      BY DEF ToSet
    <3>2. [fd |-> w.fds[i], with |-> w.bytes[1]] \in z
      OBVIOUS
    <3>3. [fd |-> w.fds[i], with |-> w.bytes[1]].fd = f
      BY <3>1
    <3> HIDE DEF z
    <3> QED BY <3>2, <3>3
  <2>2. \A r \in z : r.fd \in ToSet(w.fds)
    BY DEF ToSet
  <2> HIDE DEF w, z
  <2> QED BY <2>1, <2>2
<1> HIDE DEF w, z
<1>3. ToSet(Fds(out[d])) = ToSet(w.fds) \cup ToSet(Fds(Tail(out[d])))
  <2> DEFINE u == w.fds
             v == Fds(Tail(out[d]))
  <2>1. u \in Seq(Fd) /\ v \in Seq(Fd) /\ Fds(out[d]) = u \o v
    BY <1>1, QueueType DEF Skb
  <2> HIDE DEF u, v
  <2>2. ToSet(u \o v) = ToSet(u) \cup ToSet(v)
    BY <2>1, BothSets
  <2> QED BY <2>1, <2>2 DEF u, v
<1>4. ASSUME NEW e \in Ends PROVE Cared(e)'
  <2>0. Named(in[e]) /\ Attended(e) /\ (~running => Lossless(e)) /\ Other(e) \in Ends
    BY TwoEnds DEF Follows
  <2>1. CASE Other(e) # d
    <3>1. /\ gotfds'[Other(e)] = gotfds[Other(e)] /\ out'[Other(e)] = out[Other(e)]
          /\ got'[Other(e)] = got[Other(e)]
      BY <1>0, <2>0, <2>1
    <3>2. Aside(e)
      BY <1>0, <3>1 DEF Aside, Held, Expects
    <3> QED BY <2>0, <3>2, AsideKeeps DEF Cared
  <2>2. CASE Other(e) = d
    <3>1. \A f : Reached(e, f)' <=> Reached(e, f)
      <4>1. gotfds'[d] = gotfds[d] \cup z /\ out'[d] = Tail(out[d])
        BY <1>0
      <4>2. \A f : (\E r \in gotfds'[d] : r.fd = f) <=> (\E r \in gotfds[d] : r.fd = f) \/ f \in ToSet(w.fds)
        BY <1>2, <4>1
      <4>3. \A f : f \in ToSet(Fds(out[d])) <=> f \in ToSet(w.fds) \/ f \in ToSet(Fds(out'[d]))
        BY <1>3, <4>1
      <4> QED BY <2>2, <4>2, <4>3 DEF Reached
    <3>2. Arrived(e)' = Arrived(e)
      <4>1. Arrived(e)' = (got[d] \o w.bytes) \o Bytes(Tail(out[d])) /\ Arrived(e) = got[d] \o Bytes(out[d])
        BY <1>0, <2>2 DEF Arrived
      <4>2. w.bytes \in Seq(Nat) /\ Bytes(Tail(out[d])) \in Seq(Nat) /\ got[d] \in Seq(Nat)
        BY <1>0, <1>1, QueueType DEF Skb
      <4>3. (got[d] \o w.bytes) \o Bytes(Tail(out[d])) = got[d] \o (w.bytes \o Bytes(Tail(out[d])))
        BY <4>2, Joined, Zenon
      <4> QED BY <1>1, <4>1, <4>3
    <3>3. \A f : (Queued(e, f)' <=> Queued(e, f)) /\ (Held(e, f)' <=> Held(e, f))
      BY <1>0 DEF Queued, Held
    <3>4. Attended(e)'
      BY <1>0, <2>0, <3>1, <3>3 DEF Attended, Expects
    <3>5. (~running => Lossless(e))'
      BY <1>0, <2>0, <3>1, <3>2 DEF Lossless
    <3>6. Named(in[e])'
      BY <1>0, <2>0 DEF Named
    <3> QED BY <3>4, <3>5, <3>6 DEF Cared
  <2> QED BY <2>1, <2>2
<1>5. Carried' /\ Stopped'
  BY <1>0 DEF Follows, Carried, Stopped
<1> QED BY <1>4, <1>5 DEF Follows, Cared

\* An end closes: nothing is owed to it, and to no other end less.
LEMMA CloseFollows ==
  ASSUME Relays, Follows, NEW d \in Ends, Close(d)
  PROVE  Follows'
<1>0. /\ out \in [Ends -> Seq(Skb)] /\ d \in alive
      /\ out' = [out EXCEPT ![d] = <<>>] /\ alive' = alive \ {d}
      /\ UNCHANGED <<running, pc, cur, hand, anc, fresh, status, attached, in, got, gotfds, warned>>
  BY DEF Relays, TypeOK, Close, tapvars
<1>1. ASSUME NEW e \in Ends PROVE Cared(e)'
  <2>0. /\ Named(in[e]) /\ Attended(e) /\ (~running => Lossless(e)) /\ Other(e) \in Ends
        /\ Outside(Other(e)) /\ Other(e)[1] = e[1]
    BY TwoEnds DEF Follows, Relays
  <2>1. CASE Other(e) # d \/ status[e[1]] \in {"new", "pending"}
    <3>1. out'[Other(e)] = out[Other(e)]
      BY <1>0, <2>0, <2>1 DEF Outside
    <3>2. Aside(e)
      BY <1>0, <3>1 DEF Aside, Held, Expects
    <3> QED BY <2>0, <3>2, AsideKeeps DEF Cared
  <2>2. CASE Other(e) = d /\ status[e[1]] \notin {"new", "pending"}
    <3>1. ~Expects(e)' /\ Other(e) \notin alive'
      BY <1>0, <2>2 DEF Expects
    <3>2. Attended(e)' /\ Lossless(e)'
      BY <3>1 DEF Attended, Lossless
    <3>3. Named(in[e])'
      BY <1>0, <2>0 DEF Named
    <3> QED BY <3>2, <3>3 DEF Cared
  <2> QED BY <2>1, <2>2
<1>2. Carried' /\ Stopped'
  BY <1>0 DEF Follows, Carried, Stopped
<1> QED BY <1>1, <1>2 DEF Follows, Cared

\* The relay receives: what waited is in hand with its byte, still waits, or
\* was dropped and the capture says so.
LEMMA RecvFollows ==
  ASSUME Relays, Follows, NEW d \in Ends, RecvMsg(d)
  PROVE  Follows'
<1> DEFINE q == in[d]
           n == Len(TookFds(q))
<1>0. /\ running /\ pc = "loop" /\ q # <<>> /\ q \in Seq(Skb) /\ Named(q)
      /\ hand' = Received(q) /\ in' = [in EXCEPT ![d] = Left(q)]
      /\ cur' = d /\ pc' = "got" /\ fresh' = TRUE /\ in \in [Ends -> Seq(Skb)]
      /\ UNCHANGED <<running, status, alive, attached, got, gotfds, out>>
  BY RecvMsgIs DEF Relays, TypeOK, Follows
<1>1. PICK k \in 0 .. Smaller(n, MaxFds) :
        anc' = SubSeq(TookFds(q), 1, k) /\ warned' = Warned(d, k, n)
  BY RecvMsgIs DEF Relays
<1>2. /\ TookFds(q) \in Seq(Fd) /\ Left(q) \in Seq(Skb) /\ TookFds(q) \o Fds(Left(q)) = Fds(q)
      /\ n \in Nat
  BY <1>0, RecvSplits
<1> HIDE DEF n
<1>3. k \in 0 .. n /\ (k < n \/ k = n)
  BY <1>2, Parameters DEF Smaller
<1>4. ToSet(anc') \subseteq ToSet(TookFds(q)) /\ (k = n => anc' = TookFds(q))
  <2> DEFINE t == TookFds(q)
  <2>1. t \in Seq(Fd) /\ k \in 0 .. Len(t) /\ n = Len(t)
    BY <1>2, <1>3 DEF n
  <2> HIDE DEF t
  <2>2. /\ SubSeq(t, 1, k) \in Seq(Fd) /\ Len(SubSeq(t, 1, k)) = k
        /\ \A i \in 1 .. k : SubSeq(t, 1, k)[i] = t[i]
    BY <2>1, CutAt
  <2>3. ToSet(SubSeq(t, 1, k)) \subseteq ToSet(t)
    <3> SUFFICES ASSUME NEW f \in ToSet(SubSeq(t, 1, k)) PROVE f \in ToSet(t)
      OBVIOUS
    <3>1. PICK i \in 1 .. k : f = SubSeq(t, 1, k)[i]
      BY <2>2 DEF ToSet
    <3>2. i \in DOMAIN t /\ f = t[i]
      BY <2>1, <2>2, <3>1
    <3> QED BY <3>2 DEF ToSet
  <2>4. k = Len(t) => SubSeq(t, 1, k) = t
    BY <2>1, SubSeqFull
  <2> QED BY <1>1, <2>1, <2>3, <2>4 DEF t
<1>5. ToSet(Fds(q)) = ToSet(TookFds(q)) \cup ToSet(Fds(Left(q)))
  <2> DEFINE u == TookFds(q)
             v == Fds(Left(q))
  <2>1. u \in Seq(Fd) /\ v \in Seq(Fd) /\ Fds(q) = u \o v
    BY <1>2, QueueType
  <2> HIDE DEF u, v
  <2>2. ToSet(u \o v) = ToSet(u) \cup ToSet(v)
    BY <2>1, BothSets
  <2> QED BY <2>1, <2>2 DEF u, v
<1>6. ASSUME NEW e \in Ends PROVE Cared(e)'
  <2>0. Named(in[e]) /\ Attended(e) /\ \A f : ~Held(e, f)
    BY <1>0 DEF Follows, Held
  <2>1. CASE e # d
    <3>1. in'[e] = in[e] /\ (e \in warned <=> e \in warned')
      BY <1>0, <1>1, <2>1 DEF Warned
    <3>2. Aside(e)
      BY <1>0, <2>0, <3>1 DEF Aside, Expects
    <3> QED BY <2>0, <3>2, AsideKeeps DEF Follows, Cared
  <2>2. CASE e = d
    <3>1. in'[e] = Left(q) /\ Named(in[e])'
      <4>1. in'[e] = Left(q)
        BY <1>0, <2>2
      <4>2. Named(Left(q))
        BY <1>0, NamedLeft
      <4> QED BY <4>1, <4>2 DEF Named
    <3>2. Attended(e)'
      <4> SUFFICES ASSUME running', Expects(e)', e \notin warned', NEW f \in attached'[e]
                   PROVE  Reached(e, f)' \/ Held(e, f)' \/ Queued(e, f)'
        BY DEF Attended
      <4>1. k = n /\ e \notin warned
        BY <1>1, <1>3, <2>2 DEF Warned
      <4>2. Reached(e, f) \/ Queued(e, f)
        BY <1>0, <2>0, <4>1 DEF Attended, Expects
      <4>3. Reached(e, f) => Reached(e, f)'
        BY <1>0 DEF Reached
      <4>4. Queued(e, f) => f \in ToSet(anc') \/ f \in ToSet(Fds(in'[e]))
        BY <1>4, <1>5, <2>2, <3>1, <4>1 DEF Queued
      <4>5. f \in ToSet(anc') => Held(e, f)'
        BY <1>0, <2>2 DEF Held
      <4>6. f \in ToSet(Fds(in'[e])) => Queued(e, f)'
        BY DEF Queued
      <4> QED BY <4>2, <4>3, <4>4, <4>5, <4>6
    <3> QED BY <1>0, <3>1, <3>2 DEF Cared
  <2> QED BY <2>1, <2>2
<1>7. Carried'
  <2>1. \A f \in ToSet(TookFds(q)) : f[1] \in ToSet(Received(q))
    BY <1>0, NamedReceived
  <2> QED BY <1>0, <1>4, <2>1 DEF Carried
<1>8. Stopped'
  BY <1>0 DEF Stopped
<1> QED BY <1>6, <1>7, <1>8 DEF Follows, Cared

\* The relay sends: with the first byte go the descriptors in hand.
LEMMA SendFollows ==
  ASSUME Relays, Follows, Send
  PROVE  Follows'
<1> DEFINE to == Other(cur)
           n  == Smaller(Free(out[to]), Len(hand))
           y  == IF fresh THEN anc ELSE <<>>
           w  == [bytes |-> SubSeq(hand, 1, n), fds |-> y]
<1>0. /\ running /\ pc = "send" /\ cur \in Ends /\ to \in Ends /\ Other(to) = cur
      /\ hand \in Seq(Nat) /\ anc \in Seq(Fd) /\ out \in [Ends -> Seq(Skb)] /\ n > 0
      /\ out' = [out EXCEPT ![to] = Append(out[to], w)]
      /\ UNCHANGED <<running, cur, status, alive, attached, in, got, gotfds, warned>>
      /\ fresh' = FALSE
  BY TwoEnds DEF Relays, TypeOK, Busy, Send, peervars
<1>1. n \in 0 .. Len(hand)
  <2>1. Bytes(out[to]) \in Seq(Nat)
    BY <1>0, QueueType
  <2>2. Free(out[to]) \in Int /\ Len(hand) \in Nat /\ n > 0
    BY <1>0, <2>1, Parameters DEF Free
  <2> QED BY <2>2 DEF Smaller
<1> HIDE DEF n
<1>2. y \in Seq(Fd) /\ w \in Skb /\ w.fds = y
  <2>1. y \in Seq(Fd)
    BY <1>0, EmptySeq
  <2>2. SubSeq(hand, 1, n) \in Seq(Nat)
    BY <1>0, <1>1, CutAt
  <2> HIDE DEF y
  <2> QED BY <2>1, <2>2 DEF Skb
<1>3. fresh => y = anc
  OBVIOUS
<1> HIDE DEF w, y
<1>4. ToSet(Fds(Append(out[to], w))) = ToSet(Fds(out[to])) \cup ToSet(y)
  <2> DEFINE u == Fds(out[to])
  <2>1. u \in Seq(Fd) /\ Fds(Append(out[to], w)) = u \o y
    BY <1>0, <1>2, QueueAppend, QueueType
  <2> HIDE DEF u
  <2>2. ToSet(u \o y) = ToSet(u) \cup ToSet(y)
    BY <1>2, <2>1, BothSets
  <2> QED BY <2>1, <2>2 DEF u
<1>5. ASSUME NEW e \in Ends PROVE Cared(e)'
  <2>0. Named(in[e]) /\ Attended(e) /\ Other(e) \in Ends /\ Other(Other(e)) = e
    BY TwoEnds DEF Follows
  <2>1. CASE e # cur
    <3>1. out'[Other(e)] = out[Other(e)] /\ \A f : ~Held(e, f)
      BY <1>0, <2>0, <2>1 DEF Held
    <3>2. Aside(e)
      BY <1>0, <3>1 DEF Aside, Expects
    <3> QED BY <2>0, <3>2, AsideKeeps DEF Follows, Cared
  <2>2. CASE e = cur
    <3>1. \A f : Reached(e, f) \/ Held(e, f) => Reached(e, f)'
      <4>1. ToSet(Fds(out'[to])) = ToSet(Fds(out[to])) \cup ToSet(y)
        BY <1>0, <1>4
      <4> QED BY <1>0, <1>3, <2>2, <4>1 DEF Reached, Held
    <3>2. \A f : Queued(e, f)' <=> Queued(e, f)
      BY <1>0 DEF Queued
    <3>3. Attended(e)'
      BY <1>0, <2>0, <3>1, <3>2 DEF Attended, Expects
    <3>4. Named(in[e])'
      BY <1>0, <2>0 DEF Named
    <3> QED BY <1>0, <3>3, <3>4 DEF Cared
  <2> QED BY <2>1, <2>2
<1>6. Carried' /\ Stopped'
  BY <1>0 DEF Carried, Stopped
<1> QED BY <1>5, <1>6 DEF Follows, Cared

\* It finds the receiver gone: nothing was owed to it any more.
LEMMA SendFailsFollows ==
  ASSUME Relays, Follows, SendFails
  PROVE  Follows'
<1>0. /\ running /\ pc = "send" /\ cur \in Ends /\ status[cur[1]] = "open"
      /\ Other(cur) \notin alive /\ pc' = "loop"
      /\ UNCHANGED <<running, cur, status, alive, attached, in, out, got, gotfds, warned>>
  BY DEF Relays, Busy, SendFails, Done, peervars
<1>1. ASSUME NEW e \in Ends PROVE Cared(e)'
  <2>0. Named(in[e]) /\ Attended(e)
    BY DEF Follows
  <2>1. CASE e # cur
    <3>1. Aside(e)
      BY <1>0, <2>1 DEF Aside, Held, Expects
    <3> QED BY <2>0, <3>1, AsideKeeps DEF Follows, Cared
  <2>2. CASE e = cur
    <3>1. ~Expects(e)'
      BY <1>0, <2>2 DEF Expects
    <3>2. Attended(e)'
      BY <3>1 DEF Attended
    <3>3. Named(in[e])'
      BY <1>0, <2>0 DEF Named
    <3> QED BY <1>0, <3>2, <3>3 DEF Cared
  <2> QED BY <2>1, <2>2
<1>2. Carried' /\ Stopped'
  BY <1>0 DEF Carried, Stopped
<1> QED BY <1>1, <1>2 DEF Follows, Cared

\* It is interrupted: what has arrived has arrived with its descriptors.
LEMMA InterruptFollows ==
  ASSUME Relays, Follows, Interrupt
  PROVE  Follows'
<1>0. /\ running /\ running' = FALSE /\ pc' = "loop" /\ in' = [e \in Ends |-> <<>>]
      /\ status' = [c \in Conns |-> IF status[c] = "new" THEN "new" ELSE "closed"]
      /\ UNCHANGED <<alive, attached, out, got, gotfds, warned>>
  BY DEF Interrupt, peervars
<1>1. ASSUME NEW e \in Ends PROVE Cared(e)'
  <2>1. Lossless(e)
    BY <1>0, AttendedLossless
  <2>2. Arrived(e)' = Arrived(e) /\ \A f : Reached(e, f)' <=> Reached(e, f)
    BY <1>0 DEF Arrived, Reached
  <2>3. Lossless(e)'
    BY <1>0, <2>1, <2>2 DEF Lossless
  <2>4. Named(in[e])'
    BY <1>0 DEF Named
  <2> QED BY <1>0, <2>3, <2>4 DEF Cared, Attended
<1>2. Carried' /\ Stopped'
  BY <1>0 DEF Carried, Stopped
<1> QED BY <1>1, <1>2 DEF Follows, Cared

\* Every step follows the descriptors.
LEMMA FollowsNext == Relays /\ Follows /\ [Next]_vars => Follows'
<1> SUFFICES ASSUME Relays, Follows, [Next]_vars PROVE Follows'
  OBVIOUS
<1>1. CASE (\E c \in Conns : Connect(c)) \/ (\E c \in Conns : Accept(c) /\ ~Hangup(c))
  BY <1>1, MeetsFollows
<1>2. CASE \E c \in Conns : Accept(c) /\ Hangup(c)
  <2>1. PICK c \in Conns : Accept(c) /\ Hangup(c)
    BY <1>2
  <2>2. status \in [Conns -> Status] /\ status[c] = "pending" /\ running
    BY <2>1 DEF Relays, TypeOK, Waiting, Accept
  <2>3. status'[c] = "closed"
    BY <2>1, <2>2 DEF Hangup
  <2>4. UNCHANGED <<running, pc, cur, hand, anc, fresh, alive, attached, got, gotfds, out, warned>>
    BY <2>1, <2>2, <2>3 DEF Accept
  <2>5. \A e \in Ends : e[1] = c /\ Other(e) \in alive => in[e] = <<>>
    BY <2>2, NothingForClient
  <2> QED BY <2>1, <2>2, <2>4, <2>5, HangsFollows
<1>3. CASE \E e \in Ends : Eof(e)
  <2>1. PICK e \in Ends : Eof(e)
    BY <1>3
  <2>2. e[1] \in Conns /\ Hangup(e[1]) /\ running
    BY <2>1, TwoEnds DEF Eof
  <2>3. UNCHANGED <<running, pc, cur, hand, anc, fresh, alive, attached, got, gotfds, out, warned>>
    BY <2>1 DEF Eof, peervars
  <2>4. \A d \in Ends : d[1] = e[1] /\ Other(d) \in alive => in[d] = <<>>
    BY <2>1, NothingAtEof
  <2> QED BY <2>2, <2>3, <2>4, HangsFollows
<1>4. CASE Select \/ (\E e \in Ends : Stale(e)) \/ CaptureWrite \/ UNCHANGED vars
  BY <1>4, IdleFollows
<1>5. CASE \E e \in DOMAIN limit : \E n \in 1 .. limit[e], k \in 0 .. MaxFds : Write(e, n, k)
  <2>1. PICK e \in DOMAIN limit : \E n \in 1 .. limit[e], k \in 0 .. MaxFds : Write(e, n, k)
    BY <1>5
  <2>2. PICK n \in 1 .. limit[e], k \in 0 .. MaxFds : Write(e, n, k)
    BY <2>1
  <2>3. e \in Ends /\ n \in Nat \ {0} /\ k \in Nat
    BY <2>1, <2>2, TapConstants DEF Relays, TypeOK
  <2> QED BY <2>2, <2>3, WriteFollows
<1>6. CASE \E e \in Ends : Read(e) \/ Close(e) \/ RecvMsg(e)
  BY <1>6, ReadFollows, CloseFollows, RecvFollows
<1>7. CASE Send \/ SendFails \/ Interrupt
  BY <1>7, SendFollows, SendFailsFollows, InterruptFollows
<1> QED BY <1>1, <1>2, <1>3, <1>4, <1>5, <1>6, <1>7 DEF Next, Relay, Peers

(* A descriptor attached to a byte that has arrived has arrived too, for    *)
(* every limit of the kernel's and of recvmsg's buffers, unless the capture *)
(* says that some were dropped (dbus_tap.py, relay(), MSG_CTRUNC).          *)
THEOREM DescriptorsArrive == Spec => []NoSilentLoss
<1>1. Init => Follows
  BY FollowsInit
<1>2. Relays /\ Follows => NoSilentLoss
  <2> SUFFICES ASSUME Relays, Follows PROVE NoSilentLoss
    OBVIOUS
  <2>1. \A e \in Ends : Lossless(e)
    BY AttendedLossless DEF Follows
  <2> QED BY <2>1 DEF NoSilentLoss, Lossless, Reached
<1> QED BY <1>1, <1>2, RelaysAlways, FollowsNext, PTL DEF Spec
=============================================================================

------------------------------ MODULE ReaderProofs ------------------------------
(***************************************************************************)
(* Proofs about two readers, for every text: the walk over a receive's     *)
(* control messages stays inside it and finds what is there; a security    *)
(* scan that is clean has seen everything that the builds read.            *)
(***************************************************************************)
EXTENDS DbusSys, BuildScan, SeqFacts, TLAPS

(* The control messages of one receive (dbus_sys_parse_rights).             *)

\* The walk over len bytes: what it has read of them, and where it is.
Scan(len) ==
  [rx : Seq(Int), closed : Seq(Int), reads : SUBSET (0 .. len - 1), at : Nat, more : BOOLEAN]

LEMMA WordType == ASSUME NEW ctrl \in Seq(Int), NEW o \in Nat PROVE Word(ctrl, o) \in Int
<1>1. o \div 4 \in Nat /\ Len(ctrl) \in Nat
  OBVIOUS
<1> QED BY <1>1 DEF Word

\* Taking one word of a message's data.
LEMMA TakeFdType ==
  ASSUME NEW ctrl \in Seq(Int), NEW len \in Nat, NEW w \in Scan(len), NEW off \in Nat,
         off + 4 <= len, NEW pid \in BOOLEAN
  PROVE  /\ TakeFd(w, ctrl, pid, off) \in Scan(len)
         /\ TakeFd(w, ctrl, pid, off).at = w.at
         /\ TakeFd(w, ctrl, pid, off).more = w.more
<1> DEFINE x == Word(ctrl, off)
           u == [w EXCEPT !.reads = @ \cup (off .. off + 3)]
<1>1. x \in Int
  BY WordType
<1>2. u \in Scan(len) /\ u.at = w.at /\ u.more = w.more
  <2>1. off .. off + 3 \subseteq 0 .. len - 1
    OBVIOUS
  <2> QED BY <2>1 DEF Scan
<1> HIDE DEF x, u
<1>a. Append(u.rx, x) \in Seq(Int) /\ Append(u.closed, x) \in Seq(Int)
  <2>1. u.rx \in Seq(Int) /\ u.closed \in Seq(Int)
    BY <1>2 DEF Scan
  <2> QED BY <1>1, <2>1
<1>b. \A y, z \in Seq(Int) : /\ [u EXCEPT !.closed = y] \in Scan(len)
                            /\ [u EXCEPT !.rx = z] \in Scan(len)
  BY <1>2 DEF Scan
<1>3. [u EXCEPT !.closed = Append(@, x)] \in Scan(len)
  BY <1>a, <1>b, Zenon
<1>4. RxAdd(u, x) \in Scan(len) /\ RxAdd(u, x).at = w.at /\ RxAdd(u, x).more = w.more
  <2>1. [u EXCEPT !.rx = Append(@, x)] \in Scan(len)
    BY <1>a, <1>b, Zenon
  <2>2. /\ [u EXCEPT !.closed = Append(@, x)].at = w.at
        /\ [u EXCEPT !.closed = Append(@, x)].more = w.more
        /\ [u EXCEPT !.rx = Append(@, x)].at = w.at
        /\ [u EXCEPT !.rx = Append(@, x)].more = w.more
    BY <1>2 DEF Scan
  <2> QED BY <1>3, <2>1, <2>2 DEF RxAdd
<1>5. TakeFd(w, ctrl, pid, off) =
        IF x < 0 THEN u ELSE IF pid THEN [u EXCEPT !.closed = Append(@, x)] ELSE RxAdd(u, x)
  BY DEF TakeFd, x, u
<1>6. /\ [u EXCEPT !.closed = Append(@, x)].at = w.at
      /\ [u EXCEPT !.closed = Append(@, x)].more = w.more
  BY <1>2 DEF Scan
<1> QED BY <1>2, <1>3, <1>4, <1>5, <1>6

\* Taking all of them is taking one after the other.
Taken(f, len, w, ctrl, pid, off, n) ==
  /\ f \in [0 .. n -> Scan(len)] /\ f[0] = w
  /\ \A k \in 1 .. n : f[k] = TakeFd(f[k - 1], ctrl, pid, off + 4 * (k - 1))
  /\ Collect(w, ctrl, pid, off, n) = f[n]

LEMMA CollectTakes ==
  ASSUME NEW ctrl \in Seq(Int), NEW len \in Nat, NEW w \in Scan(len), NEW off \in Nat,
         NEW n \in Nat, off + 4 * n <= len, NEW pid \in BOOLEAN
  PROVE  \E f : Taken(f, len, w, ctrl, pid, off, n)
<1> DEFINE S == Scan(len)
           h == [p \in (1 .. n) \X S |-> TakeFd(p[2], ctrl, pid, off + 4 * (p[1] - 1))]
<1>1. h \in [(1 .. n) \X S -> S]
  <2>1. ASSUME NEW p \in (1 .. n) \X S
        PROVE  TakeFd(p[2], ctrl, pid, off + 4 * (p[1] - 1)) \in S
    <3>1. p[1] \in 1 .. n /\ p[2] \in Scan(len)
      OBVIOUS
    <3>2. off + 4 * (p[1] - 1) \in Nat /\ off + 4 * (p[1] - 1) + 4 <= len
      BY <3>1
    <3> QED BY <3>1, <3>2, TakeFdType
  <2> QED BY <2>1
<1>2. PICK f \in [0 .. n -> S] : f[0] = w /\ \A k \in 1 .. n : f[k] = h[<<k, f[k - 1]>>]
  <2> HIDE DEF S, h
  <2>1. w \in S
    BY DEF S
  <2>2. Turns(S, n, w, h)
    BY <1>1, <2>1 DEF Turns
  <2>3. \E f : Turned(f, S, n, w, h)
    BY <2>2, Iteration
  <2> QED BY <2>3 DEF Turned
<1>3. ASSUME NEW k \in 1 .. n
      PROVE  f[k] = TakeFd(f[k - 1], ctrl, pid, off + 4 * (k - 1))
  <2>1. k - 1 \in 0 .. n
    OBVIOUS
  <2>2. f[k - 1] \in S
    BY <1>2, <2>1
  <2>3. <<k, f[k - 1]>> \in (1 .. n) \X S
    BY <2>2
  <2> QED BY <1>2, <2>3
<1> DEFINE F(g) == g = [k \in 0 .. n |-> IF k = 0 THEN w
                                          ELSE TakeFd(g[k - 1], ctrl, pid, off + 4 * (k - 1))]
           c == CHOOSE g : F(g)
<1>4. F(f)
  <2>1. \A k \in 0 .. n : f[k] = IF k = 0 THEN w ELSE TakeFd(f[k - 1], ctrl, pid, off + 4 * (k - 1))
    BY <1>2, <1>3
  <2> HIDE DEF S
  <2> QED BY <1>2, <2>1
<1>5. F(c)
  <2> HIDE DEF F
  <2> QED BY <1>4
<1>6. Collect(w, ctrl, pid, off, n) = c[n]
  BY DEF Collect
<1> DEFINE P == {k \in 0 .. n : c[k] = f[k]}
<1>7. \A k \in 0 .. n : k \in P
  <2> HIDE DEF c
  <2>1. 0 \in P
    BY <1>2, <1>5
  <2>2. ASSUME NEW k \in 1 .. n, k - 1 \in P PROVE k \in P
    <3>1. c[k] = TakeFd(c[k - 1], ctrl, pid, off + 4 * (k - 1))
      BY <1>5
    <3> QED BY <1>3, <2>2, <3>1
  <2> HIDE DEF P
  <2> QED BY <2>1, <2>2, UpTo
<1>8. c[n] = f[n]
  <2>1. n \in 0 .. n
    OBVIOUS
  <2> QED BY <1>7, <2>1
<1> QED BY <1>2, <1>3, <1>6, <1>8 DEF Taken

\* and moves nothing.
LEMMA CollectType ==
  ASSUME NEW ctrl \in Seq(Int), NEW len \in Nat, NEW w \in Scan(len), NEW off \in Nat,
         NEW n \in Nat, off + 4 * n <= len, NEW pid \in BOOLEAN
  PROVE  /\ Collect(w, ctrl, pid, off, n) \in Scan(len)
         /\ Collect(w, ctrl, pid, off, n).more = w.more
<1>1. PICK f : Taken(f, len, w, ctrl, pid, off, n)
  BY CollectTakes
<1>2. /\ f \in [0 .. n -> Scan(len)] /\ f[0] = w
      /\ \A k \in 1 .. n : f[k] = TakeFd(f[k - 1], ctrl, pid, off + 4 * (k - 1))
      /\ Collect(w, ctrl, pid, off, n) = f[n]
  BY <1>1 DEF Taken
<1> DEFINE P == {k \in 0 .. n : f[k].more = w.more}
<1>3. \A k \in 0 .. n : k \in P
  <2>1. 0 \in P
    BY <1>2
  <2>2. ASSUME NEW k \in 1 .. n, k - 1 \in P PROVE k \in P
    <3> DEFINE o == off + 4 * (k - 1)
    <3>1. f[k - 1] \in Scan(len) /\ o \in Nat /\ o + 4 <= len
      BY <1>2
    <3>2. f[k] = TakeFd(f[k - 1], ctrl, pid, o)
      BY <1>2
    <3> HIDE DEF o
    <3>3. TakeFd(f[k - 1], ctrl, pid, o).more = f[k - 1].more
      BY <3>1, TakeFdType
    <3> QED BY <2>2, <3>2, <3>3
  <2> HIDE DEF P
  <2> QED BY <2>1, <2>2, UpTo
<1>4. f[n] \in Scan(len) /\ f[n].more = w.more
  <2>1. n \in 0 .. n
    OBVIOUS
  <2> QED BY <1>2, <1>3, <2>1
<1> QED BY <1>2, <1>4

\* A turn of the loop stays inside the buffer, and if the loop goes on, it has
\* gone on in it.
LEMMA ParseRightsType ==
  ASSUME NEW ctrl \in Seq(Int), NEW len \in Nat, NEW w \in Scan(len)
  PROVE  LET v == ParseRights(ctrl, len, w)
         IN  /\ v \in Scan(len)
             /\ v.more => w.more /\ w.at + CmsgHdr <= len /\ w.at + CmsgHdr <= v.at
<1> DEFINE at    == w.at
           room  == len - at
           clen  == Length64(Word(ctrl, at), Word(ctrl, at + 4))
           type  == Word(ctrl, at + 12)
           w8    == [w EXCEPT !.reads = @ \cup (at .. at + 7)]
           hdr   == [w EXCEPT !.reads = @ \cup (at .. at + 15)]
           found == IF Word(ctrl, at + 8) = SolSocket /\ type \in {ScmRights, ScmPidfd}
                    THEN Collect(hdr, ctrl, type = ScmPidfd, at + CmsgHdr, (clen - CmsgHdr) \div 4)
                    ELSE hdr
           v     == ParseRights(ctrl, len, w)
<1>0. CmsgHdr = 16
  BY DEF CmsgHdr
<1>1. at \in Nat /\ w.more \in BOOLEAN
  BY DEF Scan
<1>2. clen \in Int
  <2>1. Word(ctrl, at) \in Int /\ Word(ctrl, at + 4) \in Int
    <3>1. at + 4 \in Nat
      BY <1>1
    <3> QED BY <1>1, <3>1, WordType
  <2> QED BY <2>1 DEF Length64
<1>3. v = IF ~w.more THEN w
          ELSE IF room < CmsgHdr THEN [w EXCEPT !.more = FALSE]
          ELSE IF clen < CmsgHdr \/ clen > room THEN [w8 EXCEPT !.more = FALSE]
          ELSE [found EXCEPT !.at = at + ((clen + 7) \div 8) * 8]
  BY DEF ParseRights
<1>4. ASSUME room >= CmsgHdr
      PROVE  /\ w8 \in Scan(len)
             /\ hdr \in Scan(len) /\ hdr.at = at /\ hdr.more = w.more
  <2>1. at .. at + 7 \subseteq 0 .. len - 1 /\ at .. at + 15 \subseteq 0 .. len - 1
    BY <1>0, <1>1, <1>4
  <2> HIDE DEF at
  <2> QED BY <2>1 DEF Scan, at
<1> HIDE DEF w8, hdr, clen, v
<1>5. ASSUME room >= CmsgHdr, clen >= CmsgHdr, clen <= room
      PROVE  found \in Scan(len) /\ found.more = w.more
  <2> DEFINE n   == (clen - CmsgHdr) \div 4
             pid == type = ScmPidfd
  <2>1. n \in Nat /\ at + CmsgHdr \in Nat /\ at + CmsgHdr + 4 * n <= len /\ pid \in BOOLEAN
    BY <1>0, <1>1, <1>2, <1>5
  <2>2. hdr \in Scan(len) /\ hdr.more = w.more
    BY <1>4, <1>5
  <2> HIDE DEF n, pid
  <2>3. /\ Collect(hdr, ctrl, pid, at + CmsgHdr, n) \in Scan(len)
        /\ Collect(hdr, ctrl, pid, at + CmsgHdr, n).more = hdr.more
    <3> DEFINE off == at + CmsgHdr
    <3>1. off \in Nat /\ off + 4 * n <= len
      BY <2>1
    <3> HIDE DEF off
    <3>2. /\ Collect(hdr, ctrl, pid, off, n) \in Scan(len)
          /\ Collect(hdr, ctrl, pid, off, n).more = hdr.more
      BY <2>1, <2>2, <3>1, CollectType
    <3> QED BY <3>2 DEF off
  <2> QED BY <2>2, <2>3 DEF n, pid
<1> HIDE DEF found
<1>6. CASE ~w.more
  BY <1>3, <1>6 DEF v
<1>7. CASE w.more /\ room < CmsgHdr
  <2>1. v = [w EXCEPT !.more = FALSE]
    BY <1>3, <1>7
  <2>2. [w EXCEPT !.more = FALSE] \in Scan(len) /\ ~[w EXCEPT !.more = FALSE].more
    BY DEF Scan
  <2> QED BY <2>1, <2>2 DEF v
<1>8. CASE w.more /\ room >= CmsgHdr /\ (clen < CmsgHdr \/ clen > room)
  <2>1. v = [w8 EXCEPT !.more = FALSE]
    BY <1>0, <1>1, <1>3, <1>8
  <2>2. [w8 EXCEPT !.more = FALSE] \in Scan(len) /\ ~[w8 EXCEPT !.more = FALSE].more
    BY <1>4, <1>8 DEF Scan
  <2> QED BY <2>1, <2>2 DEF v
<1>9. CASE w.more /\ room >= CmsgHdr /\ clen >= CmsgHdr /\ clen <= room
  <2> DEFINE to == at + ((clen + 7) \div 8) * 8
  <2>1. v = [found EXCEPT !.at = to]
    BY <1>0, <1>1, <1>2, <1>3, <1>9
  <2>2. to \in Nat /\ at + CmsgHdr <= to /\ at + CmsgHdr <= len
    BY <1>0, <1>1, <1>2, <1>9
  <2>3. found \in Scan(len) /\ found.more = w.more
    BY <1>5, <1>9
  <2> HIDE DEF to
  <2>4. [found EXCEPT !.at = to] \in Scan(len) /\ [found EXCEPT !.at = to].at = to
    BY <2>2, <2>3 DEF Scan
  <2> QED BY <1>9, <2>1, <2>2, <2>4 DEF v
<1> QED BY <1>0, <1>1, <1>2, <1>6, <1>7, <1>8, <1>9

\* The walk is its turns, one after the other.
RightsTurned(f, ctrl, len, n) ==
  /\ n = len \div CmsgHdr + 1 /\ f \in [0 .. n -> Scan(len)] /\ f[0] = Rx0
  /\ \A k \in 1 .. n : f[k] = ParseRights(ctrl, len, f[k - 1])
  /\ Rights(ctrl, len) = f[n]

LEMMA RightsWalks ==
  ASSUME NEW ctrl \in Seq(Int), NEW len \in Nat
  PROVE  \E f : RightsTurned(f, ctrl, len, len \div CmsgHdr + 1)
<1> DEFINE n == len \div CmsgHdr + 1
           S == Scan(len)
           h == [p \in (1 .. n) \X S |-> ParseRights(ctrl, len, p[2])]
<1>0. n \in Nat
  BY DEF CmsgHdr
<1> HIDE DEF n
<1>1. h \in [(1 .. n) \X S -> S]
  <2>1. ASSUME NEW p \in (1 .. n) \X S PROVE ParseRights(ctrl, len, p[2]) \in S
    BY ParseRightsType
  <2> QED BY <2>1
<1>2. PICK f : Turned(f, S, n, Rx0, h)
  <2> HIDE DEF S, h
  <2>1. Rx0 \in S
    BY EmptySeq DEF S, Scan, Rx0
  <2>2. Turns(S, n, Rx0, h)
    BY <1>0, <1>1, <2>1 DEF Turns
  <2> QED BY <2>2, Iteration
<1>3. /\ f \in [0 .. n -> S] /\ f[0] = Rx0
      /\ \A k \in 1 .. n : f[k] = h[<<k, f[k - 1]>>]
  BY <1>2 DEF Turned
<1>4. ASSUME NEW k \in 1 .. n PROVE f[k] = ParseRights(ctrl, len, f[k - 1])
  <2>1. k - 1 \in 0 .. n
    BY <1>0
  <2>2. <<k, f[k - 1]>> \in (1 .. n) \X S
    BY <1>3, <2>1
  <2> QED BY <1>3, <2>2
<1> DEFINE F(g) == g = [k \in 0 .. n |-> IF k = 0 THEN Rx0 ELSE ParseRights(ctrl, len, g[k - 1])]
           c == CHOOSE g : F(g)
<1>5. F(f)
  <2>1. \A k \in 0 .. n : f[k] = IF k = 0 THEN Rx0 ELSE ParseRights(ctrl, len, f[k - 1])
    BY <1>0, <1>3, <1>4
  <2> HIDE DEF S
  <2> QED BY <1>3, <2>1
<1>6. F(c)
  <2> HIDE DEF F
  <2> QED BY <1>5
<1>7. Rights(ctrl, len) = c[n]
  BY DEF Rights, n
<1> DEFINE P == {k \in 0 .. n : c[k] = f[k]}
<1>8. \A k \in 0 .. n : k \in P
  <2> HIDE DEF c
  <2>1. 0 \in P
    BY <1>0, <1>3, <1>6
  <2>2. ASSUME NEW k \in 1 .. n, k - 1 \in P PROVE k \in P
    <3>1. c[k] = ParseRights(ctrl, len, c[k - 1])
      BY <1>0, <1>6
    <3> QED BY <1>4, <2>2, <3>1
  <2> HIDE DEF P
  <2> QED BY <1>0, <2>1, <2>2, UpTo
<1>9. c[n] = f[n]
  <2>1. n \in 0 .. n
    BY <1>0
  <2> QED BY <1>8, <2>1
<1> QED BY <1>3, <1>4, <1>7, <1>9 DEF RightsTurned, n

\* Whatever the buffer holds, the walk ends, and has read nothing beyond it.
LEMMA RightsStayInside ==
  ASSUME NEW ctrl \in Seq(Int), NEW len \in Nat
  PROVE  Rights(ctrl, len) \in Scan(len) /\ ~Rights(ctrl, len).more
<1> DEFINE n == len \div CmsgHdr + 1
<1>0. n \in Nat /\ 16 * n > len /\ n >= 1 /\ CmsgHdr = 16
  BY DEF CmsgHdr
<1>1. PICK f : RightsTurned(f, ctrl, len, n)
  BY RightsWalks
<1> HIDE DEF n
<1>2. /\ f \in [0 .. n -> Scan(len)] /\ f[0] = Rx0
      /\ \A k \in 1 .. n : f[k] = ParseRights(ctrl, len, f[k - 1])
      /\ Rights(ctrl, len) = f[n]
  BY <1>1 DEF RightsTurned
<1>3. ASSUME NEW k \in 1 .. n
      PROVE  /\ f[k - 1].at \in Nat /\ f[k].at \in Nat
             /\ f[k].more => f[k - 1].more /\ f[k - 1].at + 16 <= len /\ f[k - 1].at + 16 <= f[k].at
  <2>1. k - 1 \in 0 .. n /\ k \in 0 .. n
    BY <1>0
  <2>2. f[k - 1] \in Scan(len) /\ f[k] \in Scan(len)
    BY <1>2, <2>1
  <2>3. f[k].more => f[k - 1].more /\ f[k - 1].at + 16 <= len /\ f[k - 1].at + 16 <= f[k].at
    BY <1>0, <1>2, <2>2, ParseRightsType
  <2> QED BY <2>2, <2>3 DEF Scan
<1> DEFINE P == {k \in 0 .. n : f[k].more => f[k].at >= 16 * k}
<1>4. \A k \in 0 .. n : k \in P
  <2>1. 0 \in P
    BY <1>0, <1>2 DEF Rx0
  <2>2. ASSUME NEW k \in 1 .. n, k - 1 \in P PROVE k \in P
    <3>1. f[k - 1].more => f[k - 1].at >= 16 * (k - 1)
      BY <2>2
    <3>2. f[k].more => f[k].at >= 16 * k
      BY <1>3, <3>1
    <3> QED BY <3>2
  <2> HIDE DEF P
  <2> QED BY <1>0, <2>1, <2>2, UpTo
<1>5. ~f[n].more
  <2>1. n \in 1 .. n /\ n - 1 \in 0 .. n
    BY <1>0
  <2>2. f[n].more => f[n - 1].more /\ f[n - 1].at + 16 <= len /\ f[n - 1].at \in Nat
    BY <1>3, <2>1
  <2>3. f[n - 1].more => f[n - 1].at >= 16 * (n - 1)
    BY <1>4, <2>1
  <2> QED BY <1>0, <2>2, <2>3
<1>6. f[n] \in Scan(len)
  BY <1>0, <1>2
<1> QED BY <1>2, <1>5, <1>6

\* What is held and what was closed, when the descriptors P were passed as
\* rights and A are all there were, none above b.
HeldOf(rx, closed, P, A, b) ==
  /\ P \in Seq(Int) /\ A \in Seq(Int) /\ rx \in Seq(Int) /\ closed \in Seq(Int) /\ b \in Int
  /\ rx = SubSeq(P, 1, IF Len(P) > FdMax THEN FdMax ELSE Len(P))
  /\ Len(closed) + Len(rx) = Len(A)
  /\ ToSet(rx) \subseteq ToSet(A) /\ ToSet(closed) = ToSet(A) \ ToSet(rx)
  /\ \A y \in ToSet(A) : y <= b

\* One descriptor more, larger than the ones before it: closed,
LEMMA HeldClosed ==
  ASSUME NEW rx, NEW closed, NEW P, NEW A, NEW b, HeldOf(rx, closed, P, A, b),
         NEW x \in Int, x > b
  PROVE  HeldOf(rx, Append(closed, x), P, Append(A, x), x)
<1>1. /\ P \in Seq(Int) /\ A \in Seq(Int) /\ rx \in Seq(Int) /\ closed \in Seq(Int) /\ b \in Int
      /\ Len(closed) + Len(rx) = Len(A)
      /\ ToSet(rx) \subseteq ToSet(A) /\ ToSet(closed) = ToSet(A) \ ToSet(rx)
      /\ \A y \in ToSet(A) : y <= b
  BY DEF HeldOf
<1>2. /\ Append(closed, x) \in Seq(Int) /\ Len(Append(closed, x)) = Len(closed) + 1
      /\ Append(A, x) \in Seq(Int) /\ Len(Append(A, x)) = Len(A) + 1
  BY <1>1, AppendProperties
<1>3. /\ ToSet(Append(A, x)) = ToSet(A) \cup {x}
      /\ ToSet(Append(closed, x)) = ToSet(closed) \cup {x}
  BY <1>1, ToSetAppend
<1>4. x \notin ToSet(A)
  BY <1>1
<1>5. ASSUME NEW y \in ToSet(A) \cup {x} PROVE y <= x
  <2>1. CASE y \in ToSet(A)
    <3>1. y \in Int
      <4>1. PICK i \in DOMAIN A : y = A[i]
        BY <2>1 DEF ToSet
      <4> QED BY <1>1, <4>1
    <3> QED BY <1>1, <2>1, <3>1
  <2> QED BY <2>1
<1>6. Len(Append(closed, x)) + Len(rx) = Len(Append(A, x))
  <2>1. Len(closed) \in Nat /\ Len(rx) \in Nat /\ Len(A) \in Nat
    BY <1>1
  <2>2. \A k, l, m \in Nat : k + l = m => (k + 1) + l = m + 1
    OBVIOUS
  <2>3. (Len(closed) + 1) + Len(rx) = Len(A) + 1
    BY <1>1, <2>1, <2>2, Zenon
  <2> QED BY <1>2, <2>3, Zenon
<1>7. /\ ToSet(rx) \subseteq ToSet(Append(A, x))
      /\ ToSet(Append(closed, x)) = ToSet(Append(A, x)) \ ToSet(rx)
  BY <1>1, <1>3, <1>4
<1>8. \A y \in ToSet(Append(A, x)) : y <= x
  BY <1>3, <1>5
<1>9. rx = SubSeq(P, 1, IF Len(P) > FdMax THEN FdMax ELSE Len(P))
  BY DEF HeldOf
<1> QED BY <1>1, <1>2, <1>6, <1>7, <1>8, <1>9, Zenon DEF HeldOf

\* or held, if there is room.
LEMMA HeldAdded ==
  ASSUME NEW rx, NEW closed, NEW P, NEW A, NEW b, HeldOf(rx, closed, P, A, b),
         NEW x \in Int, x > b
  PROVE  IF Len(rx) >= FdMax
         THEN HeldOf(rx, Append(closed, x), Append(P, x), Append(A, x), x)
         ELSE HeldOf(Append(rx, x), closed, Append(P, x), Append(A, x), x)
<1>1. /\ P \in Seq(Int) /\ A \in Seq(Int) /\ rx \in Seq(Int) /\ closed \in Seq(Int) /\ b \in Int
      /\ Len(closed) + Len(rx) = Len(A)
      /\ ToSet(rx) \subseteq ToSet(A) /\ ToSet(closed) = ToSet(A) \ ToSet(rx)
      /\ \A y \in ToSet(A) : y <= b
      /\ rx = SubSeq(P, 1, IF Len(P) > FdMax THEN FdMax ELSE Len(P))
  BY DEF HeldOf
<1>2. /\ Append(rx, x) \in Seq(Int) /\ Len(Append(rx, x)) = Len(rx) + 1
      /\ Append(P, x) \in Seq(Int) /\ Len(Append(P, x)) = Len(P) + 1
      /\ \A i \in 1 .. Len(P) : Append(P, x)[i] = P[i]
  BY <1>1, AppendProperties
<1>3. /\ Len(P) \in Nat /\ Len(rx) \in Nat /\ FdMax \in Nat /\ Len(closed) \in Nat /\ Len(A) \in Nat
  BY <1>1, FdMaxConstant
<1>a. HeldOf(rx, Append(closed, x), P, Append(A, x), x)
  BY HeldClosed
<1>4. CASE Len(rx) >= FdMax
  <2>1. Len(P) >= FdMax
    <3>1. CASE Len(P) > FdMax
      BY <1>3, <3>1
    <3>2. CASE ~(Len(P) > FdMax)
      <4>1. rx = P
        BY <1>1, <3>2, SubSeqFull
      <4> QED BY <1>4, <4>1
    <3> QED BY <3>1, <3>2
  <2>2. SubSeq(Append(P, x), 1, FdMax) = SubSeq(P, 1, FdMax)
    <3> DEFINE Q == Append(P, x)
    <3>1. Q \in Seq(Int) /\ Len(Q) = Len(P) + 1 /\ \A i \in 1 .. Len(P) : Q[i] = P[i]
      BY <1>2
    <3> HIDE DEF Q
    <3>2. /\ SubSeq(Q, 1, FdMax) \in Seq(Int) /\ SubSeq(P, 1, FdMax) \in Seq(Int)
          /\ Len(SubSeq(Q, 1, FdMax)) = FdMax /\ Len(SubSeq(P, 1, FdMax)) = FdMax
          /\ \A i \in 1 .. FdMax : SubSeq(Q, 1, FdMax)[i] = Q[i] /\ SubSeq(P, 1, FdMax)[i] = P[i]
      <4>1. FdMax \in 0 .. Len(P) /\ FdMax \in 0 .. Len(Q)
        BY <1>3, <2>1, <3>1
      <4>2. /\ SubSeq(Q, 1, FdMax) \in Seq(Int) /\ Len(SubSeq(Q, 1, FdMax)) = FdMax
            /\ \A i \in 1 .. FdMax : SubSeq(Q, 1, FdMax)[i] = Q[i]
        BY <3>1, <4>1, CutAt
      <4>3. /\ SubSeq(P, 1, FdMax) \in Seq(Int) /\ Len(SubSeq(P, 1, FdMax)) = FdMax
            /\ \A i \in 1 .. FdMax : SubSeq(P, 1, FdMax)[i] = P[i]
        BY <1>1, <4>1, CutAt
      <4> QED BY <4>2, <4>3
    <3>3. \A i \in 1 .. FdMax : Q[i] = P[i]
      BY <1>3, <2>1, <3>1
    <3>4. SubSeq(Q, 1, FdMax) = SubSeq(P, 1, FdMax)
      <4> DEFINE y == SubSeq(Q, 1, FdMax)
                 z == SubSeq(P, 1, FdMax)
      <4>1. y \in Seq(Int) /\ z \in Seq(Int) /\ Len(y) = Len(z) /\ \A i \in 1 .. Len(y) : y[i] = z[i]
        BY <3>2, <3>3, Zenon
      <4> HIDE DEF y, z
      <4>2. y = z
        BY <4>1, SeqEqual
      <4> QED BY <4>2 DEF y, z
    <3> QED BY <3>4 DEF Q
  <2>3. rx = SubSeq(P, 1, FdMax)
    <3>1. CASE Len(P) > FdMax
      BY <1>1, <3>1
    <3>2. CASE ~(Len(P) > FdMax)
      <4>1. Len(P) = FdMax
        BY <1>3, <2>1, <3>2
      <4> QED BY <1>1, <3>2, <4>1
    <3> QED BY <3>1, <3>2
  <2>4. rx = SubSeq(Append(P, x), 1, IF Len(Append(P, x)) > FdMax THEN FdMax ELSE Len(Append(P, x)))
    <3>1. Len(Append(P, x)) > FdMax
      BY <1>2, <1>3, <2>1
    <3> QED BY <2>2, <2>3, <3>1, Zenon
  <2>5. HeldOf(rx, Append(closed, x), Append(P, x), Append(A, x), x)
    BY <1>2, <1>a, <2>4, Zenon DEF HeldOf
  <2> QED BY <1>4, <2>5
<1>5. CASE ~(Len(rx) >= FdMax)
  <2>1. Len(P) < FdMax /\ rx = P
    <3>1. CASE Len(P) > FdMax
      <4>1. FdMax \in 0 .. Len(P)
        BY <1>3, <3>1
      <4>2. Len(SubSeq(P, 1, FdMax)) = FdMax
        BY <1>1, <4>1, CutAt
      <4> QED BY <1>1, <1>3, <1>5, <3>1, <4>2
    <3>2. CASE ~(Len(P) > FdMax)
      <4>1. rx = P
        BY <1>1, <3>2, SubSeqFull
      <4> QED BY <1>3, <1>5, <4>1
    <3> QED BY <3>1, <3>2
  <2>2. Append(rx, x) = SubSeq(Append(P, x), 1, IF Len(Append(P, x)) > FdMax THEN FdMax ELSE Len(Append(P, x)))
    <3>1. ~(Len(Append(P, x)) > FdMax)
      BY <1>2, <1>3, <2>1
    <3>2. SubSeq(Append(P, x), 1, Len(Append(P, x))) = Append(P, x)
      BY <1>2, SubSeqFull
    <3> QED BY <2>1, <3>1, <3>2, Zenon
  <2>3. /\ Append(A, x) \in Seq(Int) /\ Len(Append(A, x)) = Len(A) + 1
        /\ \A y \in ToSet(Append(A, x)) : y <= x
    <3>1. Len(Append(A, x)) = Len(A) + 1
      BY <1>1, AppendProperties
    <3> QED BY <1>a, <3>1, Zenon DEF HeldOf
  <2>4. /\ ToSet(Append(A, x)) = ToSet(A) \cup {x}
        /\ ToSet(Append(rx, x)) = ToSet(rx) \cup {x}
    BY <1>1, ToSetAppend
  <2>5. x \notin ToSet(A)
    BY <1>1
  <2>6. /\ ToSet(Append(rx, x)) \subseteq ToSet(Append(A, x))
        /\ ToSet(closed) = ToSet(Append(A, x)) \ ToSet(Append(rx, x))
    BY <1>1, <2>4, <2>5
  <2>7. Len(closed) + Len(Append(rx, x)) = Len(Append(A, x))
    <3>1. \A k, l, m \in Nat : k + l = m => k + (l + 1) = m + 1
      OBVIOUS
    <3>2. Len(closed) + (Len(rx) + 1) = Len(A) + 1
      <4>1. Len(closed) + Len(rx) = Len(A) /\ Len(closed) \in Nat /\ Len(rx) \in Nat /\ Len(A) \in Nat
        BY <1>1, <1>3
      <4> QED BY <3>1, <4>1
    <3> QED BY <1>2, <2>3, <3>2, Zenon
  <2>8. HeldOf(Append(rx, x), closed, Append(P, x), Append(A, x), x)
    BY <1>1, <1>2, <2>2, <2>3, <2>6, <2>7, Zenon DEF HeldOf
  <2> QED BY <1>5, <2>8
<1> QED BY <1>4, <1>5

\* What taking one word does, if it is a descriptor.
Took(v, w, pid, x) ==
  IF pid \/ Len(w.rx) >= FdMax
  THEN v.rx = w.rx /\ v.closed = Append(w.closed, x)
  ELSE v.rx = Append(w.rx, x) /\ v.closed = w.closed

LEMMA TakeFdHolds ==
  ASSUME NEW ctrl, NEW len \in Nat, NEW w \in Scan(len), NEW off, NEW pid \in BOOLEAN,
         NEW x \in Nat, Word(ctrl, off) = x
  PROVE  Took(TakeFd(w, ctrl, pid, off), w, pid, x)
<1> DEFINE u == [w EXCEPT !.reads = @ \cup (off .. off + 3)]
           v == TakeFd(w, ctrl, pid, off)
<1>1. v = IF pid THEN [u EXCEPT !.closed = Append(@, x)] ELSE RxAdd(u, x)
  <2>1. ~(x < 0)
    OBVIOUS
  <2> QED BY <2>1 DEF TakeFd
<1> HIDE DEF v
<1>2. /\ u.rx = w.rx /\ u.closed = w.closed
      /\ \A y : [u EXCEPT !.closed = y].closed = y /\ [u EXCEPT !.closed = y].rx = w.rx
      /\ \A y : [u EXCEPT !.rx = y].rx = y /\ [u EXCEPT !.rx = y].closed = w.closed
  BY DEF Scan
<1> HIDE DEF u
<1>3. RxAdd(u, x) = IF Len(w.rx) >= FdMax THEN [u EXCEPT !.closed = Append(@, x)]
                    ELSE [u EXCEPT !.rx = Append(@, x)]
  BY <1>2 DEF RxAdd
<1>4. CASE pid \/ Len(w.rx) >= FdMax
  <2>1. v = [u EXCEPT !.closed = Append(@, x)]
    BY <1>1, <1>3, <1>4, Zenon
  <2>2. v.rx = w.rx /\ v.closed = Append(w.closed, x)
    BY <1>2, <2>1, Zenon
  <2> QED BY <1>4, <2>2, Zenon DEF v, Took
<1>5. CASE ~(pid \/ Len(w.rx) >= FdMax)
  <2>1. v = [u EXCEPT !.rx = Append(@, x)]
    BY <1>1, <1>3, <1>5, Zenon
  <2>2. v.rx = Append(w.rx, x) /\ v.closed = w.closed
    BY <1>2, <2>1, Zenon
  <2> QED BY <1>5, <2>2, Zenon DEF v, Took
<1> QED BY <1>4, <1>5

\* Taking the n words of a message that carries the descriptors after b.
LEMMA CollectHolds ==
  ASSUME NEW ctrl \in Seq(Int), NEW len \in Nat, NEW w \in Scan(len), NEW off \in Nat,
         NEW n \in Nat, off + 4 * n <= len, NEW pid \in BOOLEAN,
         NEW P, NEW A, NEW b \in Nat, HeldOf(w.rx, w.closed, P, A, b),
         NEW xs \in Seq(Int), Len(xs) = n,
         \A k \in 1 .. n : xs[k] = b + k /\ Word(ctrl, off + 4 * (k - 1)) = xs[k]
  PROVE  LET v == Collect(w, ctrl, pid, off, n)
         IN  HeldOf(v.rx, v.closed, IF pid THEN P ELSE P \o xs, A \o xs, b + n)
<1>0. P \in Seq(Int) /\ A \in Seq(Int)
  BY DEF HeldOf
<1>1. PICK f : Taken(f, len, w, ctrl, pid, off, n)
  BY CollectTakes
<1>2. /\ f \in [0 .. n -> Scan(len)] /\ f[0] = w
      /\ \A k \in 1 .. n : f[k] = TakeFd(f[k - 1], ctrl, pid, off + 4 * (k - 1))
      /\ Collect(w, ctrl, pid, off, n) = f[n]
  BY <1>1 DEF Taken
<1> DEFINE T(k) == SubSeq(xs, 1, k)
           H(k) == HeldOf(f[k].rx, f[k].closed, IF pid THEN P ELSE P \o T(k), A \o T(k), b + k)
           Q == {k \in 0 .. n : H(k)}
<1>3. H(0)
  <2>1. T(0) = <<>>
    OBVIOUS
  <2>2. P \o <<>> = P /\ A \o <<>> = A
    BY <1>0, ConcatEmptySeq
  <2>3. b + 0 = b
    OBVIOUS
  <2> HIDE DEF T
  <2>4. (IF pid THEN P ELSE P \o T(0)) = P /\ A \o T(0) = A
    BY <2>1, <2>2
  <2> QED BY <1>2, <2>3, <2>4, Zenon
<1>4. ASSUME NEW k \in 1 .. n, H(k - 1) PROVE H(k)
  <2> DEFINE x == xs[k]
             P0 == IF pid THEN P ELSE P \o T(k - 1)
             A0 == A \o T(k - 1)
             v  == f[k - 1]
  <2>1. x \in Nat /\ x = b + k /\ x > b + (k - 1) /\ Word(ctrl, off + 4 * (k - 1)) = x
    OBVIOUS
  <2>2. P \o T(k) = Append(P \o T(k - 1), x) /\ A \o T(k) = Append(A \o T(k - 1), x)
    <3>1. k \in 1 .. Len(xs)
      OBVIOUS
    <3> QED BY <1>0, <3>1, AppendNext
  <2>3. HeldOf(v.rx, v.closed, P0, A0, b + (k - 1))
    BY <1>4
  <2>4. v \in Scan(len) /\ f[k] = TakeFd(v, ctrl, pid, off + 4 * (k - 1))
    <3>1. k - 1 \in 0 .. n
      OBVIOUS
    <3> QED BY <1>2, <3>1
  <2>5. Took(f[k], v, pid, x)
    <3> DEFINE o == off + 4 * (k - 1)
    <3>1. x \in Nat /\ Word(ctrl, o) = x /\ v \in Scan(len) /\ f[k] = TakeFd(v, ctrl, pid, o)
      BY <2>1, <2>4
    <3> HIDE DEF v, x, o
    <3>2. Took(TakeFd(v, ctrl, pid, o), v, pid, x)
      BY <3>1, TakeFdHolds
    <3> QED BY <3>1, <3>2
  <2> HIDE DEF v, x, P0, A0, T
  <2>6. HeldOf(v.rx, Append(v.closed, x), P0, Append(A0, x), b + k)
    <3>1. x \in Int
      BY <2>1
    <3>2. HeldOf(v.rx, Append(v.closed, x), P0, Append(A0, x), x)
      BY <2>1, <2>3, <3>1, HeldClosed
    <3> QED BY <2>1, <3>2
  <2>7. IF Len(v.rx) >= FdMax
        THEN HeldOf(v.rx, Append(v.closed, x), Append(P0, x), Append(A0, x), b + k)
        ELSE HeldOf(Append(v.rx, x), v.closed, Append(P0, x), Append(A0, x), b + k)
    <3>1. x \in Int
      BY <2>1
    <3>2. IF Len(v.rx) >= FdMax
          THEN HeldOf(v.rx, Append(v.closed, x), Append(P0, x), Append(A0, x), x)
          ELSE HeldOf(Append(v.rx, x), v.closed, Append(P0, x), Append(A0, x), x)
      BY <2>1, <2>3, <3>1, HeldAdded
    <3> QED BY <2>1, <3>2
  <2>8. A \o T(k) = Append(A0, x) /\ (pid => P0 = P) /\ (~pid => P \o T(k) = Append(P0, x))
    BY <2>2 DEF A0, P0
  <2>9. CASE pid
    BY <2>5, <2>6, <2>8, <2>9, Zenon DEF Took
  <2>10. CASE ~pid
    BY <2>5, <2>7, <2>8, <2>10, Zenon DEF Took
  <2> QED BY <2>9, <2>10
<1>5. \A k \in 0 .. n : k \in Q
  <2> HIDE DEF H
  <2>1. 0 \in Q
    BY <1>3
  <2>2. ASSUME NEW k \in 1 .. n, k - 1 \in Q PROVE k \in Q
    BY <1>4, <2>2
  <2> HIDE DEF Q
  <2> QED BY <2>1, <2>2, UpTo
<1>6. H(n)
  <2> HIDE DEF H
  <2>1. n \in 0 .. n
    OBVIOUS
  <2> QED BY <1>5, <2>1
<1>7. T(n) = xs
  BY SubSeqFull
<1> HIDE DEF T
<1> QED BY <1>2, <1>6, <1>7

(* What the kernel writes.                                                  *)
Msg == [level : Nat, type : Nat, n : 0 .. ScmMaxFd]
Blocks == [i \in DOMAIN src |-> Cmsg(i)]
Passed(types) ==
  [i \in DOMAIN src |->
     IF src[i].level = SolSocket /\ src[i].type \in types THEN Fds(i) ELSE <<>>]

LEMMA MsgFields ==
  ASSUME src \in Seq(Msg), NEW i \in 1 .. Len(src)
  PROVE  src[i].level \in Nat /\ src[i].type \in Nat /\ src[i].n \in 0 .. 253 /\ src[i].n \in Nat
<1>1. src[i] \in Msg
  OBVIOUS
<1>2. src[i].level \in Nat /\ src[i].type \in Nat /\ src[i].n \in 0 .. ScmMaxFd
  BY <1>1 DEF Msg
<1>3. \A k \in 0 .. ScmMaxFd : k \in 0 .. 253 /\ k \in Nat
  BY DEF ScmMaxFd
<1> QED BY <1>2, <1>3

\* The descriptors of a message come after those of the messages before it.
LEMMA FdsAre ==
  ASSUME src \in Seq(Msg), NEW i \in 1 .. Len(src)
  PROVE  /\ Fds(i) \in Seq(Int) /\ Len(Fds(i)) = src[i].n
         /\ \A k \in 1 .. src[i].n : Fds(i)[k] = 253 * i + k
<1> DEFINE n == src[i].n
<1>1. n \in Nat
  BY MsgFields
<1>2. Fds(i) = [k \in 1 .. n |-> 253 * i + k]
  BY DEF Fds, ScmMaxFd
<1> HIDE DEF n
<1>3. [k \in 1 .. n |-> 253 * i + k] \in [1 .. n -> Int]
  OBVIOUS
<1>4. Fds(i) \in Seq(Int) /\ Len(Fds(i)) = n /\ \A k \in 1 .. n : Fds(i)[k] = 253 * i + k
  BY <1>1, <1>2, <1>3
<1> QED BY <1>4 DEF n

\* What a message is in the buffer.
LEMMA CmsgIs ==
  ASSUME src \in Seq(Msg), NEW i \in 1 .. Len(src)
  PROVE  /\ Cmsg(i) \in Seq(Int) /\ Len(Cmsg(i)) = 4 + src[i].n + (src[i].n % 2)
         /\ Cmsg(i)[1] = 16 + 4 * src[i].n /\ Cmsg(i)[2] = 0
         /\ Cmsg(i)[3] = src[i].level /\ Cmsg(i)[4] = src[i].type
         /\ \A k \in 1 .. src[i].n : Cmsg(i)[4 + k] = Fds(i)[k]
<1> DEFINE n == src[i].n
           x == <<CmsgHdr + 4 * n, 0, src[i].level, src[i].type>>
           y == Fds(i)
           z == IF n % 2 = 1 THEN <<0>> ELSE <<>>
<1>1. n \in Nat /\ src[i].level \in Nat /\ src[i].type \in Nat
  BY MsgFields
<1>2. /\ x \in Seq(Int) /\ Len(x) = 4 /\ x[1] = 16 + 4 * n /\ x[2] = 0
      /\ x[3] = src[i].level /\ x[4] = src[i].type
  BY <1>1 DEF CmsgHdr
<1>3. y \in Seq(Int) /\ Len(y) = n
  BY FdsAre
<1>4. z \in Seq(Int) /\ Len(z) = n % 2 /\ n % 2 \in Nat
  <2>1. n % 2 \in 0 .. 1
    BY <1>1
  <2>2. CASE n % 2 = 1
    BY <2>2
  <2>3. CASE n % 2 = 0
    BY <2>3
  <2> QED BY <2>1, <2>2, <2>3
<1>5. Cmsg(i) = (x \o y) \o z
  BY DEF Cmsg
<1>6. DOMAIN Fds(i) = 1 .. n
  BY <1>3
<1> HIDE DEF x, y, z, n
<1>7. /\ x \o y \in Seq(Int) /\ Len(x \o y) = 4 + n
      /\ \A j \in 1 .. 4 + n : (x \o y)[j] = IF j <= 4 THEN x[j] ELSE y[j - 4]
  <2>1. /\ x \o y \in Seq(Int) /\ Len(x \o y) = Len(x) + Len(y)
        /\ \A j \in 1 .. Len(x) + Len(y) : (x \o y)[j] = IF j <= Len(x) THEN x[j] ELSE y[j - Len(x)]
    BY <1>2, <1>3, ConcatProperties
  <2> QED BY <1>2, <1>3, <2>1, Zenon
<1> DEFINE u == x \o y
<1>8. /\ u \in Seq(Int) /\ Len(u) = 4 + n
      /\ \A j \in 1 .. 4 + n : u[j] = IF j <= 4 THEN x[j] ELSE y[j - 4]
  BY <1>7, Zenon
<1> HIDE DEF u
<1>9. /\ u \o z \in Seq(Int) /\ Len(u \o z) = 4 + n + (n % 2)
      /\ \A j \in 1 .. 4 + n + (n % 2) : (u \o z)[j] = IF j <= 4 + n THEN u[j] ELSE z[j - (4 + n)]
  <2>1. /\ u \o z \in Seq(Int) /\ Len(u \o z) = Len(u) + Len(z)
        /\ \A j \in 1 .. Len(u) + Len(z) : (u \o z)[j] = IF j <= Len(u) THEN u[j] ELSE z[j - Len(u)]
    BY <1>4, <1>8, ConcatProperties
  <2> QED BY <1>4, <1>8, <2>1, Zenon
<1> DEFINE c == u \o z
<1>10. /\ c \in Seq(Int) /\ Len(c) = 4 + n + (n % 2)
       /\ \A j \in 1 .. 4 + n + (n % 2) : c[j] = IF j <= 4 + n THEN u[j] ELSE z[j - (4 + n)]
  BY <1>9, Zenon
<1> HIDE DEF c
<1>11. \A j \in 1 .. 4 + n : c[j] = u[j]
  BY <1>1, <1>4, <1>10
<1>12. /\ c[1] = 16 + 4 * n /\ c[2] = 0 /\ c[3] = src[i].level /\ c[4] = src[i].type
  <2>1. \A j \in 1 .. 4 : j \in 1 .. 4 + n /\ c[j] = x[j]
    <3> TAKE j \in 1 .. 4
    <3>1. j \in 1 .. 4 + n /\ j <= 4
      BY <1>1
    <3>2. c[j] = u[j]
      BY <1>11, <3>1, Zenon
    <3>3. u[j] = IF j <= 4 THEN x[j] ELSE y[j - 4]
      BY <1>8, <3>1, Zenon
    <3> QED BY <3>1, <3>2, <3>3
  <2>2. 1 \in 1 .. 4 /\ 2 \in 1 .. 4 /\ 3 \in 1 .. 4 /\ 4 \in 1 .. 4
    OBVIOUS
  <2> QED BY <1>2, <2>1, <2>2, Zenon
<1>13. \A k \in 1 .. n : c[4 + k] = y[k]
  <2> TAKE k \in 1 .. n
  <2>1. 4 + k \in 1 .. 4 + n /\ ~(4 + k <= 4) /\ (4 + k) - 4 = k
    BY <1>1
  <2>2. u[4 + k] = y[(4 + k) - 4]
    BY <1>8, <2>1, Zenon
  <2> QED BY <1>11, <2>1, <2>2
<1>14. c = Cmsg(i)
  BY <1>5 DEF c, u
<1> HIDE DEF Cmsg, Fds
<1> QED BY <1>10, <1>12, <1>13, <1>14 DEF n, y

\* Where it is in the buffer.
LEMMA ControlIs ==
  ASSUME src \in Seq(Msg), NEW c, Sums(Int, Blocks, c)
  PROVE  /\ Control = c[Len(src)] /\ Control \in Seq(Int) /\ Len(c[0]) = 0
         /\ \A i \in 1 .. Len(src) :
              /\ Len(c[i - 1]) \in Nat
              /\ Len(c[i]) = Len(c[i - 1]) + (4 + src[i].n + (src[i].n % 2))
              /\ Len(c[i]) <= Len(Control)
              /\ \A j \in 1 .. 4 + src[i].n + (src[i].n % 2) : Control[Len(c[i - 1]) + j] = Cmsg(i)[j]
<1>0. DOMAIN src = 1 .. Len(src) /\ Len(src) \in Nat
  OBVIOUS
<1>1. Blocks \in Seq(Seq(Int)) /\ Len(Blocks) = Len(src) /\ \A i \in 1 .. Len(src) : Blocks[i] = Cmsg(i)
  <2>1. \A i \in 1 .. Len(src) : Cmsg(i) \in Seq(Int)
    BY CmsgIs
  <2>2. Blocks = [i \in 1 .. Len(src) |-> Cmsg(i)]
    BY <1>0 DEF Blocks
  <2> HIDE DEF Cmsg
  <2>3. Blocks \in [1 .. Len(src) -> Seq(Int)]
    BY <2>1, <2>2
  <2> QED BY <1>0, <2>2, <2>3
<1>2. Control = c[Len(src)]
  <2>1. Control = FlattenSeq(Blocks)
    BY DEF Control, Blocks
  <2> QED BY <1>1, <2>1, FlattenIsSum
<1>3. /\ c \in [0 .. Len(src) -> Seq(Int)] /\ c[0] = <<>>
      /\ \A i \in 1 .. Len(src) : c[i] = c[i - 1] \o Cmsg(i)
  BY <1>1 DEF Sums
<1>4. Control \in Seq(Int) /\ Len(c[0]) = 0
  <2>1. Len(src) \in 0 .. Len(src)
    BY <1>0
  <2> QED BY <1>2, <1>3, <2>1
<1>5. ASSUME NEW i \in 1 .. Len(src)
      PROVE  /\ Len(c[i - 1]) \in Nat
             /\ Len(c[i]) = Len(c[i - 1]) + (4 + src[i].n + (src[i].n % 2))
             /\ Len(c[i]) <= Len(Control)
             /\ \A j \in 1 .. 4 + src[i].n + (src[i].n % 2) : Control[Len(c[i - 1]) + j] = Cmsg(i)[j]
  <2> DEFINE a == c[i - 1]
             b == Cmsg(i)
             d == c[i]
             m == 4 + src[i].n + (src[i].n % 2)
  <2>1. i - 1 \in 0 .. Len(src) /\ i \in 0 .. Len(src)
    BY <1>0
  <2>2. a \in Seq(Int) /\ b \in Seq(Int) /\ d = a \o b /\ Len(b) = m
    <3>1. Cmsg(i) \in Seq(Int) /\ Len(Cmsg(i)) = 4 + src[i].n + (src[i].n % 2)
      BY CmsgIs
    <3> HIDE DEF Cmsg
    <3> QED BY <1>3, <2>1, <3>1
  <2> HIDE DEF m, b, d, a
  <2>3. /\ Len(a \o b) = Len(a) + Len(b)
        /\ \A j \in 1 .. Len(a) + Len(b) : (a \o b)[j] = IF j <= Len(a) THEN a[j] ELSE b[j - Len(a)]
    BY <2>2, JoinedAt, Zenon
  <2>4. /\ Len(d) = Len(a) + m
        /\ \A j \in 1 .. Len(a) + m : d[j] = IF j <= Len(a) THEN a[j] ELSE b[j - Len(a)]
    BY <2>2, <2>3, Zenon
  <2>5. Len(a) \in Nat /\ m \in Nat
    BY <2>2
  <2>6. \A j \in 1 .. m : Len(a) + j \in 1 .. Len(d) /\ d[Len(a) + j] = b[j]
    <3> TAKE j \in 1 .. m
    <3>1. Len(a) + j \in 1 .. Len(a) + m /\ ~(Len(a) + j <= Len(a)) /\ (Len(a) + j) - Len(a) = j
      BY <2>5
    <3>2. d[Len(a) + j] = b[(Len(a) + j) - Len(a)]
      BY <2>4, <3>1, Zenon
    <3> QED BY <2>4, <3>1, <3>2
  <2>7. /\ Len(d) <= Len(Control) /\ \A j \in 1 .. Len(d) : Control[j] = d[j]
    <3>1. /\ Len(c[i]) <= Len(c[Len(src)])
          /\ \A j \in 1 .. Len(c[i]) : c[Len(src)][j] = c[i][j]
      <4>1. i \in 0 .. Len(Blocks) /\ Len(src) \in i .. Len(Blocks)
        BY <1>0, <1>1
      <4>2. \A k \in i .. Len(Blocks) :
              Len(c[i]) <= Len(c[k]) /\ \A j \in 1 .. Len(c[i]) : c[k][j] = c[i][j]
        <5> HIDE DEF Blocks
        <5> QED BY <1>1, <4>1, SumsGrow
      <4> QED BY <4>1, <4>2, Zenon
    <3> QED BY <1>2, <3>1 DEF d
  <2>8. \A j \in 1 .. m : Control[Len(a) + j] = b[j]
    BY <2>6, <2>7, Zenon
  <2> QED BY <2>4, <2>5, <2>7, <2>8 DEF a, b, d, m
<1> QED BY <1>2, <1>4, <1>5

\* The descriptors of the messages of some types, message by message.
LEMMA PassedIs ==
  ASSUME src \in Seq(Msg), NEW types
  PROVE  /\ Passed(types) \in Seq(Seq(Int))
         /\ \A r : Sums(Int, Passed(types), r) =>
              /\ FdsOf(types) = r[Len(src)] /\ r[0] = <<>>
              /\ r \in [0 .. Len(src) -> Seq(Int)]
              /\ \A i \in 1 .. Len(src) :
                   r[i] = IF src[i].level = SolSocket /\ src[i].type \in types
                          THEN r[i - 1] \o Fds(i) ELSE r[i - 1]
<1> DEFINE In(i) == src[i].level = SolSocket /\ src[i].type \in types
           p == Passed(types)
<1>0. DOMAIN src = 1 .. Len(src) /\ Len(src) \in Nat
  OBVIOUS
<1>1. p = [i \in 1 .. Len(src) |-> IF In(i) THEN Fds(i) ELSE <<>>]
  BY <1>0 DEF Passed
<1>2. \A i \in 1 .. Len(src) : Fds(i) \in Seq(Int) /\ <<>> \in Seq(Int)
  BY FdsAre, EmptySeq
<1> HIDE DEF In, p
<1>3. p \in Seq(Seq(Int)) /\ Len(p) = Len(src)
  <2> HIDE DEF Fds
  <2>1. p \in [1 .. Len(src) -> Seq(Int)]
    BY <1>1, <1>2
  <2> QED BY <1>0, <1>1, <2>1
<1>4. ASSUME NEW r, Sums(Int, p, r)
      PROVE  /\ FdsOf(types) = r[Len(src)] /\ r[0] = <<>>
             /\ r \in [0 .. Len(src) -> Seq(Int)]
             /\ \A i \in 1 .. Len(src) : r[i] = IF In(i) THEN r[i - 1] \o Fds(i) ELSE r[i - 1]
  <2>1. FdsOf(types) = FlattenSeq(p)
    BY DEF FdsOf, p, Passed
  <2>2. FlattenSeq(p) = r[Len(src)]
    BY <1>3, <1>4, FlattenIsSum
  <2>3. /\ r \in [0 .. Len(src) -> Seq(Int)] /\ r[0] = <<>>
        /\ \A i \in 1 .. Len(src) : r[i] = r[i - 1] \o p[i]
    BY <1>3, <1>4 DEF Sums
  <2>4. ASSUME NEW i \in 1 .. Len(src) PROVE r[i] = IF In(i) THEN r[i - 1] \o Fds(i) ELSE r[i - 1]
    <3>1. r[i - 1] \in Seq(Int)
      <4>1. i - 1 \in 0 .. Len(src)
        BY <1>0
      <4> QED BY <2>3, <4>1
    <3>2. r[i - 1] \o <<>> = r[i - 1]
      BY <3>1, ConcatEmptySeq
    <3>3. p[i] = IF In(i) THEN Fds(i) ELSE <<>>
      BY <1>1
    <3> QED BY <2>3, <3>2, <3>3, Zenon
  <2> QED BY <2>1, <2>2, <2>3, <2>4
<1> QED BY <1>3, <1>4 DEF In, p

\* What the kernel filled has every message, up to its last descriptor.
LEMMA FilledHolds ==
  ASSUME src \in Seq(Msg), NEW c, Sums(Int, Blocks, c), NEW len \in Filled
  PROVE  /\ len \in Nat /\ len <= 4 * Len(Control)
         /\ \A i \in 1 .. Len(src) : 4 * Len(c[i - 1]) + 16 + 4 * src[i].n <= len
<1> DEFINE N == Len(src)
           L == Len(Control)
<1>1. /\ Len(c[0]) = 0 /\ L \in Nat /\ N \in Nat /\ Control = c[N]
      /\ \A i \in 1 .. N : /\ Len(c[i - 1]) \in Nat
                           /\ Len(c[i]) = Len(c[i - 1]) + (4 + src[i].n + (src[i].n % 2))
                           /\ Len(c[i]) <= L
  <2>1. Control \in Seq(Int)
    BY ControlIs
  <2>2. L \in Nat /\ N \in Nat
    BY <2>1
  <2> QED BY <2>2, ControlIs
<1>2. \A i \in 1 .. N : src[i].n \in Nat /\ (src[i].n % 2 = 0 \/ src[i].n % 2 = 1)
  <2>1. \A n \in Nat : n % 2 = 0 \/ n % 2 = 1
    OBVIOUS
  <2> QED BY <2>1, MsgFields
<1>3. src # <<>> => N \in 1 .. N /\ Last(src) = src[N] /\ N # 0
  <2>1. src # <<>> => N # 0
    BY EmptySeq
  <2> QED BY <1>1, <2>1 DEF Last
<1>a. N = 0 => src = <<>>
  BY EmptySeq
<1> HIDE DEF N, L
<1>4. \/ len = 4 * L
      \/ src # <<>> /\ src[N].n % 2 = 1 /\ len = 4 * L - 4
  BY <1>3 DEF Filled, L
<1>5. ASSUME NEW i \in 1 .. N
      PROVE  4 * Len(c[i - 1]) + 16 + 4 * src[i].n <= len
  <2> DEFINE a == Len(c[i - 1])
             b == Len(c[i])
             n == src[i].n
  <2>1. a \in Nat /\ b = a + (4 + n + (n % 2)) /\ b <= L /\ n \in Nat /\ (n % 2 = 0 \/ n % 2 = 1)
    BY <1>1, <1>2
  <2>2. CASE i = N
    <3>1. src[N].n % 2 = 1 => n % 2 = 1
      BY <2>2
    <3> HIDE DEF a, b, n
    <3>2. 4 * a + 16 + 4 * n <= len
      BY <1>1, <1>4, <2>1, <3>1
    <3> QED BY <3>2 DEF a, n
  <2>3. CASE i # N
    <3> DEFINE d == Len(c[i + 1])
               m == src[i + 1].n
    <3>1. i + 1 \in 1 .. N /\ (i + 1) - 1 = i
      BY <1>1, <2>3
    <3>2. d = b + (4 + m + (m % 2)) /\ d <= L /\ m \in Nat /\ (m % 2 = 0 \/ m % 2 = 1)
      BY <1>1, <1>2, <3>1
    <3> HIDE DEF a, b, n, d, m
    <3>3. 4 * a + 16 + 4 * n <= len
      BY <1>1, <1>4, <2>1, <3>2
    <3> QED BY <3>3 DEF a, n
  <2> QED BY <2>2, <2>3
<1>6. len \in Nat /\ len <= 4 * L
  <2>1. CASE len = 4 * L
    BY <1>1, <2>1
  <2>2. CASE src # <<>> /\ len = 4 * L - 4
    <3>1. N \in 1 .. N
      BY <1>3, <2>2
    <3>2. 4 * Len(c[N - 1]) + 16 + 4 * src[N].n <= len /\ Len(c[N - 1]) \in Nat /\ src[N].n \in Nat
      BY <1>1, <1>2, <1>5, <3>1
    <3>3. \A a, n, l \in Nat : 4 * a + 16 + 4 * n <= 4 * l - 4 => 4 * l - 4 \in Nat
      OBVIOUS
    <3>4. 4 * L - 4 \in Nat
      BY <1>1, <2>2, <3>2, <3>3
    <3> QED BY <1>1, <2>2, <3>4
  <2> QED BY <1>4, <2>1, <2>2
<1> QED BY <1>5, <1>6 DEF N, L

\* A larger bound will do.
LEMMA HeldBelow ==
  ASSUME NEW rx, NEW closed, NEW P, NEW A, NEW b, HeldOf(rx, closed, P, A, b), NEW d \in Int, b <= d
  PROVE  HeldOf(rx, closed, P, A, d)
<1>1. A \in Seq(Int) /\ b \in Int /\ \A y \in ToSet(A) : y <= b
  BY DEF HeldOf
<1>2. ASSUME NEW y \in ToSet(A) PROVE y <= d
  <2>1. y \in Int
    <3>1. PICK i \in DOMAIN A : y = A[i]
      BY DEF ToSet
    <3> QED BY <1>1, <3>1
  <2> QED BY <1>1, <2>1
<1> QED BY <1>2 DEF HeldOf

\* The words of a message, where it is in the buffer.
LEMMA WordIs ==
  ASSUME src \in Seq(Msg), NEW c, Sums(Int, Blocks, c), NEW i \in 1 .. Len(src),
         NEW j \in 0 .. 3 + src[i].n
  PROVE  Word(Control, 4 * Len(c[i - 1]) + 4 * j) = Cmsg(i)[j + 1]
<1> DEFINE L == Len(c[i - 1])
           n == src[i].n
           m == 4 + n + (n % 2)
           x == Cmsg(i)[j + 1]
<1>1. /\ L \in Nat /\ Control \in Seq(Int) /\ L + m <= Len(Control)
      /\ \A k \in 1 .. m : Control[L + k] = Cmsg(i)[k]
  <2>1. Len(c[i]) = L + m /\ Len(c[i]) <= Len(Control)
    BY ControlIs
  <2>2. L \in Nat /\ Control \in Seq(Int) /\ \A k \in 1 .. m : Control[L + k] = Cmsg(i)[k]
    BY ControlIs
  <2> QED BY <2>1, <2>2
<1>2. n \in Nat
  BY MsgFields
<1> HIDE DEF L, n
<1>3. j + 1 \in 1 .. m /\ j \in Nat
  BY <1>2 DEF n
<1>4. Control[L + (j + 1)] = x
  BY <1>1, <1>3, Zenon
<1> HIDE DEF m, x
<1>5. (4 * L + 4 * j) \div 4 = L + j /\ L + (j + 1) = (L + j) + 1
  BY <1>1, <1>3
<1>6. L + j < Len(Control)
  <2>1. Len(Control) \in Nat
    BY <1>1
  <2>2. j < m
    BY <1>2, <1>3 DEF m
  <2> QED BY <1>1, <1>2, <1>3, <2>1, <2>2 DEF m
<1>7. Word(Control, 4 * L + 4 * j) = x
  BY <1>4, <1>5, <1>6 DEF Word
<1> QED BY <1>7 DEF L, x

\* (The same, its premises as one.)
Collects(ctrl, len, w, off, n, pid) ==
  /\ ctrl \in Seq(Int) /\ len \in Nat /\ w \in Scan(len) /\ off \in Nat /\ n \in Nat
  /\ off + 4 * n <= len /\ pid \in BOOLEAN

LEMMA CollectStays ==
  ASSUME NEW ctrl, NEW len, NEW w, NEW off, NEW n, NEW pid, Collects(ctrl, len, w, off, n, pid)
  PROVE  /\ Collect(w, ctrl, pid, off, n) \in Scan(len)
         /\ Collect(w, ctrl, pid, off, n).more = w.more
<1>1. /\ ctrl \in Seq(Int) /\ len \in Nat /\ w \in Scan(len) /\ off \in Nat /\ n \in Nat
      /\ off + 4 * n <= len /\ pid \in BOOLEAN
  BY DEF Collects
<1> QED BY <1>1, CollectType
\* What a turn does with a message that is there in full.
Turn(ctrl, len, w, at, n, level, type) ==
  /\ ctrl \in Seq(Int) /\ len \in Nat /\ w \in Scan(len) /\ w.more
  /\ at \in Nat /\ w.at = at /\ n \in Nat /\ level \in Nat /\ type \in Nat
  /\ at + 16 + 4 * n <= len
  /\ Word(ctrl, at) = 16 + 4 * n /\ Word(ctrl, at + 4) = 0
  /\ Word(ctrl, at + 8) = level /\ Word(ctrl, at + 12) = type

TurnTaken(v, ctrl, len, w, at, n, level, type) ==
  LET hdr == [w EXCEPT !.reads = @ \cup (at .. at + 15)]
      got == Collect(hdr, ctrl, type = ScmPidfd, at + 16, n)
  IN  /\ hdr \in Scan(len) /\ hdr.rx = w.rx /\ hdr.closed = w.closed
      /\ v.more /\ v.at = at + 16 + 4 * n + 4 * (n % 2)
      /\ IF level = SolSocket /\ type \in {ScmRights, ScmPidfd}
         THEN v.rx = got.rx /\ v.closed = got.closed
         ELSE v.rx = w.rx /\ v.closed = w.closed

LEMMA TurnIs ==
  ASSUME NEW ctrl, NEW len, NEW w, NEW at, NEW n, NEW level, NEW type,
         Turn(ctrl, len, w, at, n, level, type)
  PROVE  TurnTaken(ParseRights(ctrl, len, w), ctrl, len, w, at, n, level, type)
<1>0. /\ ctrl \in Seq(Int) /\ len \in Nat /\ w \in Scan(len) /\ w.more
      /\ at \in Nat /\ w.at = at /\ n \in Nat /\ level \in Nat /\ type \in Nat
      /\ at + 16 + 4 * n <= len
      /\ Word(ctrl, at) = 16 + 4 * n /\ Word(ctrl, at + 4) = 0
      /\ Word(ctrl, at + 8) = level /\ Word(ctrl, at + 12) = type
  BY DEF Turn
<1> DEFINE room  == len - at
           clen  == 16 + 4 * n
           to    == at + ((clen + 7) \div 8) * 8
           pid   == type = ScmPidfd
           hdr   == [w EXCEPT !.reads = @ \cup (at .. at + 15)]
           w8    == [w EXCEPT !.reads = @ \cup (at .. at + 7)]
           got   == Collect(hdr, ctrl, pid, at + 16, n)
           in    == level = SolSocket /\ type \in {ScmRights, ScmPidfd}
           found == IF in THEN got ELSE hdr
           v     == ParseRights(ctrl, len, w)
<1>1. /\ hdr \in Scan(len) /\ hdr.more = w.more /\ hdr.rx = w.rx /\ hdr.closed = w.closed
  <2>1. at .. at + 15 \subseteq 0 .. len - 1
    BY <1>0
  <2> QED BY <1>0, <2>1 DEF Scan
<1>2. got \in Scan(len) /\ got.more = w.more
  <2> DEFINE off == at + 16
  <2>0. off \in Nat /\ off + 4 * n <= len /\ pid \in BOOLEAN
    BY <1>0
  <2> HIDE DEF off, hdr, pid
  <2>1. Collects(ctrl, len, hdr, off, n, pid)
    BY <1>0, <1>1, <2>0 DEF Collects
  <2>2. Collect(hdr, ctrl, pid, off, n) \in Scan(len) /\ Collect(hdr, ctrl, pid, off, n).more = hdr.more
    BY <2>1, CollectStays
  <2> QED BY <1>1, <2>2 DEF off
<1>3. /\ ~(room < CmsgHdr) /\ ~(clen < CmsgHdr \/ clen > room) /\ (clen - CmsgHdr) \div 4 = n
      /\ at + CmsgHdr = at + 16 /\ Length64(clen, 0) = clen
  BY <1>0 DEF CmsgHdr, Length64
<1>4. to = at + 16 + 4 * n + 4 * (n % 2) /\ to \in Nat
  BY <1>0
<1>5. v = [found EXCEPT !.at = to]
  <2>1. v = LET cl == Length64(Word(ctrl, at), Word(ctrl, at + 4))
                ty == Word(ctrl, at + 12)
                fo == IF Word(ctrl, at + 8) = SolSocket /\ ty \in {ScmRights, ScmPidfd}
                      THEN Collect(hdr, ctrl, ty = ScmPidfd, at + CmsgHdr, (cl - CmsgHdr) \div 4)
                      ELSE hdr
            IN  IF ~w.more THEN w
                ELSE IF room < CmsgHdr THEN [w EXCEPT !.more = FALSE]
                ELSE IF cl < CmsgHdr \/ cl > room THEN [w8 EXCEPT !.more = FALSE]
                ELSE [fo EXCEPT !.at = at + ((cl + 7) \div 8) * 8]
    BY <1>0 DEF ParseRights
  <2> HIDE DEF room, hdr, w8, v, clen
  <2>2. Word(ctrl, at) = clen
    BY <1>0 DEF clen
  <2>3. v = IF ~w.more THEN w
            ELSE IF room < CmsgHdr THEN [w EXCEPT !.more = FALSE]
            ELSE IF clen < CmsgHdr \/ clen > room THEN [w8 EXCEPT !.more = FALSE]
            ELSE [(IF level = SolSocket /\ type \in {ScmRights, ScmPidfd}
                   THEN Collect(hdr, ctrl, type = ScmPidfd, at + 16, n)
                   ELSE hdr) EXCEPT !.at = at + ((clen + 7) \div 8) * 8]
    BY <1>0, <1>3, <2>1, <2>2, Zenon
  <2> QED BY <1>0, <1>3, <2>3, Zenon
<1> HIDE DEF hdr, got, to, v
<1>6. v.at = to /\ v.more = found.more /\ v.rx = found.rx /\ v.closed = found.closed
  <2>1. found \in Scan(len)
    BY <1>1, <1>2
  <2> HIDE DEF found
  <2> QED BY <1>4, <1>5, <2>1 DEF Scan
<1>7. /\ hdr \in Scan(len) /\ hdr.rx = w.rx /\ hdr.closed = w.closed
      /\ v.more /\ v.at = at + 16 + 4 * n + 4 * (n % 2)
      /\ IF in THEN v.rx = got.rx /\ v.closed = got.closed
               ELSE v.rx = w.rx /\ v.closed = w.closed
  <2>1. CASE in
    BY <1>0, <1>1, <1>2, <1>4, <1>6, <2>1
  <2>2. CASE ~in
    BY <1>0, <1>1, <1>4, <1>6, <2>2
  <2> QED BY <2>1, <2>2
<1> QED BY <1>7 DEF TurnTaken, hdr, got, v

\* The walk with i messages behind it.
Reached(w, c, r, a, len, i) ==
  /\ w \in Scan(len) /\ w.more /\ w.at = 4 * Len(c[i])
  /\ HeldOf(w.rx, w.closed, r[i], a[i], 253 * (i + 1))

\* The buffer and its descriptors, message by message.
Split(c, r, a) ==
  /\ src \in Seq(Msg) /\ Sums(Int, Blocks, c)
  /\ Sums(Int, Passed({ScmRights}), r) /\ Sums(Int, Passed({ScmRights, ScmPidfd}), a)

\* A turn takes one message.
LEMMA TurnReaches ==
  ASSUME NEW c, NEW r, NEW a, Split(c, r, a), NEW len \in Filled, NEW i \in 1 .. Len(src),
         NEW w, Reached(w, c, r, a, len, i - 1)
  PROVE  Reached(ParseRights(Control, len, w), c, r, a, len, i)
<1>a. /\ src \in Seq(Msg) /\ Sums(Int, Blocks, c)
      /\ Sums(Int, Passed({ScmRights}), r) /\ Sums(Int, Passed({ScmRights, ScmPidfd}), a)
  BY DEF Split
<1>b. w \in Scan(len) /\ w.more /\ w.at = 4 * Len(c[i - 1])
  BY DEF Reached
<1>c. HeldOf(w.rx, w.closed, r[i - 1], a[i - 1], 253 * i)
  <2>1. (i - 1) + 1 = i
    OBVIOUS
  <2> QED BY <2>1, Zenon DEF Reached
<1>d. ParseRights(Control, len, w) \in Scan(len)
  <2>1. Control \in Seq(Int) /\ len \in Nat
    BY <1>a, ControlIs, FilledHolds
  <2> HIDE DEF Control
  <2> QED BY <1>b, <2>1, ParseRightsType
<1> USE <1>a
<1> DEFINE L     == Len(c[i - 1])
           n     == src[i].n
           at    == 4 * L
           level == src[i].level
           type  == src[i].type
           pid   == type = ScmPidfd
           off   == at + 16
           hdr   == [w EXCEPT !.reads = @ \cup (at .. at + 15)]
           got   == Collect(hdr, Control, pid, off, n)
           in    == level = SolSocket /\ type \in {ScmRights, ScmPidfd}
           v     == ParseRights(Control, len, w)
           b     == 253 * i
           d     == 253 * (i + 1)
           xs    == Fds(i)
           P     == r[i - 1]
           A     == a[i - 1]
<1>1. /\ len \in Nat /\ L \in Nat /\ n \in Nat /\ n <= 253 /\ level \in Nat /\ type \in Nat
      /\ at \in Nat /\ Control \in Seq(Int) /\ Len(c[i]) = L + (4 + n + (n % 2))
  <2>1. len \in Nat
    BY FilledHolds
  <2>2. /\ L \in Nat /\ Control \in Seq(Int)
        /\ Len(c[i]) = L + (4 + n + (n % 2))
    BY ControlIs
  <2>3. n \in Nat /\ n \in 0 .. 253 /\ type \in Nat /\ level \in Nat
    BY MsgFields
  <2>4. n <= 253
    <3>1. \A x \in 0 .. 253 : x <= 253
      OBVIOUS
    <3> QED BY <2>3, <3>1, Zenon
  <2>5. at \in Nat
    <3> HIDE DEF L
    <3> QED BY <2>2
  <2> QED BY <2>1, <2>2, <2>3, <2>4, <2>5, Zenon
<1>2. at + 16 + 4 * n <= len
  BY FilledHolds
<1>3. xs \in Seq(Int) /\ Len(xs) = n /\ \A k \in 1 .. n : xs[k] = b + k
  BY FdsAre
<1>4. \A j \in 0 .. 3 + n : Word(Control, at + 4 * j) = Cmsg(i)[j + 1]
  BY WordIs
<1>5. /\ Cmsg(i)[1] = 16 + 4 * n /\ Cmsg(i)[2] = 0
      /\ Cmsg(i)[3] = level /\ Cmsg(i)[4] = type
      /\ \A k \in 1 .. n : Cmsg(i)[4 + k] = xs[k]
  BY CmsgIs
<1>6. /\ r[i] = IF level = SolSocket /\ type \in {ScmRights} THEN P \o xs ELSE P
      /\ a[i] = IF in THEN A \o xs ELSE A
  BY PassedIs
<1>7. w.at = at /\ HeldOf(w.rx, w.closed, P, A, b)
  BY <1>b, <1>c
<1> HIDE DEF L, n, at, level, type, Control, Cmsg, xs, P, A, v, d, b
<1> HIDE <1>a
<1>8. /\ Word(Control, at) = 16 + 4 * n /\ Word(Control, at + 4) = 0
      /\ Word(Control, at + 8) = level /\ Word(Control, at + 12) = type
  <2>1. 0 \in 0 .. 3 + n /\ 1 \in 0 .. 3 + n /\ 2 \in 0 .. 3 + n /\ 3 \in 0 .. 3 + n
    BY <1>1
  <2>2. /\ Word(Control, at + 4 * 0) = Cmsg(i)[0 + 1] /\ Word(Control, at + 4 * 1) = Cmsg(i)[1 + 1]
        /\ Word(Control, at + 4 * 2) = Cmsg(i)[2 + 1] /\ Word(Control, at + 4 * 3) = Cmsg(i)[3 + 1]
    BY <1>4, <2>1, Zenon
  <2>3. /\ at + 4 * 0 = at /\ at + 4 * 1 = at + 4 /\ at + 4 * 2 = at + 8 /\ at + 4 * 3 = at + 12
        /\ 0 + 1 = 1 /\ 1 + 1 = 2 /\ 2 + 1 = 3 /\ 3 + 1 = 4
    BY <1>1
  <2> QED BY <1>5, <2>2, <2>3
<1>9. \A k \in 1 .. n : xs[k] = b + k /\ Word(Control, off + 4 * (k - 1)) = xs[k]
  <2> TAKE k \in 1 .. n
  <2>1. 3 + k \in 0 .. 3 + n /\ off + 4 * (k - 1) = at + 4 * (3 + k) /\ (3 + k) + 1 = 4 + k
    BY <1>1
  <2>2. Word(Control, at + 4 * (3 + k)) = Cmsg(i)[(3 + k) + 1]
    BY <1>4, <2>1, Zenon
  <2>3. Cmsg(i)[4 + k] = xs[k] /\ xs[k] = b + k
    BY <1>3, <1>5
  <2> QED BY <2>1, <2>2, <2>3
<1>10. b \in Nat /\ b + n <= d /\ b <= d /\ d \in Int
  BY <1>1 DEF b, d
<1>11. /\ hdr \in Scan(len) /\ hdr.rx = w.rx /\ hdr.closed = w.closed
       /\ v.more /\ v.at = at + 16 + 4 * n + 4 * (n % 2)
       /\ IF in THEN v.rx = got.rx /\ v.closed = got.closed
          ELSE v.rx = w.rx /\ v.closed = w.closed
  <2>1. Turn(Control, len, w, at, n, level, type)
    BY <1>1, <1>2, <1>7, <1>8, <1>b DEF Turn
  <2>2. TurnTaken(ParseRights(Control, len, w), Control, len, w, at, n, level, type)
    BY <2>1, TurnIs
  <2> QED BY <2>2 DEF TurnTaken, v
<1>12. v.at = 4 * Len(c[i])
  <2>1. \A l, k \in Nat : 4 * l + 16 + 4 * k + 4 * (k % 2) = 4 * (l + (4 + k + (k % 2)))
    OBVIOUS
  <2>2. 4 * L + 16 + 4 * n + 4 * (n % 2) = 4 * (L + (4 + n + (n % 2)))
    BY <1>1, <2>1, Zenon
  <2> QED BY <1>1, <1>11, <2>2, Zenon DEF at
<1> HIDE DEF hdr
<1>13. CASE in
  <2>1. off \in Nat /\ off + 4 * n <= len /\ pid \in BOOLEAN
    BY <1>1, <1>2 DEF off
  <2>2. HeldOf(hdr.rx, hdr.closed, P, A, b)
    BY <1>7, <1>11
  <2> HIDE DEF off, pid, got
  <2>3. HeldOf(got.rx, got.closed, IF pid THEN P ELSE P \o xs, A \o xs, b + n)
    BY <1>1, <1>3, <1>9, <1>10, <1>11, <2>1, <2>2, CollectHolds DEF got
  <2>4. r[i] = (IF pid THEN P ELSE P \o xs) /\ a[i] = A \o xs
    <3>1. ScmRights # ScmPidfd
      BY DEF ScmRights, ScmPidfd
    <3> QED BY <1>6, <1>13, <3>1 DEF pid
  <2>5. HeldOf(v.rx, v.closed, r[i], a[i], b + n)
    BY <1>11, <1>13, <2>3, <2>4, Zenon
  <2>6. HeldOf(v.rx, v.closed, r[i], a[i], d)
    BY <1>10, <2>5, HeldBelow
  <2> QED BY <1>11, <1>12, <1>d, <2>6 DEF Reached, v, d
<1>14. CASE ~in
  <2>1. r[i] = P /\ a[i] = A
    BY <1>6, <1>14
  <2>2. HeldOf(v.rx, v.closed, r[i], a[i], b)
    BY <1>7, <1>11, <1>14, <2>1, Zenon
  <2>3. HeldOf(v.rx, v.closed, r[i], a[i], d)
    BY <1>10, <2>2, HeldBelow
  <2> QED BY <1>11, <1>12, <1>d, <2>3 DEF Reached, v, d
<1> QED BY <1>13, <1>14

\* Past the last one the walk ends, and takes nothing more.
LEMMA TurnEnds ==
  ASSUME NEW c, NEW r, NEW a, Split(c, r, a), NEW len \in Filled, NEW w \in Scan(len),
         w.more => Reached(w, c, r, a, len, Len(src))
  PROVE  LET v == ParseRights(Control, len, w) IN ~v.more /\ v.rx = w.rx /\ v.closed = w.closed
<1> DEFINE v == ParseRights(Control, len, w)
           L == Len(Control)
<1>1. CASE ~w.more
  BY <1>1 DEF ParseRights
<1>2. CASE w.more
  <2>1. w.at = 4 * L /\ len <= 4 * L /\ len \in Nat /\ L \in Nat
    <3>1. src \in Seq(Msg) /\ Sums(Int, Blocks, c)
      BY DEF Split
    <3>2. Control = c[Len(src)] /\ Control \in Seq(Int)
      BY <3>1, ControlIs
    <3>3. len \in Nat /\ len <= 4 * L
      BY <3>1, FilledHolds
    <3>4. w.at = 4 * Len(c[Len(src)])
      BY <1>2 DEF Reached
    <3> HIDE DEF Control
    <3> QED BY <3>2, <3>3, <3>4
  <2>2. len - w.at < CmsgHdr
    <3> HIDE DEF L
    <3> QED BY <2>1 DEF CmsgHdr
  <2>3. v = [w EXCEPT !.more = FALSE]
    BY <1>2, <2>2, Zenon DEF ParseRights
  <2> HIDE DEF v
  <2>4. ~v.more /\ v.rx = w.rx /\ v.closed = w.closed
    BY <2>3 DEF Scan
  <2> QED BY <2>4 DEF v
<1> QED BY <1>1, <1>2

LEMMA HeldOfNothing == HeldOf(<<>>, <<>>, <<>>, <<>>, 253)
<1>1. <<>> \in Seq(Int) /\ Len(<<>>) = 0
  BY EmptySeq
<1>2. FdMax \in Nat
  BY FdMaxConstant
<1>3. SubSeq(<<>>, 1, IF Len(<<>>) > FdMax THEN FdMax ELSE Len(<<>>)) = <<>>
  <2>1. (IF Len(<<>>) > FdMax THEN FdMax ELSE Len(<<>>)) = 0
    BY <1>1, <1>2
  <2>2. SubSeq(<<>>, 1, 0) = <<>>
    OBVIOUS
  <2> QED BY <2>1, <2>2
<1>4. ToSet(<<>>) = {}
  BY DEF ToSet
<1> DEFINE e == <<>>
<1>5. e \in Seq(Int) /\ Len(e) = 0 /\ ToSet(e) = {}
      /\ SubSeq(e, 1, IF Len(e) > FdMax THEN FdMax ELSE Len(e)) = e
  BY <1>1, <1>3, <1>4
<1> HIDE DEF e
<1>6. HeldOf(e, e, e, e, 253)
  BY <1>5 DEF HeldOf
<1> QED BY <1>6 DEF e

\* What was passed is held or closed.
LEMMA RightsHeld ==
  ASSUME src \in Seq(Msg), NEW len \in Filled
  PROVE  LET g == Rights(Control, len)
         IN  /\ ~g.more
             /\ \E b : HeldOf(g.rx, g.closed, FdsOf({ScmRights}), FdsOf({ScmRights, ScmPidfd}), b)
<1> DEFINE m == Len(src)
           n == len \div CmsgHdr + 1
<1>1. PICK c : Sums(Int, Blocks, c)
  <2>1. Blocks \in Seq(Seq(Int))
    <3>1. \A i \in 1 .. Len(src) : Cmsg(i) \in Seq(Int)
      BY CmsgIs
    <3> HIDE DEF Cmsg
    <3> QED BY <3>1 DEF Blocks
  <2> HIDE DEF Blocks
  <2> QED BY <2>1, SumsExist
<1>2. PICK r : Sums(Int, Passed({ScmRights}), r)
  BY PassedIs, SumsExist
<1>3. PICK a : Sums(Int, Passed({ScmRights, ScmPidfd}), a)
  BY PassedIs, SumsExist
<1>4. Split(c, r, a)
  BY <1>1, <1>2, <1>3 DEF Split
<1>5. Control \in Seq(Int) /\ len \in Nat /\ Len(c[0]) = 0 /\ m \in Nat
  BY <1>1, ControlIs, FilledHolds
<1>6. /\ FdsOf({ScmRights}) = r[m] /\ r[0] = <<>>
      /\ FdsOf({ScmRights, ScmPidfd}) = a[m] /\ a[0] = <<>>
  BY <1>2, <1>3, PassedIs
<1> HIDE DEF Control, FdsOf
<1>7. PICK f : RightsTurned(f, Control, len, n)
  BY <1>5, RightsWalks
<1>8. n \in Nat /\ n >= 1
  BY <1>5 DEF CmsgHdr
<1> HIDE DEF n
<1>9. /\ f \in [0 .. n -> Scan(len)] /\ f[0] = Rx0
      /\ \A k \in 1 .. n : f[k] = ParseRights(Control, len, f[k - 1])
      /\ Rights(Control, len) = f[n]
  BY <1>7 DEF RightsTurned
<1>10. ~f[n].more
  BY <1>5, <1>9, RightsStayInside
<1> DEFINE Held(k) == HeldOf(f[k].rx, f[k].closed, r[m], a[m], 253 * (m + 1))
           Q == {k \in 0 .. n : IF k <= m THEN Reached(f[k], c, r, a, len, k)
                                ELSE ~f[k].more /\ Held(k)}
<1> HIDE DEF m
<1>11. 0 \in Q
  <2>1. Reached(Rx0, c, r, a, len, 0)
    <3>1. Rx0 \in Scan(len)
      BY EmptySeq DEF Scan, Rx0
    <3>2. Rx0.more /\ Rx0.at = 4 * Len(c[0])
      BY <1>5 DEF Rx0
    <3>3. HeldOf(Rx0.rx, Rx0.closed, r[0], a[0], 253 * (0 + 1))
      <4>1. Rx0.rx = <<>> /\ Rx0.closed = <<>> /\ 253 * (0 + 1) = 253
        BY DEF Rx0
      <4> QED BY <1>6, <4>1, HeldOfNothing
    <3> QED BY <3>1, <3>2, <3>3 DEF Reached
  <2>2. 0 <= m /\ 0 \in 0 .. n
    BY <1>5, <1>8
  <2> QED BY <1>9, <2>1, <2>2
<1>12. ASSUME NEW k \in 1 .. n, k - 1 \in Q PROVE k \in Q
  <2>1. k - 1 \in 0 .. n /\ k \in 0 .. n
    BY <1>8
  <2>2. f[k - 1] \in Scan(len) /\ f[k] = ParseRights(Control, len, f[k - 1])
    BY <1>9, <2>1
  <2>3. CASE k <= m
    <3>1. k \in 1 .. Len(src) /\ k - 1 <= m
      BY <1>5, <2>3 DEF m
    <3>2. Reached(f[k - 1], c, r, a, len, k - 1)
      BY <1>12, <3>1
    <3>3. Reached(f[k], c, r, a, len, k)
      BY <1>4, <2>2, <3>1, <3>2, TurnReaches
    <3> QED BY <2>1, <2>3, <3>3
  <2>4. CASE ~(k <= m)
    <3>1. (f[k - 1].more => Reached(f[k - 1], c, r, a, len, m)) /\ Held(k - 1)
      <4>1. CASE k - 1 <= m
        <5>1. k - 1 = m
          BY <1>5, <2>4, <4>1
        <5>2. Reached(f[k - 1], c, r, a, len, m)
          BY <1>12, <4>1, <5>1
        <5> QED BY <5>2 DEF Reached
      <4>2. CASE ~(k - 1 <= m)
        BY <1>12, <4>2
      <4> QED BY <4>1, <4>2
    <3>2. ~f[k].more /\ f[k].rx = f[k - 1].rx /\ f[k].closed = f[k - 1].closed
      BY <1>4, <2>2, <3>1, TurnEnds DEF m
    <3>3. Held(k)
      BY <3>1, <3>2
    <3> QED BY <2>1, <2>4, <3>2, <3>3
  <2> QED BY <2>3, <2>4
<1>13. \A k \in 0 .. n : k \in Q
  <2> HIDE DEF Q
  <2> QED BY <1>8, <1>11, <1>12, UpTo
<1>14. Held(n)
  <2>1. n \in Q
    BY <1>8, <1>13
  <2>2. ~(n <= m)
    BY <1>10, <2>1 DEF Reached
  <2> QED BY <2>1, <2>2
<1> QED BY <1>6, <1>9, <1>10, <1>14

\* The text is of the reader's alphabet.
CtrlType ==
  /\ reader \in Readers
  /\ reader = "ctrl" => src \in Seq(Int)
  /\ reader = "cmsgs" => src \in Seq(Msg)

LEMMA CtrlTypeInit == TextInit => CtrlType
  BY EmptySeq DEF TextInit, CtrlType

LEMMA CtrlTypeNext == CtrlType /\ [TextNext]_textvars => CtrlType'
<1> SUFFICES ASSUME CtrlType, [TextNext]_textvars PROVE CtrlType'
  OBVIOUS
<1>1. CASE UNCHANGED textvars
  BY <1>1 DEF CtrlType, textvars
<1>2. ASSUME NEW p \in Phrases[reader], Type(p) PROVE CtrlType'
  <2>1. reader' = reader /\ src' = src \o p
    BY <1>2 DEF Type
  <2>2. ASSUME reader = "ctrl" PROVE src' \in Seq(Int)
    <3>1. src \in Seq(Int) /\ p \in Seq(Int)
      BY <1>2, <2>2, CtrlPhrases DEF CtrlType
    <3> QED BY <2>1, <3>1
  <2>3. ASSUME reader = "cmsgs" PROVE src' \in Seq(Msg)
    <3>1. src \in Seq(Msg) /\ p \in Seq(Msg)
      BY <1>2, <2>3, CtrlPhrases DEF CtrlType, Msg
    <3> HIDE DEF Msg
    <3> QED BY <2>1, <3>1
  <2> QED BY <2>1, <2>2, <2>3 DEF CtrlType
<1> QED BY <1>1, <1>2 DEF TextNext

LEMMA CtrlTypeCollected == CtrlType => RightsCollected
<1> SUFFICES ASSUME CtrlType PROVE RightsCollected
  OBVIOUS
<1>1. ASSUME reader = "ctrl", NEW cut \in 0 .. 8, cut <= 4 * Len(src)
      PROVE  LET r == Rights(src, 4 * Len(src) - cut)
             IN  r.reads \subseteq 0 .. 4 * Len(src) - cut - 1 /\ ~r.more
  <2> DEFINE len == 4 * Len(src) - cut
  <2>1. src \in Seq(Int)
    BY <1>1 DEF CtrlType
  <2>2. len \in Nat
    <3>1. Len(src) \in Nat
      BY <2>1
    <3> QED BY <1>1, <3>1
  <2> HIDE DEF len
  <2>3. Rights(src, len) \in Scan(len) /\ ~Rights(src, len).more
    BY <2>1, <2>2, RightsStayInside
  <2>4. Rights(src, len).reads \subseteq 0 .. len - 1
    BY <2>3 DEF Scan
  <2> QED BY <2>3, <2>4 DEF len
<1>2. ASSUME reader = "cmsgs", NEW n \in Filled
      PROVE  LET r      == Rights(Control, n)
                 passed == FdsOf({ScmRights})
                 held   == SubSeq(passed, 1, IF Len(passed) > FdMax THEN FdMax ELSE Len(passed))
             IN  /\ ~r.more
                 /\ r.rx = held
                 /\ Len(r.closed) = Len(FdsOf({ScmRights, ScmPidfd})) - Len(held)
                 /\ ToSet(r.closed) = ToSet(FdsOf({ScmRights, ScmPidfd})) \ ToSet(held)
  <2> DEFINE g == Rights(Control, n)
             P == FdsOf({ScmRights})
             A == FdsOf({ScmRights, ScmPidfd})
  <2>1. src \in Seq(Msg)
    BY <1>2 DEF CtrlType
  <2>2. ~g.more /\ \E b : HeldOf(g.rx, g.closed, P, A, b)
    BY <2>1, RightsHeld
  <2> HIDE DEF g, P, A
  <2>3. /\ g.rx = SubSeq(P, 1, IF Len(P) > FdMax THEN FdMax ELSE Len(P))
        /\ g.rx \in Seq(Int) /\ g.closed \in Seq(Int) /\ A \in Seq(Int)
        /\ Len(g.closed) + Len(g.rx) = Len(A)
        /\ ToSet(g.closed) = ToSet(A) \ ToSet(g.rx)
    BY <2>2 DEF HeldOf
  <2>4. Len(g.closed) = Len(A) - Len(g.rx)
    BY <2>3
  <2> QED BY <2>2, <2>3, <2>4, Zenon DEF g, P, A
<1> QED BY <1>1, <1>2 DEF RightsCollected

(* dbus_sys_parse_rights: whatever lengths the control messages claim, the  *)
(* walk ends and reads nothing beyond what the kernel filled; of what a     *)
(* kernel writes, in however many messages of however many descriptors,     *)
(* each that was passed is held, in order, or closed when there is no room  *)
(* for it, and the others are closed, each once.                            *)
THEOREM RightsAreCollected == TextSpec => []RightsCollected
<1> QED BY CtrlTypeInit, CtrlTypeNext, CtrlTypeCollected, PTL DEF TextSpec

-----------------------------------------------------------------------------
(* What the builds read (security_scan.py).                                 *)

\* A tree that a clean scan has seen; lib is what an include may name.
Scanned(s, lib) ==
  /\ s \in Seq(Item) /\ "tree" \in Readers
  /\ \A f, g \in Files(s) : f.path = g.path => f = g
  /\ ScanClean(s) /\ lib = EXTRA_STDLIB \cup Stdlib(s)

\* A file that was scanned whole, as code of a language.
Seen(s, lib, f, l) ==
  /\ f \in Files(s) /\ (f \in Walked(s) \/ f.path.top = "dist")
  /\ f.kind = "file" /\ f.path.lang = l /\ TextClean(s, f, lib)

Code(s, lib) == { r \in Files(s) \X {"cyr", "c"} : Seen(s, lib, r[1], r[2]) }

LEMMA FilesFit ==
  ASSUME NEW s, NEW lib, Scanned(s, lib), NEW f \in Files(s)
  PROVE  f.path.top # "lib" /\ (f.path.top = "dist" => f.path.lang = "cyr")
<1>1. PICK i \in DOMAIN s : s[i].what = "file" /\ f = s[i]
  BY DEF Files, Items
<1>2. s[i] \in Item
  BY <1>1 DEF Scanned
<1> QED BY <1>1, <1>2, TreePhrases DEF Scanned

\* A file of the tree that the walk comes to.
LEMMA WalkedSeen ==
  ASSUME NEW s, NEW lib, Scanned(s, lib), NEW f \in Files(s),
         f.path.top \in SCOPE, f.path.sub # "dots", f.path.lang \in {"cyr", "c"}
  PROVE  Seen(s, lib, f, f.path.lang)
<1>1. f.path.sub # "linked"
  BY DEF Scanned, ScanClean, Linked
<1>2. f \in Walked(s)
  BY <1>1 DEF Walked
<1>3. FileClean(s, f, lib)
  BY <1>2 DEF Scanned, ScanClean
<1>4. f.kind = "file" /\ TextClean(s, f, lib)
  BY <1>3 DEF FileClean
<1> QED BY <1>2, <1>4 DEF Seen

\* What an include or the manifest names, and is there.
LEMMA NamedSeen ==
  ASSUME NEW s, NEW lib, Scanned(s, lib), NEW f \in Files(s), Exists(s, f.path),
         f.path.top \in SCOPE, f.path.sub # "dots"
  PROVE  Seen(s, lib, f, "cyr")
<1>1. f.path.lang = "cyr"
  BY DEF Exists
<1> QED BY <1>1, WalkedSeen

\* What the manifest says of a file that a build is told to read.
LEMMA EntrySeen ==
  ASSUME NEW s, NEW lib, Scanned(s, lib), NEW f \in Files(s), NEW e \in Items(s, "entry"),
         <<e.sec, e.key>> \in {<<"build", "entry">>, <<"build", "test">>, <<"lib", "modules">>},
         f.path \in ToSet(e.value)
  PROVE  Seen(s, lib, f, "cyr")
<1>1. EntryOk(s, e)
  BY DEF Scanned, ScanClean, ManifestOk
<1>2. \/ NamesScanned(s, e, {"src", "tests"})
      \/ NamesScanned(s, e, {"src"})
  <2>1. CASE e.sec = "build" /\ e.key = "entry"
    BY <1>1, <2>1 DEF EntryOk
  <2>2. CASE e.sec = "build" /\ e.key = "test"
    BY <1>1, <2>2 DEF EntryOk
  <2>3. CASE e.sec = "lib" /\ e.key = "modules"
    BY <1>1, <2>3 DEF EntryOk
  <2> QED BY <2>1, <2>2, <2>3
<1>3. f.path.sub # "dots" /\ f.path.top \in SCOPE /\ Exists(s, f.path)
  BY <1>2 DEF NamesScanned, SCOPE
<1> QED BY <1>3, NamedSeen

LEMMA RootsSeen ==
  ASSUME NEW s, NEW lib, Scanned(s, lib)
  PROVE  Roots(s) \subseteq Code(s, lib)
<1>1. ASSUME NEW f \in Files(s), f.path.top = "dist" PROVE Seen(s, lib, f, "cyr")
  <2>1. f.kind = "file" /\ TextClean(s, f, lib)
    BY <1>1 DEF Scanned, ScanClean, BundleOk
  <2> QED BY <1>1, <2>1, FilesFit DEF Seen
<1>2. ASSUME NEW f \in Files(s), f.path.top = "tests", f.path.lang = "cyr", f.path.sub # "dots"
      PROVE  Seen(s, lib, f, "cyr")
  BY <1>2, WalkedSeen DEF SCOPE
<1>3. ASSUME NEW f \in Files(s), f.path.top = "deps", f.path.lang = "c", f.path.sub # "dots"
      PROVE  Seen(s, lib, f, "c")
  BY <1>3, WalkedSeen DEF SCOPE
<1>4. ASSUME NEW f \in Files(s), NEW e \in Items(s, "entry"), f.path \in ToSet(e.value),
             <<e.sec, e.key>> \in {<<"build", "entry">>, <<"build", "test">>, <<"lib", "modules">>}
      PROVE  Seen(s, lib, f, "cyr")
  BY <1>4, EntrySeen
<1>5. ASSUME NEW r \in Roots(s) PROVE r \in Code(s, lib)
  <2>1. CASE \E f \in Files(s) : r = <<f, "cyr">> /\ Seen(s, lib, f, "cyr")
    BY <2>1 DEF Code
  <2>2. CASE \E f \in Files(s) : r = <<f, "c">> /\ Seen(s, lib, f, "c")
    BY <2>2 DEF Code
  <2> QED BY <1>1, <1>2, <1>3, <1>4, <2>1, <2>2 DEF Roots
<1> QED BY <1>5

\* What a file that was scanned includes was scanned too.
LEMMA IncludesSeen ==
  ASSUME NEW s, NEW lib, Scanned(s, lib), NEW r \in Code(s, lib)
  PROVE  Includes(s, r) \subseteq Code(s, lib)
<1>1. r[1] \in Files(s) /\ r[2] \in {"cyr", "c"} /\ TextClean(s, r[1], lib) /\ r[1].path.lang = r[2]
  BY DEF Code, Seen
<1>2. ASSUME NEW f \in Files(s), NEW inc \in r[1].includes, f.path = inc.path,
             inc.form # "system" \/ f.path.sub = "dots" \/ f.path.top = "/"
      PROVE  <<f, r[2]>> \in Code(s, lib)
  <2>1. r[2] # "c"
    BY <1>1, <1>2 DEF TextClean, CIncludeOk
  <2>2. IncludeOk(s, inc, lib)
    BY <1>1, <2>1 DEF TextClean
  <2>3. f.path.top # "lib"
    BY FilesFit
  <2>4. f.path.sub # "dots" /\ f.path.top \in SCOPE /\ Exists(s, f.path)
    BY <1>2, <2>2, <2>3 DEF IncludeOk, SCOPE
  <2>5. Seen(s, lib, f, "cyr")
    BY <2>4, NamedSeen
  <2> QED BY <1>1, <2>1, <2>5 DEF Code
<1> QED BY <1>2 DEF Includes

\* So was all that the builds read.
LEMMA AllSeen ==
  ASSUME NEW s, NEW lib, Scanned(s, lib)
  PROVE  BuildReads(s) \subseteq Code(s, lib)
<1> DEFINE N == Len(s)
           S == SUBSET Code(s, lib)
           More(R) == R \cup UNION { Includes(s, r) : r \in R }
           h == [p \in (1 .. N) \X S |-> More(p[2])]
           F(g) == g = [n \in 0 .. N |-> IF n = 0 THEN Roots(s) ELSE More(g[n - 1])]
           c == CHOOSE g : F(g)
<1>0. N \in Nat
  BY DEF Scanned
<1> HIDE DEF N
<1>1. \A R \in S : More(R) \in S
  BY IncludesSeen
<1>2. PICK f : Turned(f, S, N, Roots(s), h)
  <2> HIDE DEF S, More
  <2>1. Roots(s) \in S
    BY RootsSeen DEF S
  <2>2. Turns(S, N, Roots(s), h)
    BY <1>0, <1>1, <2>1 DEF Turns
  <2> HIDE DEF h
  <2> QED BY <2>2, Iteration
<1>3. F(f)
  <2> HIDE DEF S, More
  <2>1. /\ f \in [0 .. N -> S] /\ f[0] = Roots(s)
        /\ \A k \in 1 .. N : f[k] = h[<<k, f[k - 1]>>]
    BY <1>2 DEF Turned
  <2>2. ASSUME NEW k \in 0 .. N PROVE f[k] = IF k = 0 THEN Roots(s) ELSE More(f[k - 1])
    <3>1. CASE k # 0
      <4>1. k \in 1 .. N /\ k - 1 \in 0 .. N
        BY <1>0, <3>1
      <4>2. <<k, f[k - 1]>> \in (1 .. N) \X S
        BY <2>1, <4>1
      <4> QED BY <2>1, <3>1, <4>1, <4>2
    <3> QED BY <2>1, <3>1
  <2>3. f = [k \in 0 .. N |-> f[k]]
    BY <2>1
  <2> QED BY <2>2, <2>3
<1>4. F(c)
  <2> HIDE DEF F
  <2> QED BY <1>3
<1>5. BuildReads(s) = c[N]
  BY DEF BuildReads, N
<1> DEFINE P == {k \in 0 .. N : c[k] \in S}
<1>6. \A k \in 0 .. N : k \in P
  <2> HIDE DEF c, S, More
  <2>1. 0 \in P
    BY <1>0, <1>4, RootsSeen DEF S
  <2>2. ASSUME NEW k \in 1 .. N, k - 1 \in P PROVE k \in P
    <3>1. c[k] = More(c[k - 1])
      BY <1>0, <1>4
    <3> QED BY <1>1, <2>2, <3>1
  <2> HIDE DEF P
  <2> QED BY <1>0, <2>1, <2>2, UpTo
<1>7. c[N] \in S
  <2>1. N \in 0 .. N
    BY <1>0
  <2> QED BY <1>6, <2>1
<1> QED BY <1>5, <1>7

\* The modules that the list allows, and the bench's.
LEMMA LibraryAllowed ==
  ASSUME NEW s, NEW lib, Scanned(s, lib)
  PROVE  lib \subseteq (ToSet(Allowed) \cup EXTRA_STDLIB) \ Denied
<1>1. ASSUME NEW e \in Items(s, "entry"), e.sec = "deps", e.key = "stdlib"
      PROVE  ToSet(e.value) \subseteq ToSet(Allowed) \ Denied
  <2>1. StdlibOk(e)
    BY <1>1 DEF Scanned, ScanClean, ManifestOk
  <2> QED BY <2>1 DEF StdlibOk
<1>2. Stdlib(s) \subseteq ToSet(Allowed) \ Denied
  BY <1>1 DEF Stdlib
<1> QED BY <1>2, ExtraAllowed DEF Scanned

LEMMA ModulesAllowed ==
  ASSUME NEW s, NEW lib, Scanned(s, lib)
  PROVE  Modules(s) \subseteq (ToSet(Allowed) \cup EXTRA_STDLIB) \ Denied
<1>1. ASSUME NEW r \in BuildReads(s), NEW inc \in r[1].includes,
             inc.form = "literal", inc.path.top = "lib"
      PROVE  inc.path.name \in lib
  <2>1. r \in Code(s, lib)
    BY AllSeen
  <2>2. TextClean(s, r[1], lib)
    BY <2>1 DEF Code, Seen
  <2>3. IncludeOk(s, inc, lib)
    BY <1>1, <2>2 DEF TextClean, CIncludeOk
  <2> QED BY <1>1, <2>3 DEF IncludeOk
<1>2. Modules(s) \subseteq lib
  BY <1>1 DEF Modules, Scanned
<1> QED BY <1>2, LibraryAllowed

\* No table or entry is left that pulls anything else in.
LEMMA NothingPulled ==
  ASSUME NEW s, NEW lib, Scanned(s, lib)
  PROVE  Pulled(s) = {}
<1>1. ManifestOk(s)
  BY DEF Scanned, ScanClean
<1>2. \A t \in Items(s, "table") : t.sec \in MANIFEST_SECTIONS
  BY <1>1 DEF ManifestOk
<1>3. ASSUME NEW e \in Items(s, "entry"), e.sec \in {"deps", "none"}, e.key # "stdlib" PROVE FALSE
  <2>1. EntryOk(s, e)
    BY <1>1 DEF ManifestOk
  <2> QED BY <1>3, <2>1 DEF EntryOk
<1> QED BY <1>2, <1>3 DEF Pulled, MANIFEST_SECTIONS

\* The tree is made of the alphabet's files and entries.
TreeType == reader \in Readers /\ (reader = "tree" => src \in Seq(Item))

LEMMA TreeTypeInit == TextInit => TreeType
  BY EmptySeq DEF TextInit, TreeType

LEMMA TreeTypeNext == TreeType /\ [TextNext]_textvars => TreeType'
<1> SUFFICES ASSUME TreeType, [TextNext]_textvars PROVE TreeType'
  OBVIOUS
<1>1. CASE UNCHANGED textvars
  BY <1>1 DEF TreeType, textvars
<1>2. ASSUME NEW p \in Phrases[reader], Type(p) PROVE TreeType'
  <2>1. reader' = reader /\ src' = src \o p
    BY <1>2 DEF Type
  <2>2. ASSUME reader = "tree" PROVE src' \in Seq(Item)
    <3>1. src \in Seq(Item) /\ p \in Seq(Item)
      BY <1>2, <2>2, TreePhrases DEF TreeType
    <3> QED BY <2>1, <3>1
  <2> QED BY <2>1, <2>2 DEF TreeType
<1> QED BY <1>1, <1>2 DEF TextNext

LEMMA TreeTypeScanned == TreeType => BuildScanned
<1> SUFFICES ASSUME TreeType, reader = "tree", ScanClean(src),
                    \A f, g \in Files(src) : f.path = g.path => f = g
             PROVE  /\ \A r \in BuildReads(src) :
                         r[1].path.top # "lib" =>
                           /\ r[1] \in Walked(src) \/ r[1].path.top = "dist"
                           /\ r[1].kind = "file" /\ r[1].text = "clean" /\ r[1].path.lang = r[2]
                    /\ Modules(src) \subseteq (ToSet(Allowed) \cup EXTRA_STDLIB) \ Denied
                    /\ Pulled(src) = {}
  BY DEF BuildScanned
<1> DEFINE lib == EXTRA_STDLIB \cup Stdlib(src)
<1>1. Scanned(src, lib)
  BY DEF TreeType, Scanned
<1> HIDE DEF lib
<1>2. ASSUME NEW r \in BuildReads(src)
      PROVE  /\ r[1] \in Walked(src) \/ r[1].path.top = "dist"
             /\ r[1].kind = "file" /\ r[1].text = "clean" /\ r[1].path.lang = r[2]
  <2>1. r \in Code(src, lib)
    BY <1>1, AllSeen
  <2> QED BY <2>1 DEF Code, Seen, TextClean
<1> QED BY <1>1, <1>2, ModulesAllowed, NothingPulled

(* security_scan.py: whatever the tree and the manifest, when the scan is   *)
(* clean then all that the builds read has been scanned, as the language it *)
(* is compiled as, and every library module that comes in is allowed.       *)
THEOREM BuildsAreScanned == TextSpec => []BuildScanned
<1> QED BY TreeTypeInit, TreeTypeNext, TreeTypeScanned, PTL DEF TextSpec
=============================================================================

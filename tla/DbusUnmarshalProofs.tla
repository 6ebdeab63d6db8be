-------------------------- MODULE DbusUnmarshalProofs --------------------------
(***************************************************************************)
(* What holds of DbusUnmarshal for every message. Of any bytes: the walk    *)
(* over the header fields goes on with each step and reads nothing beyond   *)
(* the end, so that both walks are functions of where they stand; one that  *)
(* was accepted can be read to its last field. Of fields that were encoded: *)
(* the message has each where the walk gets to, so that the walks, taken    *)
(* from their end, accept and find exactly what was sent.                   *)
(***************************************************************************)
EXTENDS DbusUnmarshal, SeqFacts, TLAPS

(* Where things are in a message.                                           *)

\* Aligning: up to the next multiple.
LEMMA AlignIs ==
  ASSUME NEW n \in Nat, NEW a \in {1, 2, 4, 8}
  PROVE  Align(n, a) \in Nat /\ n <= Align(n, a) /\ Align(n, a) < n + a /\ Align(n, a) % a = 0
<1>1. CASE a = 1
  BY <1>1 DEF Align
<1>2. CASE a = 2
  BY <1>2 DEF Align
<1>3. CASE a = 4
  BY <1>3 DEF Align
<1>4. CASE a = 8
  BY <1>4 DEF Align
<1> QED BY <1>1, <1>2, <1>3, <1>4

\* A byte of the message.
LEMMA AtIs ==
  ASSUME NEW p \in Seq(Nat), NEW o \in Nat, o < Len(p)
  PROVE  At(p, o) = p[o + 1] /\ At(p, o) \in Nat
<1>1. o + 1 \in 1 .. Len(p)
  OBVIOUS
<1> QED BY <1>1 DEF At

\* A length that is read is a number, whatever the bytes are.
LEMMA U32Type ==
  ASSUME NEW p \in Seq(Nat), NEW o \in Nat, o + 4 <= Len(p)
  PROVE  U32At(p, o) \in Nat
<1> DEFINE a == At(p, o)
           b == At(p, o + 1)
           c == At(p, o + 2)
           d == At(p, o + 3)
<1>1. a \in Nat /\ b \in Nat /\ c \in Nat /\ d \in Nat
  <2>1. Len(p) \in Nat
    OBVIOUS
  <2>2. o + 1 \in Nat /\ o + 2 \in Nat /\ o + 3 \in Nat
    OBVIOUS
  <2>3. o < Len(p) /\ o + 1 < Len(p) /\ o + 2 < Len(p) /\ o + 3 < Len(p)
    BY <2>1
  <2> QED BY <2>2, <2>3, AtIs
<1>2. U32At(p, o) = a + 256 * b + 65536 * c + 16777216 * d
  BY DEF U32At
<1> HIDE DEF a, b, c, d
<1> QED BY <1>1, <1>2

\* The widths of the basic types.
LEMMA WidthIs == \A t : BasicSize(t) \in {0, 1, 2, 4, 8} /\ BasicSize(117) = 4
  BY DEF BasicSize

(* The walk over the header fields of a message p, whatever its bytes are:  *)
(* end is where the array ends, by its length, if that is in the message.   *)

\* A field that was found lies in the array, and its value in the field.
FieldIn(p, f, at, end) ==
  /\ f.code \in Nat /\ f.vo \in Nat /\ f.nxt \in Nat
  /\ at + 4 <= f.vo /\ f.vo < f.nxt /\ f.nxt <= end
  /\ FieldType(f.code) \in {0, f.type}
  /\ f.type \in {111, 115} => U32At(p, f.vo) \in Nat /\ f.nxt = f.vo + 4 + U32At(p, f.vo) + 1
  /\ f.type = 103 => At(p, f.vo) \in Nat /\ f.nxt = f.vo + At(p, f.vo) + 2
  /\ f.type = 117 => f.nxt = f.vo + 4

\* What a step gives: nothing beyond the message is read for it.
Stepped(p, f, at, end) ==
  /\ f.ok \in BOOLEAN /\ f.reads \subseteq 0 .. Len(p) - 1
  /\ f.ok => FieldIn(p, f, at, end)

\* A message and a place in it.
Place(p, at, end) == p \in Seq(Nat) /\ at \in Nat /\ end \in Nat /\ end <= Len(p)

\* A step that refuses reads no more than it names.
LEMMA MalformedStepped ==
  ASSUME NEW p, NEW at, NEW end, NEW reads, reads \subseteq 0 .. Len(p) - 1
  PROVE  Stepped(p, Malformed(reads), at, end)
  BY DEF Stepped, Malformed

\* A step that finds gives a field of the array.
LEMMA FoundStepped ==
  ASSUME NEW p, NEW at, NEW end, NEW reads, reads \subseteq 0 .. Len(p) - 1,
         NEW code, NEW type, NEW vo, NEW nxt,
         FieldIn(p, [code |-> code, type |-> type, vo |-> vo, nxt |-> nxt], at, end)
  PROVE  Stepped(p, Found(code, type, vo, nxt, reads), at, end)
  BY DEF Stepped, Found, FieldIn

\* What a text is read from.
TextFrom(p, at, end, code, type, reads, vo) ==
  /\ Place(p, at, end) /\ code \in Nat /\ type \in {111, 115} /\ FieldType(code) \in {0, type}
  /\ reads \subseteq 0 .. Len(p) - 1 /\ vo \in Nat /\ at + 4 <= vo

\* A text that is found ends, with its NUL, in the array.
LEMMA StringStepped ==
  ASSUME NEW p, NEW at, NEW end, NEW code, NEW type, NEW reads, NEW vo,
         TextFrom(p, at, end, code, type, reads, vo)
  PROVE  Stepped(p, StringField(p, code, type, vo, end, reads), at, end)
<1> DEFINE n == U32At(p, vo)
           nxt == vo + 4 + n + 1
           got == reads \cup (vo .. vo + 3)
<1>a. /\ Place(p, at, end) /\ code \in Nat /\ type \in {111, 115} /\ FieldType(code) \in {0, type}
      /\ reads \subseteq 0 .. Len(p) - 1 /\ vo \in Nat /\ at + 4 <= vo
  BY DEF TextFrom
<1>0. p \in Seq(Nat) /\ at \in Nat /\ end \in Nat /\ end <= Len(p) /\ Len(p) \in Nat
  BY <1>a DEF Place
<1> USE <1>a
<1>1. CASE vo + 4 > end
  <2>1. StringField(p, code, type, vo, end, reads) = Malformed(reads)
    BY <1>1 DEF StringField
  <2> QED BY <2>1, MalformedStepped
<1>2. CASE ~(vo + 4 > end)
  <2>1. n \in Nat
    <3>1. vo + 4 <= Len(p)
      BY <1>0, <1>2
    <3> QED BY <1>0, <3>1, U32Type
  <2>2. got \subseteq 0 .. Len(p) - 1
    <3>1. vo .. vo + 3 \subseteq 0 .. Len(p) - 1
      BY <1>0, <1>2
    <3> QED BY <3>1
  <2>3. StringField(p, code, type, vo, end, reads) =
          IF nxt > end THEN Malformed(got) ELSE Found(code, type, vo, nxt, got)
    BY <1>2 DEF StringField
  <2> HIDE DEF n, got
  <2>4. CASE nxt > end
    BY <2>2, <2>3, <2>4, MalformedStepped
  <2>5. CASE ~(nxt > end)
    <3>1. nxt \in Nat /\ vo < nxt /\ nxt <= end
      BY <1>0, <2>1, <2>5
    <3>2. FieldIn(p, [code |-> code, type |-> type, vo |-> vo, nxt |-> nxt], at, end)
      <4>1. type # 103 /\ type # 117
        OBVIOUS
      <4> QED BY <2>1, <3>1, <4>1 DEF FieldIn, n
    <3> HIDE DEF nxt
    <3>3. Stepped(p, Found(code, type, vo, nxt, got), at, end)
      BY <2>2, <3>2, FoundStepped
    <3> QED BY <2>3, <2>5, <3>3
  <2> QED BY <2>4, <2>5
<1> QED BY <1>1, <1>2

\* So does a signature.
LEMMA SignatureStepped ==
  ASSUME NEW p, NEW at, NEW end, Place(p, at, end), NEW code \in Nat,
         FieldType(code) \in {0, 103},
         NEW reads, reads \subseteq 0 .. Len(p) - 1, NEW vo \in Nat, at + 4 <= vo
  PROVE  Stepped(p, SignatureField(p, code, vo, end, reads), at, end)
<1> DEFINE n == At(p, vo)
           nxt == vo + n + 2
           got == reads \cup {vo}
<1>0. p \in Seq(Nat) /\ at \in Nat /\ end \in Nat /\ end <= Len(p) /\ Len(p) \in Nat
  BY DEF Place
<1>1. CASE vo + 1 > end
  <2>1. SignatureField(p, code, vo, end, reads) = Malformed(reads)
    BY <1>1 DEF SignatureField
  <2> QED BY <2>1, MalformedStepped
<1>2. CASE ~(vo + 1 > end)
  <2>1. n \in Nat
    <3>1. vo < Len(p)
      BY <1>0, <1>2
    <3> QED BY <1>0, <3>1, AtIs
  <2>2. got \subseteq 0 .. Len(p) - 1
    BY <1>0, <1>2
  <2>3. SignatureField(p, code, vo, end, reads) =
          IF nxt > end THEN Malformed(got) ELSE Found(code, 103, vo, nxt, got)
    BY <1>2 DEF SignatureField
  <2> HIDE DEF n, got
  <2>4. CASE nxt > end
    BY <2>2, <2>3, <2>4, MalformedStepped
  <2>5. CASE ~(nxt > end)
    <3>1. nxt \in Nat /\ vo < nxt /\ nxt <= end
      BY <1>0, <2>1, <2>5
    <3>2. FieldIn(p, [code |-> code, type |-> 103, vo |-> vo, nxt |-> nxt], at, end)
      BY <2>1, <3>1 DEF FieldIn, n
    <3> HIDE DEF nxt
    <3>3. Stepped(p, Found(code, 103, vo, nxt, got), at, end)
      BY <2>2, <3>2, FoundStepped
    <3> QED BY <2>3, <2>5, <3>3
  <2> QED BY <2>4, <2>5
<1> QED BY <1>1, <1>2

\* _dbu_field_step: one step of the walk, over any bytes.
LEMMA FieldStepped ==
  ASSUME NEW p, NEW at, NEW end, Place(p, at, end)
  PROVE  Stepped(p, FieldAt(p, at, end), at, end)
<1> DEFINE code  == At(p, at)
           type  == At(p, at + 2)
           width == BasicSize(type)
           reads == at .. at + 3
           vo    == Align(at + 4, width)
           v4    == Align(at + 4, 4)
<1>0. p \in Seq(Nat) /\ at \in Nat /\ end \in Nat /\ end <= Len(p) /\ Len(p) \in Nat
  BY DEF Place
<1>1. FieldAt(p, at, end) =
        IF at + 4 > end THEN Malformed({})
        ELSE IF At(p, at + 1) # 1 \/ At(p, at + 3) # 0 \/ FieldType(code) \notin {0, type}
        THEN Malformed(reads)
        ELSE IF type \in {111, 115} THEN StringField(p, code, type, v4, end, reads)
        ELSE IF type = 103 THEN SignatureField(p, code, at + 4, end, reads)
        ELSE IF width = 0 \/ vo + width > end THEN Malformed(reads)
        ELSE Found(code, type, vo, vo + width, reads)
  BY DEF FieldAt
<1>2. CASE at + 4 > end
  <2>1. Stepped(p, Malformed({}), at, end)
    BY MalformedStepped
  <2> QED BY <1>1, <1>2, <2>1
<1>3. CASE ~(at + 4 > end)
  <2>1. code \in Nat
    <3>1. at < Len(p)
      BY <1>0, <1>3
    <3> QED BY <1>0, <3>1, AtIs
  <2>2. reads \subseteq 0 .. Len(p) - 1
    BY <1>0, <1>3
  <2>3. Stepped(p, Malformed(reads), at, end)
    BY <2>2, MalformedStepped
  <2>4. v4 \in Nat /\ at + 4 <= v4
    <3>1. at + 4 \in Nat
      BY <1>0
    <3> QED BY <3>1, AlignIs
  <2> HIDE DEF code, type, reads, v4
  <2>5. CASE At(p, at + 1) # 1 \/ At(p, at + 3) # 0 \/ FieldType(code) \notin {0, type}
    BY <1>1, <1>3, <2>3, <2>5
  <2>6. CASE ~(At(p, at + 1) # 1 \/ At(p, at + 3) # 0 \/ FieldType(code) \notin {0, type})
    <3>1. CASE type \in {111, 115}
      <4>1. Stepped(p, StringField(p, code, type, v4, end, reads), at, end)
        <5>1. type \in {111, 115} /\ FieldType(code) \in {0, type}
          BY <2>6, <3>1
        <5>2. TextFrom(p, at, end, code, type, reads, v4)
          BY <2>1, <2>2, <2>4, <5>1 DEF TextFrom
        <5> QED BY <5>2, StringStepped
      <4> QED BY <1>1, <1>3, <2>6, <3>1, <4>1
    <3>2. CASE type = 103
      <4>1. Stepped(p, SignatureField(p, code, at + 4, end, reads), at, end)
        <5> DEFINE w == at + 4
        <5>1. w \in Nat /\ at + 4 <= w /\ FieldType(code) \in {0, 103}
          BY <1>0, <2>6, <3>2
        <5> HIDE DEF w
        <5>2. Stepped(p, SignatureField(p, code, w, end, reads), at, end)
          BY <2>1, <2>2, <5>1, SignatureStepped
        <5> QED BY <5>2 DEF w
      <4> QED BY <1>1, <1>3, <2>6, <3>2, <4>1
    <3>3. CASE type \notin {111, 115, 103}
      <4>1. FieldAt(p, at, end) = IF width = 0 \/ vo + width > end THEN Malformed(reads)
                                  ELSE Found(code, type, vo, vo + width, reads)
        BY <1>1, <1>3, <2>6, <3>3
      <4>2. CASE width = 0 \/ vo + width > end
        BY <2>3, <4>1, <4>2
      <4>3. CASE width # 0 /\ ~(vo + width > end)
        <5>1. width \in {1, 2, 4, 8} /\ (type = 117 => width = 4)
          BY <4>3, WidthIs
        <5>2. vo \in Nat /\ at + 4 <= vo
          <6>1. at + 4 \in Nat
            BY <1>0
          <6> HIDE DEF width
          <6> QED BY <5>1, <6>1, AlignIs
        <5> HIDE DEF width, vo
        <5> DEFINE nxt == vo + width
        <5>3. nxt \in Nat /\ vo < nxt /\ nxt <= end /\ (type = 117 => nxt = vo + 4)
          BY <1>0, <4>3, <5>1, <5>2
        <5> HIDE DEF nxt
        <5>4. FieldIn(p, [code |-> code, type |-> type, vo |-> vo, nxt |-> nxt], at, end)
          BY <2>1, <2>6, <3>3, <5>2, <5>3 DEF FieldIn
        <5>5. Stepped(p, Found(code, type, vo, nxt, reads), at, end)
          BY <2>2, <5>4, FoundStepped
        <5> QED BY <4>1, <4>3, <5>5 DEF nxt
      <4> QED BY <4>2, <4>3
    <3> QED BY <3>1, <3>2, <3>3
  <2> QED BY <2>5, <2>6
<1> QED BY <1>2, <1>3

\* The message is long enough, and its array ends in it.
Sized(p) == p \in Seq(Nat) /\ 16 <= Len(p) /\ FieldsEnd(p) <= Len(p)

\* The numbers of such a message.
LEMMA SizedIs ==
  ASSUME NEW p, Sized(p)
  PROVE  p \in Seq(Nat) /\ Len(p) \in Nat /\ 16 <= Len(p) /\ FieldsEnd(p) \in Nat /\ FieldsEnd(p) <= Len(p)
<1>1. p \in Seq(Nat) /\ 16 <= Len(p) /\ FieldsEnd(p) <= Len(p)
  BY DEF Sized
<1>2. Len(p) \in Nat
  BY <1>1
<1>3. U32At(p, 12) \in Nat
  <2>1. 12 \in Nat /\ 12 + 4 <= Len(p)
    BY <1>1, <1>2
  <2> QED BY <1>1, <2>1, U32Type
<1>4. FieldsEnd(p) \in Nat
  BY <1>3 DEF FieldsEnd
<1> QED BY <1>1, <1>2, <1>4

\* The next field of the walk.
NextIs(p, f, at) ==
  /\ f.ok \in BOOLEAN /\ f.reads \subseteq 0 .. Len(p) - 1
  /\ f.ok => /\ f.nxt \in 16 .. Len(p) /\ at < f.nxt
             /\ FieldIn(p, f, Align(at, 8), FieldsEnd(p))

\* A field that is found lies behind where the walk stood.
LEMMA NextFieldIs ==
  ASSUME NEW p, Sized(p), NEW at \in 16 .. Len(p)
  PROVE  NextIs(p, NextField(p, at), at)
<1> DEFINE a == Align(at, 8)
           end == FieldsEnd(p)
           f == NextField(p, at)
<1>1. p \in Seq(Nat) /\ Len(p) \in Nat /\ end \in Nat /\ end <= Len(p)
  BY SizedIs
<1>2. a \in Nat /\ at <= a /\ at \in Nat /\ 16 <= at
  <2>1. at \in Nat /\ 16 <= at
    BY <1>1
  <2> QED BY <2>1, AlignIs
<1> HIDE DEF a, end
<1>3. Stepped(p, FieldAt(p, a, end), a, end)
  BY <1>1, <1>2, FieldStepped DEF Place
<1>4. f = FieldAt(p, a, end)
  BY DEF NextField, a, end
<1> HIDE DEF f
<1>5. /\ f.ok \in BOOLEAN /\ f.reads \subseteq 0 .. Len(p) - 1
      /\ f.ok => FieldIn(p, f, a, end)
  BY <1>3, <1>4 DEF Stepped
<1>6. ASSUME f.ok PROVE f.nxt \in 16 .. Len(p) /\ at < f.nxt
  <2>1. /\ f.vo \in Nat /\ f.nxt \in Nat /\ a + 4 <= f.vo /\ f.vo < f.nxt /\ f.nxt <= end
    BY <1>5, <1>6 DEF FieldIn
  <2> QED BY <1>1, <1>2, <2>1
<1>7. NextIs(p, f, at)
  BY <1>5, <1>6 DEF NextIs, a, end
<1> QED BY <1>7 DEF f

\* Looking for a field is a function of where the walk is.
Looks(p) == [off : Int, reads : SUBSET (0 .. Len(p) - 1)]

Finding(g, p, code) ==
  /\ g \in [16 .. Len(p) -> Looks(p)]
  /\ \A at \in 16 .. Len(p) :
       g[at] = LET f == NextField(p, at)
               IN  IF Ended(p, at) THEN [off |-> -1, reads |-> {}]
                   ELSE IF ~f.ok THEN [off |-> -2, reads |-> f.reads]
                   ELSE IF f.code = code THEN [off |-> f.vo, reads |-> f.reads]
                   ELSE [g[f.nxt] EXCEPT !.reads = @ \cup f.reads]
  /\ FindField(p, code) = [g[16] EXCEPT !.reads = @ \cup (12 .. 15)]

\* The walk for a code is well defined: each step that goes on goes further.
LEMMA FindWalks ==
  ASSUME NEW p, Sized(p), NEW code
  PROVE  \E g : Finding(g, p, code)
<1> DEFINE D == 16 .. Len(p)
           S == Looks(p)
           N == Len(p)
           F(at) == NextField(p, at)
           m == [at \in D |-> N - at]
           E == {at \in D : Ended(p, at) \/ ~F(at).ok \/ F(at).code = code}
           c == [at \in D |-> IF Ended(p, at) THEN [off |-> -1, reads |-> {}]
                              ELSE IF ~F(at).ok THEN [off |-> -2, reads |-> F(at).reads]
                              ELSE IF F(at).code = code THEN [off |-> F(at).vo, reads |-> F(at).reads]
                              ELSE [off |-> -1, reads |-> {}]]
           nxt == [at \in D |-> IF at \in E THEN at ELSE F(at).nxt]
           h == [d \in D \X S |-> [d[2] EXCEPT !.reads = @ \cup (IF d[1] \in E THEN {} ELSE F(d[1]).reads)]]
           Body(g, at) == IF Ended(p, at) THEN [off |-> -1, reads |-> {}]
                          ELSE IF ~F(at).ok THEN [off |-> -2, reads |-> F(at).reads]
                          ELSE IF F(at).code = code THEN [off |-> F(at).vo, reads |-> F(at).reads]
                          ELSE [g[F(at).nxt] EXCEPT !.reads = @ \cup F(at).reads]
<1>0. p \in Seq(Nat) /\ N \in Nat /\ 16 <= N /\ FieldsEnd(p) <= N
  BY SizedIs
<1>1. \A at \in D : NextIs(p, F(at), at)
  BY NextFieldIs
<1> HIDE DEF F
<1>2. ASSUME NEW at \in D
      PROVE  /\ F(at).ok \in BOOLEAN /\ F(at).reads \subseteq 0 .. N - 1
             /\ F(at).ok => F(at).nxt \in D /\ at < F(at).nxt /\ F(at).vo \in Nat
  BY <1>1 DEF NextIs, FieldIn
<1>3. m \in [D -> 0 .. N] /\ E \in SUBSET D
  BY <1>0
<1>4. nxt \in [D -> D] /\ \A d \in D \ E : m[nxt[d]] < m[d]
  <2>1. \A d \in D \ E : F(d).nxt \in D /\ d < F(d).nxt
    BY <1>2
  <2>2. \A d \in D : nxt[d] \in D
    BY <2>1
  <2>3. \A d \in D \ E : m[nxt[d]] < m[d]
    <3> TAKE d \in D \ E
    <3>1. nxt[d] = F(d).nxt /\ F(d).nxt \in D /\ d < F(d).nxt
      BY <2>1
    <3> HIDE DEF E
    <3> QED BY <1>0, <3>1
  <2> QED BY <2>2, <2>3
<1>5. c \in [D -> S]
  <2>1. ASSUME NEW at \in D PROVE c[at] \in S
    <3>1. F(at).reads \in SUBSET (0 .. N - 1) /\ {} \in SUBSET (0 .. N - 1) /\ (F(at).ok => F(at).vo \in Int)
      BY <1>2
    <3> HIDE DEF N
    <3> QED BY <3>1 DEF Looks, N
  <2> HIDE DEF S
  <2> QED BY <2>1
<1>6. h \in [D \X S -> S]
  <2>1. ASSUME NEW d \in D \X S PROVE h[d] \in S
    <3>1. d[1] \in D /\ d[2] \in S
      OBVIOUS
    <3>2. F(d[1]).reads \in SUBSET (0 .. N - 1)
      BY <1>2, <3>1
    <3> HIDE DEF E, N
    <3>3. \A x \in S, r \in SUBSET (0 .. Len(p) - 1) : [x EXCEPT !.reads = @ \cup r] \in S
      BY DEF Looks
    <3>4. (IF d[1] \in E THEN {} ELSE F(d[1]).reads) \in SUBSET (0 .. Len(p) - 1)
      BY <3>2 DEF N
    <3> HIDE DEF S
    <3> QED BY <3>1, <3>3, <3>4
  <2> HIDE DEF S
  <2> QED BY <2>1
<1> HIDE DEF m
<1>7. PICK g : Solves(g, D, S, E, c, nxt, h)
  <2> HIDE DEF D, S, N, E, c, nxt, h
  <2>1. Descends(D, S, N, m, E, c, nxt, h)
    BY <1>0, <1>3, <1>4, <1>5, <1>6 DEF Descends
  <2> QED BY <2>1, Recursion
<1>8. g \in [D -> S] /\ \A d \in D : g[d] = IF d \in E THEN c[d] ELSE h[<<d, g[nxt[d]]>>]
  BY <1>7 DEF Solves
<1>9. ASSUME NEW at \in D PROVE g[at] = Body(g, at)
  <2>1. CASE at \in E
    <3>1. g[at] = c[at]
      BY <1>8, <2>1
    <3> QED BY <2>1, <3>1
  <2>2. CASE at \notin E
    <3>1. nxt[at] = F(at).nxt /\ F(at).nxt \in D
      BY <1>2, <2>2
    <3>2. g[F(at).nxt] \in S
      BY <1>8, <3>1
    <3>3. g[at] = h[<<at, g[F(at).nxt]>>]
      <4> HIDE DEF E, D, S, h, nxt
      <4> QED BY <1>8, <2>2, <3>1
    <3>4. h[<<at, g[F(at).nxt]>>] = [g[F(at).nxt] EXCEPT !.reads = @ \cup F(at).reads]
      BY <2>2, <3>2
    <3> QED BY <2>2, <3>3, <3>4
  <2> QED BY <2>1, <2>2
<1> DEFINE Q(k) == k = [at \in D |-> Body(k, at)]
           w == CHOOSE k : Q(k)
<1>10. Q(g)
  <2> HIDE DEF S, Body
  <2> QED BY <1>8, <1>9
<1>11. Q(w)
  <2> HIDE DEF Q
  <2> QED BY <1>10
<1>12. FindField(p, code) = [w[16] EXCEPT !.reads = @ \cup (12 .. 15)]
  <2>1. ~(N < 16) /\ ~(FieldsEnd(p) > N)
    <3>1. FieldsEnd(p) \in Nat
      BY SizedIs
    <3> QED BY <1>0, <3>1
  <2> QED BY <2>1 DEF FindField, F
<1>13. w \in [D -> S]
  <2> DEFINE P == {at \in D : w[at] \in S}
  <2>1. ASSUME NEW d \in D, \A e \in D : m[e] < m[d] => e \in P PROVE d \in P
    <3>1. w[d] = Body(w, d)
      BY <1>11
    <3>2. CASE d \in E
      <4>1. Body(w, d) = c[d]
        BY <3>2
      <4> QED BY <1>5, <3>1, <4>1
    <3>3. CASE d \notin E
      <4> DEFINE e == F(d).nxt
      <4>1. e \in D /\ nxt[d] = e
        BY <1>2, <3>3
      <4>2. m[e] < m[d]
        BY <1>4, <3>3, <4>1
      <4>3. w[e] \in S
        BY <2>1, <4>1, <4>2
      <4>4. Body(w, d) = h[<<d, w[e]>>]
        <5>1. h[<<d, w[e]>>] = [w[e] EXCEPT !.reads = @ \cup F(d).reads]
          <6> HIDE DEF w, e
          <6> QED BY <3>3, <4>3
        <5>2. Body(w, d) = [w[e] EXCEPT !.reads = @ \cup F(d).reads]
          BY <3>3
        <5> QED BY <5>1, <5>2
      <4>5. <<d, w[e]>> \in D \X S
        BY <4>3
      <4> HIDE DEF h, S, Body, e, D
      <4>6. h[<<d, w[e]>>] \in S
        BY <1>6, <4>5
      <4> QED BY <3>1, <4>4, <4>6
    <3> QED BY <3>2, <3>3
  <2>2. Inherits(D, m, P)
    <3>1. m \in [D -> Nat]
      BY <1>0, <1>3
    <3> HIDE DEF D
    <3> QED BY <2>1, <3>1 DEF Inherits
  <2>3. P = D
    <3> HIDE DEF P, D
    <3> QED BY <2>2, Descent
  <2> HIDE DEF S, Body
  <2>4. w = [at \in D |-> w[at]]
    BY <1>11
  <2> QED BY <2>3, <2>4
<1>14. \A at \in D : w[at] = Body(w, at)
  <2> HIDE DEF Body, w
  <2> QED BY <1>11
<1>15. Finding(w, p, code)
  <2> HIDE DEF w
  <2> QED BY <1>12, <1>13, <1>14 DEF Finding, F
<1> QED BY <1>15

\* Validating is one of where the walk is and the codes it has seen.
Verdicts(p) == [ok : BOOLEAN, reads : SUBSET (0 .. Len(p) - 1)]
Seen == SUBSET (1 .. 9)
AddSeen(seen, f) == seen \cup ({f.code} \cap 1 .. 9)

Validating(g, p) ==
  /\ \A at \in 16 .. Len(p), seen \in Seen :
       /\ g[at][seen] \in Verdicts(p)
       /\ g[at][seen] =
            LET f   == NextField(p, at)
                got == f.reads \cup TextOf(f)
            IN  IF Ended(p, at) THEN [ok |-> TRUE, reads |-> {}]
                ELSE IF ~f.ok THEN [ok |-> FALSE, reads |-> f.reads]
                ELSE IF ~ValueOk(p, f, seen) THEN [ok |-> FALSE, reads |-> got]
                ELSE [g[f.nxt][AddSeen(seen, f)] EXCEPT !.reads = @ \cup got]
  /\ Validate(p) = [g[16][{}] EXCEPT !.reads = @ \cup (12 .. 15)]

\* So is the walk that validates, for any codes seen.
LEMMA ValidateWalks ==
  ASSUME NEW p, Sized(p)
  PROVE  \E g : Validating(g, p)
<1> DEFINE D == 16 .. Len(p)
           V == Verdicts(p)
           S == [Seen -> V]
           N == Len(p)
           F(at) == NextField(p, at)
           G(at) == F(at).reads \cup TextOf(F(at))
           m == [at \in D |-> N - at]
           E == {at \in D : Ended(p, at) \/ ~F(at).ok}
           C(at) == IF Ended(p, at) THEN [ok |-> TRUE, reads |-> {}]
                    ELSE [ok |-> FALSE, reads |-> F(at).reads]
           H(at, v, seen) == IF ~ValueOk(p, F(at), seen) THEN [ok |-> FALSE, reads |-> G(at)]
                             ELSE [v[AddSeen(seen, F(at))] EXCEPT !.reads = @ \cup G(at)]
           c == [at \in D |-> [seen \in Seen |-> C(at)]]
           nxt == [at \in D |-> IF at \in E THEN at ELSE F(at).nxt]
           h == [d \in D \X S |-> IF d[1] \in E THEN d[2] ELSE [seen \in Seen |-> H(d[1], d[2], seen)]]
           Body(g, at) == [seen \in Seen |->
                             IF Ended(p, at) THEN [ok |-> TRUE, reads |-> {}]
                             ELSE IF ~F(at).ok THEN [ok |-> FALSE, reads |-> F(at).reads]
                             ELSE H(at, g[F(at).nxt], seen)]
<1>0. p \in Seq(Nat) /\ N \in Nat /\ 16 <= N /\ FieldsEnd(p) <= N /\ FieldsEnd(p) \in Nat
  BY SizedIs
<1>1. \A at \in D : NextIs(p, F(at), at)
  BY NextFieldIs
<1> HIDE DEF F
<1>2. ASSUME NEW at \in D
      PROVE  /\ F(at).ok \in BOOLEAN /\ F(at).reads \subseteq 0 .. N - 1
             /\ F(at).ok => F(at).nxt \in D /\ at < F(at).nxt /\ G(at) \subseteq 0 .. N - 1
  <2>1. /\ F(at).ok \in BOOLEAN /\ F(at).reads \subseteq 0 .. N - 1
        /\ F(at).ok => F(at).nxt \in D /\ at < F(at).nxt /\ F(at).vo \in Nat
    BY <1>1 DEF NextIs, FieldIn
  <2>2. ASSUME F(at).ok PROVE G(at) \subseteq 0 .. N - 1
    <3>1. F(at).vo .. F(at).nxt - 1 \subseteq 0 .. N - 1
      <4> DEFINE a == F(at).vo
                 b == F(at).nxt
      <4>1. a \in Nat /\ b \in Nat /\ b <= N
        BY <1>0, <2>1, <2>2
      <4> HIDE DEF a, b
      <4>2. a .. b - 1 \subseteq 0 .. N - 1
        BY <1>0, <4>1
      <4> QED BY <4>2 DEF a, b
    <3> QED BY <2>1, <3>1 DEF TextOf
  <2> QED BY <2>1, <2>2
<1>3. m \in [D -> 0 .. N] /\ E \in SUBSET D
  BY <1>0
<1>4. nxt \in [D -> D] /\ \A d \in D \ E : m[nxt[d]] < m[d]
  <2>1. \A d \in D \ E : F(d).nxt \in D /\ d < F(d).nxt
    BY <1>2
  <2>2. \A d \in D : nxt[d] \in D
    BY <2>1
  <2>3. \A d \in D \ E : m[nxt[d]] < m[d]
    <3> TAKE d \in D \ E
    <3>1. nxt[d] = F(d).nxt /\ F(d).nxt \in D /\ d < F(d).nxt
      BY <2>1
    <3> HIDE DEF E
    <3> QED BY <1>0, <3>1
  <2> QED BY <2>2, <2>3
<1>5. \A at \in D : C(at) \in V
  <2> TAKE at \in D
  <2>1. F(at).reads \in SUBSET (0 .. N - 1) /\ {} \in SUBSET (0 .. N - 1)
    BY <1>2
  <2> HIDE DEF N
  <2> QED BY <2>1 DEF Verdicts, N
<1>6. ASSUME NEW at \in D \ E, NEW v \in S, NEW seen \in Seen PROVE H(at, v, seen) \in V
  <2>1. G(at) \in SUBSET (0 .. N - 1)
    BY <1>2, <1>6
  <2>2. v[AddSeen(seen, F(at))] \in V
    <3>1. AddSeen(seen, F(at)) \in Seen
      BY DEF AddSeen, Seen
    <3> HIDE DEF V
    <3> QED BY <3>1
  <2> HIDE DEF G
  <2>3. \A x \in V, r \in SUBSET (0 .. Len(p) - 1) : [x EXCEPT !.reads = @ \cup r] \in V
    BY DEF Verdicts
  <2>4. [ok |-> FALSE, reads |-> G(at)] \in V
    BY <2>1 DEF Verdicts, N
  <2> HIDE DEF V
  <2> QED BY <2>1, <2>2, <2>3, <2>4 DEF N
<1> HIDE DEF C, H
<1>7. c \in [D -> S]
  <2> HIDE DEF V, D
  <2> QED BY <1>5
<1>8. h \in [D \X S -> S]
  <2>1. ASSUME NEW d \in D \X S PROVE h[d] \in S
    <3>1. d[1] \in D /\ d[2] \in S
      OBVIOUS
    <3>2. CASE d[1] \in E
      <4> HIDE DEF E, S
      <4> QED BY <3>1, <3>2
    <3>3. CASE d[1] \notin E
      <4> DEFINE at == d[1]
                 v == d[2]
      <4>1. at \in D \ E /\ v \in S
        BY <3>1, <3>3
      <4>2. \A seen \in Seen : H(at, v, seen) \in V
        <5> HIDE DEF at, v, S, E, D, V
        <5> QED BY <1>6, <4>1
      <4>3. h[d] = [seen \in Seen |-> H(at, v, seen)]
        <5> HIDE DEF E, S, D
        <5> QED BY <3>3
      <4> HIDE DEF h, at, v, V
      <4> QED BY <4>2, <4>3
    <3> QED BY <3>2, <3>3
  <2>2. h = [d \in D \X S |-> h[d]]
    <3> HIDE DEF S, D, E
    <3> QED OBVIOUS
  <2> HIDE DEF S, h, D
  <2> QED BY <2>1, <2>2
<1> HIDE DEF m
<1>9. PICK g : Solves(g, D, S, E, c, nxt, h)
  <2> HIDE DEF D, S, N, E, c, nxt, h
  <2>1. Descends(D, S, N, m, E, c, nxt, h)
    BY <1>0, <1>3, <1>4, <1>7, <1>8 DEF Descends
  <2> QED BY <2>1, Recursion
<1>10. g \in [D -> S] /\ \A d \in D : g[d] = IF d \in E THEN c[d] ELSE h[<<d, g[nxt[d]]>>]
  BY <1>9 DEF Solves
<1>11. \A at \in D : at \in E => \A k : Body(k, at) = c[at]
  <2> TAKE at \in D
  <2> HAVE at \in E
  <2> TAKE k
  <2>1. Ended(p, at) \/ ~F(at).ok
    OBVIOUS
  <2>2. \A seen \in Seen : (IF Ended(p, at) THEN [ok |-> TRUE, reads |-> {}]
                            ELSE IF ~F(at).ok THEN [ok |-> FALSE, reads |-> F(at).reads]
                            ELSE H(at, k[F(at).nxt], seen)) = C(at)
    BY <2>1 DEF C
  <2> HIDE DEF E, D
  <2> QED BY <2>2
<1>12. ASSUME NEW at \in D \ E
       PROVE  /\ F(at).nxt \in D /\ nxt[at] = F(at).nxt
              /\ \A k : /\ Body(k, at) = [seen \in Seen |-> H(at, k[F(at).nxt], seen)]
                        /\ k[F(at).nxt] \in S => Body(k, at) = h[<<at, k[F(at).nxt]>>]
  <2>1. F(at).nxt \in D /\ nxt[at] = F(at).nxt /\ ~Ended(p, at) /\ F(at).ok
    BY <1>2, <1>12
  <2>2. ASSUME NEW k
        PROVE Body(k, at) = [seen \in Seen |-> H(at, k[F(at).nxt], seen)]
    <3> HIDE DEF E, D
    <3> QED BY <2>1
  <2>3. ASSUME NEW v \in S PROVE h[<<at, v>>] = [seen \in Seen |-> H(at, v, seen)]
    <3> HIDE DEF E, S, D
    <3> QED BY <1>12
  <2> HIDE DEF h, Body, S
  <2> QED BY <2>1, <2>2, <2>3
<1>13. \A at \in D : g[at] = Body(g, at)
  <2> TAKE at \in D
  <2>1. CASE at \in E
    <3> HIDE DEF E, c, Body, D
    <3> QED BY <1>10, <1>11, <2>1
  <2>2. CASE at \notin E
    <3> HIDE DEF E, h, Body, D, S, nxt
    <3>1. F(at).nxt \in D /\ nxt[at] = F(at).nxt
      BY <1>12, <2>2
    <3>2. g[F(at).nxt] \in S
      BY <1>10, <3>1
    <3>3. Body(g, at) = h[<<at, g[F(at).nxt]>>]
      BY <1>12, <2>2, <3>2
    <3> QED BY <1>10, <2>2, <3>1, <3>3
  <2> QED BY <2>1, <2>2
<1> DEFINE Q(k) == k = [at \in D |-> Body(k, at)]
           w == CHOOSE k : Q(k)
<1>14. Q(g)
  <2> HIDE DEF S, Body
  <2> QED BY <1>10, <1>13
<1>15. Q(w)
  <2> HIDE DEF Q
  <2> QED BY <1>14
<1>16. Validate(p) = [w[16][{}] EXCEPT !.reads = @ \cup (12 .. 15)]
  <2>1. ~(N < 16) /\ ~(FieldsEnd(p) > N)
    BY <1>0
  <2> QED BY <2>1 DEF Validate, F, G, H, AddSeen, Seen
<1> HIDE DEF w
<1>17. \A at \in D : w[at] = Body(w, at)
  <2> HIDE DEF Body
  <2> QED BY <1>15
<1>18. \A at \in D : w[at] \in S
  <2> DEFINE P == {at \in D : w[at] \in S}
  <2>1. ASSUME NEW d \in D, \A e \in D : m[e] < m[d] => e \in P PROVE d \in P
    <3>2. CASE d \in E
      <4> HIDE DEF E, c, Body, D, S
      <4> QED BY <1>7, <1>11, <1>17, <3>2
    <3>3. CASE d \notin E
      <4> DEFINE e == F(d).nxt
      <4>1. e \in D /\ nxt[d] = e
        BY <1>12, <3>3
      <4>2. m[e] < m[d]
        BY <1>4, <3>3, <4>1
      <4>3. w[e] \in S
        BY <2>1, <4>1, <4>2
      <4>4. Body(w, d) = h[<<d, w[e]>>]
        <5> HIDE DEF h, Body, S, D, E
        <5> QED BY <1>12, <3>3, <4>3
      <4>5. <<d, w[e]>> \in D \X S
        BY <4>3
      <4> HIDE DEF h, S, Body, e, D
      <4>6. h[<<d, w[e]>>] \in S
        BY <1>8, <4>5
      <4> QED BY <1>17, <4>4, <4>6
    <3> QED BY <3>2, <3>3
  <2>2. Inherits(D, m, P)
    <3>1. m \in [D -> Nat]
      BY <1>0, <1>3
    <3> HIDE DEF D
    <3> QED BY <2>1, <3>1 DEF Inherits
  <2>3. P = D
    <3> HIDE DEF P, D
    <3> QED BY <2>2, Descent
  <2> QED BY <2>3
<1>19. ASSUME NEW at \in D, NEW seen \in Seen
       PROVE  /\ w[at][seen] \in V
              /\ w[at][seen] = IF Ended(p, at) THEN [ok |-> TRUE, reads |-> {}]
                               ELSE IF ~F(at).ok THEN [ok |-> FALSE, reads |-> F(at).reads]
                               ELSE H(at, w[F(at).nxt], seen)
  <2>1. w[at] \in S /\ w[at] = Body(w, at)
    BY <1>17, <1>18
  <2>2. w[at][seen] \in V
    <3> HIDE DEF V
    <3> QED BY <2>1
  <2> HIDE DEF S, V
  <2> QED BY <2>1, <2>2
<1> HIDE DEF D, V
<1>20. Validating(w, p)
  <2> HIDE DEF S, Body
  <2> QED BY <1>16, <1>19, Zenon DEF Validating, D, F, H, G, V
<1> QED BY <1>20

\* Nothing beyond the message is read to find a field,
LEMMA FindStaysInside ==
  ASSUME NEW p \in Seq(Nat), NEW code
  PROVE  FindField(p, code).reads \subseteq 0 .. Len(p) - 1
<1>0. Len(p) \in Nat
  OBVIOUS
<1>1. CASE Len(p) < 16
  BY <1>1 DEF FindField
<1>2. CASE ~(Len(p) < 16)
  <2>0. 12 .. 15 \subseteq 0 .. Len(p) - 1
    BY <1>0, <1>2
  <2>1. CASE FieldsEnd(p) > Len(p)
    <3>1. FindField(p, code) = [off |-> -2, reads |-> 12 .. 15]
      BY <1>2, <2>1 DEF FindField
    <3> QED BY <2>0, <3>1
  <2>2. CASE ~(FieldsEnd(p) > Len(p))
    <3>1. Sized(p)
      <4>1. 12 \in Nat /\ 12 + 4 <= Len(p)
        BY <1>0, <1>2
      <4>2. FieldsEnd(p) \in Nat
        BY <4>1, U32Type DEF FieldsEnd
      <4> QED BY <1>0, <1>2, <2>2, <4>2 DEF Sized
    <3>2. PICK g : Finding(g, p, code)
      BY <3>1, FindWalks
    <3>3. g[16] \in Looks(p) /\ FindField(p, code) = [g[16] EXCEPT !.reads = @ \cup (12 .. 15)]
      <4>1. 16 \in 16 .. Len(p)
        BY <1>0, <1>2
      <4> QED BY <3>2, <4>1 DEF Finding
    <3> QED BY <2>0, <3>3 DEF Looks
  <2> QED BY <2>1, <2>2
<1> QED BY <1>1, <1>2

\* or to validate it.
LEMMA ValidateStaysInside ==
  ASSUME NEW p \in Seq(Nat)
  PROVE  Validate(p).reads \subseteq 0 .. Len(p) - 1 /\ (Validate(p).ok => Sized(p))
<1>0. Len(p) \in Nat
  OBVIOUS
<1>1. CASE Len(p) < 16
  BY <1>1 DEF Validate
<1>2. CASE ~(Len(p) < 16)
  <2>0. 12 .. 15 \subseteq 0 .. Len(p) - 1
    BY <1>0, <1>2
  <2>1. CASE FieldsEnd(p) > Len(p)
    <3>1. Validate(p) = [ok |-> FALSE, reads |-> 12 .. 15]
      BY <1>2, <2>1 DEF Validate
    <3> QED BY <2>0, <3>1
  <2>2. CASE ~(FieldsEnd(p) > Len(p))
    <3>1. Sized(p)
      <4>1. 12 \in Nat /\ 12 + 4 <= Len(p)
        BY <1>0, <1>2
      <4>2. FieldsEnd(p) \in Nat
        BY <4>1, U32Type DEF FieldsEnd
      <4> QED BY <1>0, <1>2, <2>2, <4>2 DEF Sized
    <3>2. PICK g : Validating(g, p)
      BY <3>1, ValidateWalks
    <3>3. g[16][{}] \in Verdicts(p) /\ Validate(p) = [g[16][{}] EXCEPT !.reads = @ \cup (12 .. 15)]
      <4>1. 16 \in 16 .. Len(p) /\ {} \in Seen
        BY <1>0, <1>2 DEF Seen
      <4> QED BY <3>2, <4>1 DEF Validating
    <3> QED BY <2>0, <3>1, <3>3 DEF Verdicts
  <2> QED BY <2>1, <2>2
<1> QED BY <1>1, <1>2

\* The cursor over the body: where it is, and what was read.
Cursor(p, c) ==
  /\ c.at \in Nat /\ c.end \in Nat /\ c.end <= Len(p) /\ c.reads \subseteq 0 .. Len(p) - 1
  /\ c = [at |-> c.at, end |-> c.end, reads |-> c.reads, ok |-> c.ok]

\* Nothing beyond the message is read of its body: the cursor is clamped.
LEMMA BodyStaysInside ==
  ASSUME NEW p \in Seq(Nat), 16 <= Len(p)
  PROVE  BodyReads(p) \subseteq 0 .. Len(p) - 1
<1> DEFINE N == Len(p)
<1>0. N \in Nat
  OBVIOUS
<1>1. Cursor(p, BodyBegin(p))
  <2> DEFINE at == Align(FieldsEnd(p), 8)
             u == U32At(p, 4)
             Clamp(n) == IF n > N THEN N ELSE n
  <2>1. FieldsEnd(p) \in Nat /\ u \in Nat
    <3>1. 12 \in Nat /\ 12 + 4 <= N /\ 4 \in Nat /\ 4 + 4 <= N
      BY <1>0
    <3> QED BY <3>1, U32Type DEF FieldsEnd
  <2>2. at \in Nat
    BY <2>1, AlignIs
  <2>3. BodyBegin(p) = [at |-> Clamp(at), end |-> Clamp(at + u), reads |-> {}, ok |-> TRUE]
    BY DEF BodyBegin
  <2> HIDE DEF at, u
  <2>4. Clamp(at) \in Nat /\ Clamp(at + u) \in Nat /\ Clamp(at + u) <= N
    BY <1>0, <2>1, <2>2
  <2> HIDE DEF Clamp
  <2> QED BY <2>3, <2>4 DEF Cursor, N
<1>2. ASSUME NEW c, Cursor(p, c) PROVE Cursor(p, NextU32(p, c))
  <2> DEFINE a == Align(c.at, 4)
  <2>1. /\ c.at \in Nat /\ c.end \in Nat /\ c.end <= N /\ c.reads \subseteq 0 .. N - 1
        /\ c = [at |-> c.at, end |-> c.end, reads |-> c.reads, ok |-> c.ok]
    BY <1>2 DEF Cursor, N
  <2>2. a \in Nat
    BY <2>1, AlignIs
  <2> HIDE DEF a
  <2>3. NextU32(p, c) = IF a + 4 > c.end THEN [c EXCEPT !.at = a, !.ok = FALSE]
                        ELSE [c EXCEPT !.at = a + 4, !.reads = @ \cup (a .. a + 3)]
    BY DEF NextU32, a
  <2>4. CASE a + 4 > c.end
    <3>1. NextU32(p, c) = [at |-> a, end |-> c.end, reads |-> c.reads, ok |-> FALSE]
      BY <2>1, <2>3, <2>4
    <3> QED BY <2>1, <2>2, <3>1 DEF Cursor, N
  <2>5. CASE ~(a + 4 > c.end)
    <3> DEFINE rs == c.reads \cup (a .. a + 3)
    <3>1. NextU32(p, c) = [at |-> a + 4, end |-> c.end, reads |-> rs, ok |-> c.ok]
      BY <2>1, <2>3, <2>5
    <3>2. a + 4 \in Nat /\ rs \subseteq 0 .. N - 1
      <4>1. a .. a + 3 \subseteq 0 .. N - 1
        BY <1>0, <2>1, <2>2, <2>5
      <4> QED BY <2>1, <2>2, <4>1
    <3> HIDE DEF rs
    <3> QED BY <2>1, <3>1, <3>2 DEF Cursor, N
  <2> QED BY <2>4, <2>5
<1>3. ASSUME NEW c, Cursor(p, c) PROVE NextStr(p, c).reads \subseteq 0 .. N - 1
  <2> DEFINE a == Align(c.at, 4)
             u == U32At(p, a)
             nxt == a + 4 + u + 1
  <2>1. /\ c.at \in Nat /\ c.end \in Nat /\ c.end <= N /\ c.reads \subseteq 0 .. N - 1
        /\ c = [at |-> c.at, end |-> c.end, reads |-> c.reads, ok |-> c.ok]
    BY <1>3 DEF Cursor, N
  <2>2. a \in Nat
    BY <2>1, AlignIs
  <2> HIDE DEF a
  <2>3. NextStr(p, c) =
          IF a + 4 > c.end THEN [c EXCEPT !.at = a, !.ok = FALSE]
          ELSE IF nxt > c.end THEN [c EXCEPT !.at = a, !.ok = FALSE, !.reads = @ \cup (a .. a + 3)]
          ELSE [c EXCEPT !.at = nxt, !.reads = @ \cup (a .. a + 3) \cup (a .. nxt - 1)]
    BY DEF NextStr, a
  <2>4. CASE a + 4 > c.end
    BY <2>1, <2>3, <2>4
  <2>5. CASE ~(a + 4 > c.end)
    <3>1. u \in Nat
      <4>1. a + 4 <= Len(p)
        BY <1>0, <2>1, <2>2, <2>5
      <4> QED BY <2>2, <4>1, U32Type
    <3>2. a .. a + 3 \subseteq 0 .. N - 1
      BY <1>0, <2>1, <2>2, <2>5
    <3> HIDE DEF u
    <3>3. CASE nxt > c.end
      BY <2>1, <2>3, <2>5, <3>2, <3>3
    <3>4. CASE ~(nxt > c.end)
      <4>1. a .. nxt - 1 \subseteq 0 .. N - 1
        BY <1>0, <2>1, <2>2, <3>1, <3>4
      <4> HIDE DEF nxt
      <4> QED BY <2>1, <2>3, <2>5, <3>2, <3>4, <4>1
    <3> QED BY <3>3, <3>4
  <2> QED BY <2>4, <2>5
<1>4. NextStr(p, BodyBegin(p)).reads \subseteq 0 .. N - 1
  BY <1>1, <1>3
<1>5. NextU32(p, NextU32(p, BodyBegin(p))).reads \subseteq 0 .. N - 1
  <2>1. Cursor(p, NextU32(p, NextU32(p, BodyBegin(p))))
    BY <1>1, <1>2
  <2> QED BY <2>1 DEF Cursor
<1> QED BY <1>4, <1>5 DEF BodyReads

\* A value that was found can be read: it is in the message.
Readable(p, c, off) ==
  off > 0 => IF FieldType(c) = 117 THEN off + 4 <= Len(p)
             ELSE ValueAt(p, off, <<FieldType(c)>>) # None

\* A field that the walk found has its value in the message.
LEMMA FoundReadable ==
  ASSUME NEW p, Sized(p), NEW at \in 16 .. Len(p), NEW f, f.ok, NextIs(p, f, at),
         f.code \in {1, 2, 5, 8}
  PROVE  Readable(p, f.code, f.vo)
<1> DEFINE c == f.code
           o == f.vo
           N == Len(p)
<1>0. p \in Seq(Nat) /\ N \in Nat /\ FieldsEnd(p) \in Nat /\ FieldsEnd(p) <= N
  BY SizedIs
<1>1. /\ o \in Nat /\ f.nxt \in Nat /\ o < f.nxt /\ f.nxt <= N
      /\ FieldType(c) \in {0, f.type}
      /\ f.type \in {111, 115} => U32At(p, o) \in Nat /\ f.nxt = o + 4 + U32At(p, o) + 1
      /\ f.type = 103 => At(p, o) \in Nat /\ f.nxt = o + At(p, o) + 2
      /\ f.type = 117 => f.nxt = o + 4
  BY <1>0 DEF NextIs, FieldIn
<1>2. FieldType(c) \in {111, 115, 117, 103} /\ FieldType(c) = f.type
  <2>1. FieldType(1) = 111 /\ FieldType(2) = 115 /\ FieldType(5) = 117 /\ FieldType(8) = 103
    BY DEF FieldType
  <2> QED BY <1>1, <2>1
<1> HIDE DEF o, N
<1>3. ASSUME NEW k \in Nat, NEW n \in Nat, k + n <= N PROVE Bytes(p, k, n) # None
  <2> DEFINE b == Bytes(p, k, n)
  <2>1. b \in Seq(Nat)
    BY <1>0, <1>3 DEF Bytes, N
  <2> HIDE DEF b
  <2>2. b # <<-1>>
    <3> SUFFICES ASSUME b = <<-1>> PROVE FALSE
      OBVIOUS
    <3>1. Len(b) = 1 /\ b[1] = -1
      OBVIOUS
    <3>2. b[1] \in Nat
      <4>1. 1 \in 1 .. Len(b)
        BY <3>1
      <4> QED BY <2>1, <4>1, ElementOfSeq
    <3> QED BY <3>1, <3>2
  <2> QED BY <2>2 DEF None, b
<1>4. CASE f.type = 117
  BY <1>0, <1>1, <1>2, <1>4 DEF Readable, o, N
<1>5. CASE f.type \in {111, 115}
  <2> DEFINE u == U32At(p, o)
  <2>1. u \in Nat /\ f.nxt = o + 4 + u + 1
    BY <1>1, <1>5
  <2> HIDE DEF u
  <2>2. o + 4 <= N /\ o + 4 + u + 1 <= N
    BY <1>0, <1>1, <2>1
  <2>3. Bytes(p, o + 4, u) # None
    <3> DEFINE k == o + 4
    <3>1. k \in Nat /\ k + u <= N
      BY <1>0, <1>1, <2>1, <2>2
    <3> HIDE DEF k
    <3>2. Bytes(p, k, u) # None
      BY <1>3, <2>1, <3>1
    <3> QED BY <3>2 DEF k
  <2>4. StrAt(p, o) = Bytes(p, o + 4, u)
    <3>1. ~(o < 0 \/ o + 4 > Len(p)) /\ ~(o + 4 + u + 1 > Len(p))
      BY <1>0, <1>1, <2>1, <2>2 DEF N
    <3> QED BY <3>1 DEF StrAt, u
  <2>5. ValueAt(p, o, <<FieldType(c)>>) = StrAt(p, o)
    <3>1. <<FieldType(c)>> # << 117 >> /\ <<FieldType(c)>> # << 103 >>
      BY <1>2, <1>5
    <3> QED BY <3>1 DEF ValueAt
  <2>6. FieldType(c) # 117
    BY <1>2, <1>5
  <2> QED BY <2>3, <2>4, <2>5, <2>6 DEF Readable, o
<1>6. CASE f.type = 103
  <2> DEFINE u == At(p, o)
  <2>1. u \in Nat /\ f.nxt = o + u + 2
    BY <1>1, <1>6
  <2> HIDE DEF u
  <2>2. o + 1 <= N /\ o + 1 + u + 1 <= N
    BY <1>0, <1>1, <2>1
  <2>3. Bytes(p, o + 1, u) # None
    <3> DEFINE k == o + 1
    <3>1. k \in Nat /\ k + u <= N
      BY <1>0, <1>1, <2>1, <2>2
    <3> HIDE DEF k
    <3>2. Bytes(p, k, u) # None
      BY <1>3, <2>1, <3>1
    <3> QED BY <3>2 DEF k
  <2>4. SigAt(p, o) = Bytes(p, o + 1, u)
    <3>1. ~(o < 0 \/ o + 1 > Len(p)) /\ ~(o + 1 + u + 1 > Len(p))
      BY <1>0, <1>1, <2>1, <2>2 DEF N
    <3> QED BY <3>1 DEF SigAt, u
  <2>5. ValueAt(p, o, <<FieldType(c)>>) = SigAt(p, o)
    <3>1. <<FieldType(c)>> # << 117 >> /\ <<FieldType(c)>> = << 103 >>
      BY <1>2, <1>6
    <3> QED BY <3>1 DEF ValueAt
  <2>6. FieldType(c) # 117
    BY <1>2, <1>6
  <2> QED BY <2>3, <2>4, <2>5, <2>6 DEF Readable, o
<1> QED BY <1>2, <1>4, <1>5, <1>6

\* One that is accepted can be read to its last field.
LEMMA AcceptedReadable ==
  ASSUME NEW p \in Seq(Nat), Validate(p).ok, NEW code \in {1, 2, 5, 8}
  PROVE  FindField(p, code).off # -2 /\ Readable(p, code, FindField(p, code).off)
<1> DEFINE D == 16 .. Len(p)
           F(at) == NextField(p, at)
<1>1. Sized(p)
  BY ValidateStaysInside
<1>2. Len(p) \in Nat /\ 16 \in D
  <2>1. Len(p) \in Nat /\ 16 <= Len(p)
    BY <1>1, SizedIs
  <2> QED BY <2>1
<1>3. PICK g : Finding(g, p, code)
  BY <1>1, FindWalks
<1>4. PICK v : Validating(v, p)
  BY <1>1, ValidateWalks
<1> DEFINE Good(at) == g[at].off # -2 /\ Readable(p, code, g[at].off)
           m == [at \in D |-> Len(p) - at]
           P == {at \in D : \A seen \in Seen : v[at][seen].ok => Good(at)}
<1>5. ASSUME NEW d \in D, \A e \in D : m[e] < m[d] => e \in P PROVE d \in P
  <2> SUFFICES ASSUME NEW seen \in Seen, v[d][seen].ok PROVE Good(d)
    OBVIOUS
  <2>1. NextIs(p, F(d), d)
    BY <1>1, NextFieldIs
  <2>2. g[d] = IF Ended(p, d) THEN [off |-> -1, reads |-> {}]
               ELSE IF ~F(d).ok THEN [off |-> -2, reads |-> F(d).reads]
               ELSE IF F(d).code = code THEN [off |-> F(d).vo, reads |-> F(d).reads]
               ELSE [g[F(d).nxt] EXCEPT !.reads = @ \cup F(d).reads]
    BY <1>3 DEF Finding
  <2> DEFINE got == F(d).reads \cup TextOf(F(d))
             u == v[F(d).nxt][AddSeen(seen, F(d))]
  <2>3. v[d][seen] = IF Ended(p, d) THEN [ok |-> TRUE, reads |-> {}]
                     ELSE IF ~F(d).ok THEN [ok |-> FALSE, reads |-> F(d).reads]
                     ELSE IF ~ValueOk(p, F(d), seen) THEN [ok |-> FALSE, reads |-> got]
                     ELSE [u EXCEPT !.reads = @ \cup got]
    BY <1>4 DEF Validating
  <2> HIDE DEF F
  <2>4. CASE Ended(p, d)
    BY <2>2, <2>4 DEF Readable
  <2>5. CASE ~Ended(p, d) /\ ~F(d).ok
    BY <2>3, <2>5
  <2>6. CASE ~Ended(p, d) /\ F(d).ok /\ F(d).code = code
    <3>1. Readable(p, code, F(d).vo) /\ F(d).vo \in Nat
      <4>1. F(d).vo \in Nat
        BY <2>1, <2>6 DEF NextIs, FieldIn
      <4>2. Readable(p, F(d).code, F(d).vo)
        BY <1>1, <2>1, <2>6, FoundReadable
      <4> QED BY <2>6, <4>1, <4>2
    <3>2. g[d].off = F(d).vo
      BY <2>2, <2>6
    <3> QED BY <3>1, <3>2
  <2>7. CASE ~Ended(p, d) /\ F(d).ok /\ F(d).code # code
    <3> DEFINE e == F(d).nxt
               s == AddSeen(seen, F(d))
    <3>1. e \in D /\ d < e /\ s \in Seen
      BY <2>1, <2>7 DEF NextIs, AddSeen, Seen
    <3>2. m[e] < m[d]
      BY <1>2, <3>1
    <3>3. e \in P
      BY <1>5, <3>1, <3>2
    <3>4. v[e][s] \in Verdicts(p) /\ g[e] \in Looks(p)
      BY <1>3, <1>4, <3>1 DEF Finding, Validating
    <3>5. v[e][s].ok
      <4>1. v[d][seen] = IF ~ValueOk(p, F(d), seen) THEN [ok |-> FALSE, reads |-> got]
                         ELSE [v[e][s] EXCEPT !.reads = @ \cup got]
        BY <2>3, <2>7
      <4> HIDE DEF got, s, e
      <4> QED BY <3>4, <4>1 DEF Verdicts
    <3>6. Good(e)
      BY <3>1, <3>3, <3>5
    <3>7. g[d].off = g[e].off
      <4> HIDE DEF e
      <4>1. g[d] = [g[e] EXCEPT !.reads = @ \cup F(d).reads]
        BY <2>2, <2>7 DEF e
      <4> QED BY <3>4, <4>1 DEF Looks
    <3> QED BY <3>6, <3>7
  <2> QED BY <2>1, <2>4, <2>5, <2>6, <2>7
<1>6. P = D
  <2>1. m \in [D -> Nat]
    BY <1>2
  <2> HIDE DEF P, D, m
  <2>2. P \in SUBSET D
    BY DEF P
  <2>3. Inherits(D, m, P)
    BY <1>5, <2>1, <2>2 DEF Inherits
  <2> QED BY <2>3, Descent
<1>7. v[16][{}].ok
  <2>1. {} \in Seen
    BY DEF Seen
  <2>2. Validate(p) = [v[16][{}] EXCEPT !.reads = @ \cup (12 .. 15)] /\ v[16][{}] \in Verdicts(p)
    BY <1>2, <1>4, <2>1 DEF Validating
  <2> QED BY <2>2 DEF Verdicts
<1>8. Good(16)
  <2>1. {} \in Seen
    BY DEF Seen
  <2> HIDE DEF D, Good
  <2> QED BY <1>2, <1>6, <1>7, <2>1
<1>9. FindField(p, code).off = g[16].off
  <2>1. FindField(p, code) = [g[16] EXCEPT !.reads = @ \cup (12 .. 15)] /\ g[16] \in Looks(p)
    BY <1>2, <1>3 DEF Finding
  <2> QED BY <2>1 DEF Looks
<1> QED BY <1>8, <1>9

(* What a sender writes.                                                    *)

\* What a sequence of bytes holds, at offsets from 0.
Joined(b, x, y) ==
  /\ b \in Seq(Nat) /\ Len(b) = Len(x) + Len(y)
  /\ \A o \in Nat : o < Len(x) => At(b, o) = At(x, o)
  /\ \A o \in Nat : o < Len(y) => At(b, Len(x) + o) = At(y, o)

\* The second sequence stands behind the first.
LEMMA JoinIs ==
  ASSUME NEW x \in Seq(Nat), NEW y \in Seq(Nat)
  PROVE  Joined(x \o y, x, y)
<1> DEFINE b == x \o y
<1>1. b \in Seq(Nat) /\ Len(b) = Len(x) + Len(y)
  BY ConcatProperties
<1>2. \A i \in 1 .. Len(x) + Len(y) : b[i] = IF i <= Len(x) THEN x[i] ELSE y[i - Len(x)]
  BY ConcatProperties
<1>3. Len(x) \in Nat /\ Len(y) \in Nat
  OBVIOUS
<1> HIDE DEF b
<1>4. ASSUME NEW o \in Nat, o < Len(x) PROVE At(b, o) = At(x, o)
  <2>1. o + 1 \in 1 .. Len(x) + Len(y) /\ o + 1 <= Len(x) /\ o < Len(b)
    BY <1>1, <1>3, <1>4
  <2>2. b[o + 1] = x[o + 1]
    BY <1>2, <2>1, Zenon
  <2> QED BY <1>4, <2>1, <2>2 DEF At
<1>5. ASSUME NEW o \in Nat, o < Len(y) PROVE At(b, Len(x) + o) = At(y, o)
  <2> DEFINE i == Len(x) + o + 1
  <2>1. /\ i \in 1 .. Len(x) + Len(y) /\ ~(i <= Len(x)) /\ Len(x) + o < Len(b) /\ i - Len(x) = o + 1
    BY <1>1, <1>3, <1>5
  <2>2. At(b, Len(x) + o) = b[i]
    BY <2>1, Zenon DEF At
  <2> HIDE DEF i
  <2>3. b[i] = y[i - Len(x)]
    BY <1>2, <2>1, Zenon
  <2>4. At(y, o) = y[o + 1]
    BY <1>5, Zenon DEF At
  <2> QED BY <2>1, <2>2, <2>3, <2>4, Zenon
<1> QED BY <1>1, <1>4, <1>5 DEF b, Joined

\* Padding.
LEMMA ZerosAre == \A n \in Nat : Zeros(n) \in Seq(Nat) /\ Len(Zeros(n)) = n
<1> TAKE n \in Nat
<1>1. Zeros(n) = [i \in 1 .. n |-> 0]
  BY DEF Zeros
<1> QED BY <1>1

\* A u32, of its bytes.
Four(a, b, c, d) == a + 256 * b + 65536 * c + 16777216 * d

\* What four bytes are read as.
LEMMA FourIs ==
  ASSUME NEW p, NEW o, NEW a, NEW b, NEW c, NEW d,
         At(p, o) = a, At(p, o + 1) = b, At(p, o + 2) = c, At(p, o + 3) = d
  PROVE  U32At(p, o) = Four(a, b, c, d)
<1>1. U32At(p, o) = Four(At(p, o), At(p, o + 1), At(p, o + 2), At(p, o + 3))
  BY DEF U32At, Four
<1> QED BY <1>1, Zenon

\* A number that is written is read again.
LEMMA Int32Is ==
  ASSUME NEW n \in Nat
  PROVE  /\ Int32(TRUE, n) \in Seq(Nat) /\ Len(Int32(TRUE, n)) = 4
         /\ U32At(Int32(TRUE, n), 0) = n
<1> DEFINE a == n % 256
           b == n \div 256
           s == <<a, b, 0, 0>>
<1>1. a \in Nat /\ b \in Nat /\ a + 256 * b = n
  OBVIOUS
<1>2. Int32(TRUE, n) = s
  BY DEF Int32
<1> HIDE DEF a, b
<1>3. s \in Seq(Nat) /\ Len(s) = 4 /\ s[1] = a /\ s[2] = b /\ s[3] = 0 /\ s[4] = 0
  BY <1>1
<1> HIDE DEF s
<1>4. At(s, 0) = a /\ At(s, 0 + 1) = b /\ At(s, 0 + 2) = 0 /\ At(s, 0 + 3) = 0
  <2>1. At(s, 0) = s[0 + 1] /\ At(s, 0 + 1) = s[0 + 1 + 1] /\ At(s, 0 + 2) = s[0 + 2 + 1] /\ At(s, 0 + 3) = s[0 + 3 + 1]
    BY <1>3, AtIs
  <2> QED BY <1>3, <2>1
<1>5. U32At(s, 0) = n
  <2>1. U32At(s, 0) = Four(a, b, 0, 0)
    BY <1>4, FourIs
  <2>2. Four(a, b, 0, 0) = n
    BY <1>1 DEF Four
  <2> QED BY <2>1, <2>2
<1> QED BY <1>2, <1>3, <1>5

\* How long the value of a field is, from four bytes behind the field's start,
\* and what is there of it.
Texts == { << 115 >>, << 111 >> }
Size(f) ==
  CASE f.sig = << 117 >> -> 4 [] f.sig \in Texts -> 5 + Len(f.val) [] f.sig = << 103 >> -> 2 + Len(f.val)
    [] f.sig = << 113 >> -> 2 [] f.sig = << 116 >> -> 12 [] OTHER -> 1

Held(q, o, f) ==
  /\ f.sig = << 117 >> => U32At(q, o) = f.val
  /\ f.sig \in Texts =>
       /\ U32At(q, o) = Len(f.val) /\ At(q, o + 4 + Len(f.val)) = 0
       /\ \A k \in 1 .. Len(f.val) : At(q, o + 3 + k) = f.val[k]
  /\ f.sig = << 103 >> =>
       /\ At(q, o) = Len(f.val) /\ At(q, o + 1 + Len(f.val)) = 0
       /\ \A k \in 1 .. Len(f.val) : At(q, o + k) = f.val[k]

\* The length of a value, by its type.
LEMMA Sizes ==
  ASSUME NEW f
  PROVE  /\ f.sig = << 117 >> => Size(f) = 4
         /\ f.sig \in Texts => Size(f) = 5 + Len(f.val)
         /\ f.sig = << 103 >> => Size(f) = 2 + Len(f.val)
         /\ f.sig = << 113 >> => Size(f) = 2
         /\ f.sig = << 116 >> => Size(f) = 12
         /\ f.sig = << 121 >> => Size(f) = 1
<1> DEFINE s == f.sig
<1>1. /\ << 117 >> \notin Texts /\ << 103 >> \notin Texts /\ << 113 >> \notin Texts
      /\ << 116 >> \notin Texts /\ << 121 >> \notin Texts
      /\ << 117 >> # << 103 >> /\ << 117 >> # << 113 >> /\ << 117 >> # << 116 >> /\ << 117 >> # << 121 >>
      /\ << 103 >> # << 113 >> /\ << 103 >> # << 116 >> /\ << 103 >> # << 121 >>
      /\ << 113 >> # << 116 >> /\ << 113 >> # << 121 >> /\ << 116 >> # << 121 >>
  BY DEF Texts
<1>2. Size(f) = CASE s = << 117 >> -> 4 [] s \in Texts -> 5 + Len(f.val) [] s = << 103 >> -> 2 + Len(f.val)
                  [] s = << 113 >> -> 2 [] s = << 116 >> -> 12 [] OTHER -> 1
  BY DEF Size
<1> HIDE DEF s
<1>3. /\ s = << 117 >> => Size(f) = 4
      /\ s \in Texts => Size(f) = 5 + Len(f.val)
      /\ s = << 103 >> => Size(f) = 2 + Len(f.val)
      /\ s = << 113 >> => Size(f) = 2
      /\ s = << 116 >> => Size(f) = 12
      /\ s = << 121 >> => Size(f) = 1
  BY <1>1, <1>2
<1> QED BY <1>3 DEF s

\* A field that a sender may send.
LEMMA SentIs ==
  ASSUME NEW f \in Sent
  PROVE  /\ f.code \in Nat /\ f.code \in Byte
         /\ f.sig \in { << 117 >>, << 121 >>, << 113 >>, << 116 >>, << 115 >>, << 111 >>, << 103 >> }
         /\ f.sig \in { << 117 >>, << 121 >>, << 113 >>, << 116 >> } => f.val \in Nat
         /\ f.sig \in { << 115 >>, << 111 >>, << 103 >> } => f.val \in Seq(Nat)
<1>1. \/ f \in [code : Byte, sig : { << 117 >>, << 121 >>, << 113 >>, << 116 >> }, val : Nat]
      \/ f \in [code : Byte, sig : { << 115 >>, << 111 >>, << 103 >> }, val : Seq(Nat)]
  BY DEF Sent
<1>2. \A c \in Byte : c \in Nat
  BY DEF Byte
<1>3. /\ << 115 >> \notin { << 117 >>, << 121 >>, << 113 >>, << 116 >> }
      /\ << 111 >> \notin { << 117 >>, << 121 >>, << 113 >>, << 116 >> }
      /\ << 103 >> \notin { << 117 >>, << 121 >>, << 113 >>, << 116 >> }
  OBVIOUS
<1> QED BY <1>1, <1>2, <1>3

\* What stands somewhere else too.
Shifted(q, p, d) == d \in Nat /\ \A o \in Nat : o < Len(q) => At(p, d + o) = At(q, o)

U32In(q, p, d, o) == q \in Seq(Nat) /\ Shifted(q, p, d) /\ o \in Nat /\ o + 4 <= Len(q)

\* A number is read wherever its bytes stand.
LEMMA U32Shifted ==
  ASSUME NEW q, NEW p, NEW d, NEW o, U32In(q, p, d, o)
  PROVE  U32At(p, d + o) = U32At(q, o)
<1>0. q \in Seq(Nat) /\ Shifted(q, p, d) /\ o \in Nat /\ o + 4 <= Len(q)
  BY DEF U32In
<1>1. d \in Nat /\ \A k \in Nat : k < Len(q) => At(p, d + k) = At(q, k)
  BY <1>0 DEF Shifted
<1>2. Len(q) \in Nat
  BY <1>0
<1>3. /\ At(p, d + o) = At(q, o) /\ At(p, d + (o + 1)) = At(q, o + 1)
      /\ At(p, d + (o + 2)) = At(q, o + 2) /\ At(p, d + (o + 3)) = At(q, o + 3)
  <2>1. o < Len(q) /\ o + 1 < Len(q) /\ o + 2 < Len(q) /\ o + 3 < Len(q) /\ o + 1 \in Nat /\ o + 2 \in Nat /\ o + 3 \in Nat
    BY <1>0, <1>2
  <2> QED BY <1>0, <1>1, <2>1, Zenon
<1>4. d + (o + 1) = d + o + 1 /\ d + (o + 2) = d + o + 2 /\ d + (o + 3) = d + o + 3
  BY <1>0, <1>1
<1>5. /\ At(p, d + o) = At(q, o) /\ At(p, d + o + 1) = At(q, o + 1)
      /\ At(p, d + o + 2) = At(q, o + 2) /\ At(p, d + o + 3) = At(q, o + 3)
  BY <1>3, <1>4, Zenon
<1>6. U32At(p, d + o) = Four(At(q, o), At(q, o + 1), At(q, o + 2), At(q, o + 3))
  BY <1>5, FourIs
<1>7. U32At(q, o) = Four(At(q, o), At(q, o + 1), At(q, o + 2), At(q, o + 3))
  BY FourIs
<1> QED BY <1>6, <1>7

\* So is a value.
LEMMA HeldShifted ==
  ASSUME NEW q \in Seq(Nat), NEW p, NEW d, Shifted(q, p, d), NEW f \in Sent,
         NEW o \in Nat, o + Size(f) <= Len(q), Held(q, o, f)
  PROVE  Held(p, d + o, f)
<1>0. Len(q) \in Nat /\ d \in Nat
  BY DEF Shifted
<1>1. \A k \in Nat : k < Len(q) => At(p, d + k) = At(q, k)
  BY DEF Shifted
<1>2. ASSUME f.sig = << 117 >> PROVE U32At(p, d + o) = f.val
  <2>1. Size(f) = 4 /\ U32At(q, o) = f.val
    BY <1>2, Sizes DEF Held
  <2>2. o + 4 <= Len(q)
    BY <2>1
  <2>3. U32In(q, p, d, o)
    BY <2>2 DEF U32In
  <2> QED BY <2>1, <2>3, U32Shifted
<1>3. ASSUME f.sig \in Texts
      PROVE  /\ U32At(p, d + o) = Len(f.val) /\ At(p, d + o + 4 + Len(f.val)) = 0
             /\ \A k \in 1 .. Len(f.val) : At(p, d + o + 3 + k) = f.val[k]
  <2> DEFINE n == Len(f.val)
  <2>1. n \in Nat
    <3>1. f.val \in Seq(Nat)
      BY <1>3, SentIs DEF Texts
    <3> QED BY <3>1
  <2>2. /\ U32At(q, o) = n /\ At(q, o + 4 + n) = 0
        /\ \A k \in 1 .. n : At(q, o + 3 + k) = f.val[k]
    BY <1>3 DEF Held
  <2>3. o + 5 + n <= Len(q)
    <3>1. Size(f) = 5 + n
      BY <1>3, Sizes
    <3> HIDE DEF n
    <3> QED BY <2>1, <3>1
  <2> HIDE DEF n
  <2>4. U32At(p, d + o) = n
    <3>1. o + 4 <= Len(q)
      BY <1>0, <2>1, <2>3
    <3>2. U32In(q, p, d, o)
      BY <3>1 DEF U32In
    <3> QED BY <2>2, <3>2, U32Shifted
  <2>5. At(p, d + o + 4 + n) = 0
    <3>1. o + 4 + n \in Nat /\ o + 4 + n < Len(q) /\ d + (o + 4 + n) = d + o + 4 + n
      BY <1>0, <2>1, <2>3
    <3>2. At(p, d + (o + 4 + n)) = At(q, o + 4 + n)
      BY <1>1, <3>1, Zenon
    <3> QED BY <2>2, <3>1, <3>2
  <2>6. ASSUME NEW k \in 1 .. n PROVE At(p, d + o + 3 + k) = f.val[k]
    <3>1. o + 3 + k \in Nat /\ o + 3 + k < Len(q) /\ d + (o + 3 + k) = d + o + 3 + k
      BY <1>0, <2>1, <2>3
    <3>2. At(p, d + (o + 3 + k)) = At(q, o + 3 + k)
      BY <1>1, <3>1, Zenon
    <3> QED BY <2>2, <3>1, <3>2
  <2> QED BY <2>4, <2>5, <2>6 DEF n
<1>4. ASSUME f.sig = << 103 >>
      PROVE  /\ At(p, d + o) = Len(f.val) /\ At(p, d + o + 1 + Len(f.val)) = 0
             /\ \A k \in 1 .. Len(f.val) : At(p, d + o + k) = f.val[k]
  <2> DEFINE n == Len(f.val)
  <2>1. n \in Nat
    <3>1. f.val \in Seq(Nat)
      BY <1>4, SentIs
    <3> QED BY <3>1
  <2>2. /\ At(q, o) = n /\ At(q, o + 1 + n) = 0
        /\ \A k \in 1 .. n : At(q, o + k) = f.val[k]
    BY <1>4 DEF Held
  <2>3. o + 2 + n <= Len(q)
    <3>1. Size(f) = 2 + n
      BY <1>4, Sizes
    <3> HIDE DEF n
    <3> QED BY <2>1, <3>1
  <2> HIDE DEF n
  <2>4. At(p, d + o) = n
    <3>1. o < Len(q)
      BY <1>0, <2>1, <2>3
    <3> QED BY <1>1, <2>2, <3>1
  <2>5. At(p, d + o + 1 + n) = 0
    <3>1. o + 1 + n \in Nat /\ o + 1 + n < Len(q) /\ d + (o + 1 + n) = d + o + 1 + n
      BY <1>0, <2>1, <2>3
    <3>2. At(p, d + (o + 1 + n)) = At(q, o + 1 + n)
      BY <1>1, <3>1, Zenon
    <3> QED BY <2>2, <3>1, <3>2
  <2>6. ASSUME NEW k \in 1 .. n PROVE At(p, d + o + k) = f.val[k]
    <3>1. o + k \in Nat /\ o + k < Len(q) /\ d + (o + k) = d + o + k
      BY <1>0, <2>1, <2>3
    <3>2. At(p, d + (o + k)) = At(q, o + k)
      BY <1>1, <3>1, Zenon
    <3> QED BY <2>2, <3>1, <3>2
  <2> QED BY <2>4, <2>5, <2>6 DEF n
<1> QED BY <1>2, <1>3, <1>4 DEF Held

\* Where the fields begin, no text is padded.
LEMMA NoPad ==
  ASSUME NEW at \in Nat, at % 8 = 4
  PROVE  Pad(at, 4) = <<>> /\ Pad(at, 2) = <<>> /\ Pad(at, 8) = Zeros(4)
<1>1. (-at) % 4 = 0 /\ (-at) % 2 = 0 /\ (-at) % 8 = 4
  OBVIOUS
<1>2. Zeros(0) = <<>>
  <2>1. Zeros(0) \in Seq(Nat) /\ Len(Zeros(0)) = 0
    BY ZerosAre
  <2> QED BY <2>1
<1> QED BY <1>1, <1>2 DEF Pad

\* A text behind its length.
Ending(x, v) == (x \o v) \o <<0>>
TextAt(b, x, v) ==
  /\ b \in Seq(Nat) /\ Len(b) = Len(x) + Len(v) + 1
  /\ \A o \in Nat : o < Len(x) => At(b, o) = At(x, o)
  /\ \A k \in 1 .. Len(v) : At(b, Len(x) - 1 + k) = v[k]
  /\ At(b, Len(x) + Len(v)) = 0

\* Its bytes and its NUL stand behind the length.
LEMMA TextIs ==
  ASSUME NEW x \in Seq(Nat), NEW v \in Seq(Nat), NEW b, b = Ending(x, v)
  PROVE  TextAt(b, x, v)
<1> DEFINE y == x \o v
<1> DEFINE z == <<0>>
<1>0. b = y \o z
  BY DEF Ending
<1>1. z \in Seq(Nat) /\ Len(z) = 1 /\ z[0 + 1] = 0 /\ Len(x) \in Nat /\ Len(v) \in Nat
  OBVIOUS
<1>2. Joined(y, x, v)
  BY JoinIs, Zenon
<1>3. /\ y \in Seq(Nat) /\ Len(y) = Len(x) + Len(v)
      /\ \A o \in Nat : o < Len(x) => At(y, o) = At(x, o)
      /\ \A o \in Nat : o < Len(v) => At(y, Len(x) + o) = At(v, o)
  BY <1>2, Zenon DEF Joined
<1> HIDE DEF y, z
<1>4. Joined(b, y, z)
  BY <1>0, <1>1, <1>3, JoinIs, Zenon
<1>5. /\ b \in Seq(Nat) /\ Len(b) = Len(y) + Len(z)
      /\ \A o \in Nat : o < Len(y) => At(b, o) = At(y, o)
      /\ \A o \in Nat : o < Len(z) => At(b, Len(y) + o) = At(z, o)
  BY <1>4, Zenon DEF Joined
<1>6. ASSUME NEW o \in Nat, o < Len(x) PROVE At(b, o) = At(x, o)
  <2>1. o < Len(y)
    BY <1>1, <1>3, <1>6
  <2> QED BY <1>3, <1>5, <1>6, <2>1, Zenon
<1>7. ASSUME NEW k \in 1 .. Len(v) PROVE At(b, Len(x) - 1 + k) = v[k]
  <2>1. k - 1 \in Nat /\ k - 1 < Len(v) /\ Len(x) + (k - 1) = Len(x) - 1 + k /\ (k - 1) + 1 = k
    BY <1>1
  <2>2. Len(x) + (k - 1) \in Nat /\ Len(x) + (k - 1) < Len(y)
    BY <1>1, <1>3
  <2>3. At(b, Len(x) + (k - 1)) = At(v, k - 1)
    BY <1>3, <1>5, <2>1, <2>2, Zenon
  <2>4. At(v, k - 1) = v[(k - 1) + 1]
    BY <2>1, AtIs
  <2> QED BY <2>1, <2>3, <2>4
<1>8. At(b, Len(x) + Len(v)) = 0
  <2>1. At(b, Len(y) + 0) = At(z, 0)
    BY <1>1, <1>5
  <2>2. At(z, 0) = 0
    BY <1>1 DEF At
  <2> QED BY <1>1, <1>3, <2>1, <2>2
<1> QED BY <1>1, <1>3, <1>5, <1>6, <1>7, <1>8 DEF TextAt

\* What is written of a value holds it.
LEMMA ValueIs ==
  ASSUME NEW f \in Sent, NEW at \in Nat, at % 8 = 4
  PROVE  /\ Value(TRUE, at, f) \in Seq(Nat) /\ Len(Value(TRUE, at, f)) = Size(f)
         /\ Held(Value(TRUE, at, f), 0, f)
<1> DEFINE s == f.sig
           v == f.val
           w == Value(TRUE, at, f)
<1>1. /\ s \in { << 117 >>, << 121 >>, << 113 >>, << 116 >>, << 115 >>, << 111 >>, << 103 >> }
      /\ s \in { << 117 >>, << 121 >>, << 113 >>, << 116 >> } => v \in Nat
      /\ s \in { << 115 >>, << 111 >>, << 103 >> } => v \in Seq(Nat)
  BY SentIs
<1> DEFINE wu == Pad(at, 4) \o Int32(TRUE, v)
           wt == Pad(at, 4) \o Int32(TRUE, Len(v)) \o v \o <<0>>
           wg == <<Len(v)>> \o v \o <<0>>
           wq == Pad(at, 2) \o <<v, 0>>
           wl == Pad(at, 8) \o <<v>> \o Zeros(7)
           wy == <<v>>
<1>2. w = CASE s = << 117 >> -> wu [] s \in {<< 115 >>, << 111 >>} -> wt [] s = << 103 >> -> wg
            [] s = << 113 >> -> wq [] s = << 116 >> -> wl [] OTHER -> wy
  BY DEF Value
<1>3. Pad(at, 4) = <<>> /\ Pad(at, 2) = <<>> /\ Pad(at, 8) = Zeros(4)
  BY NoPad
<1>4. /\ << 117 >> \notin Texts /\ << 103 >> \notin Texts /\ << 113 >> \notin Texts
      /\ << 116 >> \notin Texts /\ << 121 >> \notin Texts
      /\ << 117 >> # << 103 >> /\ << 117 >> # << 113 >> /\ << 117 >> # << 116 >> /\ << 117 >> # << 121 >>
      /\ << 103 >> # << 113 >> /\ << 103 >> # << 116 >> /\ << 103 >> # << 121 >>
      /\ << 113 >> # << 116 >> /\ << 113 >> # << 121 >> /\ << 116 >> # << 121 >> /\ Texts = {<< 115 >>, << 111 >>}
  BY DEF Texts
<1>5. /\ s = << 117 >> => Size(f) = 4
      /\ s \in Texts => Size(f) = 5 + Len(v)
      /\ s = << 103 >> => Size(f) = 2 + Len(v)
      /\ s = << 113 >> => Size(f) = 2
      /\ s = << 116 >> => Size(f) = 12
      /\ s = << 121 >> => Size(f) = 1
  BY Sizes
<1>6. /\ s = << 117 >> /\ U32At(w, 0) = v => Held(w, 0, f)
      /\ /\ s \in Texts /\ U32At(w, 0) = Len(v) /\ At(w, 0 + 4 + Len(v)) = 0
         /\ \A k \in 1 .. Len(v) : At(w, 0 + 3 + k) = v[k]
         => Held(w, 0, f)
      /\ /\ s = << 103 >> /\ At(w, 0) = Len(v) /\ At(w, 0 + 1 + Len(v)) = 0
         /\ \A k \in 1 .. Len(v) : At(w, 0 + k) = v[k]
         => Held(w, 0, f)
      /\ s \in {<< 113 >>, << 116 >>, << 121 >>} => Held(w, 0, f)
  <2>1. s = << 117 >> => s \notin Texts /\ s # << 103 >>
    BY <1>4
  <2>2. s \in Texts => s # << 117 >> /\ s # << 103 >>
    BY <1>4
  <2>3. s = << 103 >> => s \notin Texts /\ s # << 117 >>
    BY <1>4
  <2>4. s \in {<< 113 >>, << 116 >>, << 121 >>} => s # << 117 >> /\ s \notin Texts /\ s # << 103 >>
    BY <1>4
  <2>5. ASSUME s = << 117 >>, U32At(w, 0) = v PROVE Held(w, 0, f)
    BY <2>1, <2>5, Zenon DEF Held
  <2>6. ASSUME s \in Texts, U32At(w, 0) = Len(v), At(w, 0 + 4 + Len(v)) = 0,
               \A k \in 1 .. Len(v) : At(w, 0 + 3 + k) = v[k]
        PROVE  Held(w, 0, f)
    BY <2>2, <2>6, Zenon DEF Held
  <2>7. ASSUME s = << 103 >>, At(w, 0) = Len(v), At(w, 0 + 1 + Len(v)) = 0,
               \A k \in 1 .. Len(v) : At(w, 0 + k) = v[k]
        PROVE  Held(w, 0, f)
    BY <2>3, <2>7, Zenon DEF Held
  <2>8. ASSUME s \in {<< 113 >>, << 116 >>, << 121 >>} PROVE Held(w, 0, f)
    BY <2>4, <2>8, Zenon DEF Held
  <2> HIDE DEF w, s, v
  <2> QED BY <2>5, <2>6, <2>7, <2>8
<1> HIDE DEF w, s, v
<1>13. /\ s = << 117 >> => w = wu
       /\ s \in Texts => w = wt
       /\ s = << 103 >> => w = wg
       /\ s = << 113 >> => w = wq
       /\ s = << 116 >> => w = wl
       /\ s = << 121 >> => w = wy
  <2> HIDE DEF wu, wt, wg, wq, wl, wy
  <2> QED BY <1>2, <1>4
<1> DEFINE Done == w \in Seq(Nat) /\ Len(w) = Size(f) /\ Held(w, 0, f)
<1>7. ASSUME s = << 117 >> PROVE Done
  <2>1. w = wu /\ v \in Nat
    BY <1>1, <1>7, <1>13
  <2>2. Int32(TRUE, v) \in Seq(Nat) /\ Len(Int32(TRUE, v)) = 4 /\ U32At(Int32(TRUE, v), 0) = v
    BY <2>1, Int32Is
  <2>3. w = Int32(TRUE, v)
    <3>1. <<>> \o Int32(TRUE, v) = Int32(TRUE, v)
      BY <2>2
    <3> QED BY <1>3, <2>1, <3>1, Zenon
  <2>4. w \in Seq(Nat) /\ Len(w) = Size(f)
    BY <1>5, <1>7, <2>2, <2>3
  <2>5. Held(w, 0, f)
    BY <1>6, <1>7, <2>2, <2>3, Zenon
  <2> QED BY <2>4, <2>5
<1>8. ASSUME s \in Texts PROVE Done
  <2> DEFINE x == Int32(TRUE, Len(v))
             L == Len(v)
  <2>0. v \in Seq(Nat) /\ L \in Nat
    BY <1>1, <1>4, <1>8
  <2>1. w = wt
    BY <1>8, <1>13
  <2>2. x \in Seq(Nat) /\ Len(x) = 4 /\ U32At(x, 0) = L
    BY <2>0, Int32Is
  <2>3. w = Ending(x, v)
    <3> HIDE DEF x
    <3>1. w = Pad(at, 4) \o x \o v \o <<0>>
      BY <2>1 DEF x
    <3>2. <<>> \o x = x
      BY <2>2
    <3> QED BY <1>3, <3>1, <3>2, Zenon DEF Ending
  <2> HIDE DEF x
  <2>4. /\ w \in Seq(Nat) /\ Len(w) = Len(x) + L + 1
        /\ \A o \in Nat : o < Len(x) => At(w, o) = At(x, o)
        /\ \A k \in 1 .. L : At(w, Len(x) - 1 + k) = v[k]
        /\ At(w, Len(x) + L) = 0
    <3>1. TextAt(w, x, v)
      BY <2>0, <2>2, <2>3, TextIs, Zenon
    <3> QED BY <3>1, Zenon DEF TextAt, L
  <2>5. U32At(w, 0) = L
    <3>1. Shifted(x, w, 0)
      BY <2>4 DEF Shifted
    <3>2. U32In(x, w, 0, 0)
      BY <2>2, <3>1 DEF U32In
    <3>3. U32At(w, 0 + 0) = U32At(x, 0)
      BY <3>2, U32Shifted
    <3> QED BY <2>2, <3>3
  <2> HIDE DEF L
  <2>6. At(w, 0 + 4 + L) = 0
    BY <2>2, <2>4
  <2>7. ASSUME NEW k \in 1 .. L PROVE At(w, 0 + 3 + k) = v[k]
    <3>1. At(w, 4 - 1 + k) = v[k] /\ 4 - 1 + k = 0 + 3 + k
      BY <2>0, <2>2, <2>4
    <3> QED BY <3>1, Zenon
  <2>8. w \in Seq(Nat) /\ Len(w) = Size(f)
    <3>1. Size(f) = 5 + L
      BY <1>5, <1>8 DEF L
    <3> QED BY <2>0, <2>2, <2>4, <3>1
  <2>9. Held(w, 0, f)
    BY <1>6, <1>8, <2>5, <2>6, <2>7, Zenon DEF L
  <2> QED BY <2>8, <2>9
<1>9. ASSUME s = << 103 >> PROVE Done
  <2> DEFINE L == Len(v)
             x == <<L>>
  <2>0. v \in Seq(Nat) /\ L \in Nat
    BY <1>1, <1>9
  <2>1. w = wg
    BY <1>9, <1>13
  <2> HIDE DEF L
  <2>2. x \in Seq(Nat) /\ Len(x) = 1 /\ At(x, 0) = L
    <3>1. x \in Seq(Nat) /\ Len(x) = 1 /\ x[0 + 1] = L
      BY <2>0
    <3> QED BY <3>1 DEF At
  <2>3. w = Ending(x, v)
    BY <2>1, Zenon DEF L, Ending
  <2> HIDE DEF x
  <2>4. /\ w \in Seq(Nat) /\ Len(w) = Len(x) + L + 1
        /\ \A o \in Nat : o < Len(x) => At(w, o) = At(x, o)
        /\ \A k \in 1 .. L : At(w, Len(x) - 1 + k) = v[k]
        /\ At(w, Len(x) + L) = 0
    <3>1. TextAt(w, x, v)
      BY <2>0, <2>2, <2>3, TextIs, Zenon
    <3> QED BY <3>1, Zenon DEF TextAt, L
  <2>5. At(w, 0) = L
    BY <2>2, <2>4
  <2>6. At(w, 0 + 1 + L) = 0
    BY <2>2, <2>4
  <2>7. ASSUME NEW k \in 1 .. L PROVE At(w, 0 + k) = v[k]
    <3>1. At(w, 1 - 1 + k) = v[k] /\ 1 - 1 + k = 0 + k
      BY <2>0, <2>2, <2>4
    <3> QED BY <3>1, Zenon
  <2>8. w \in Seq(Nat) /\ Len(w) = Size(f)
    <3>1. Size(f) = 2 + L
      BY <1>5, <1>9 DEF L
    <3> QED BY <2>0, <2>2, <2>4, <3>1
  <2>9. Held(w, 0, f)
    BY <1>6, <1>9, <2>5, <2>6, <2>7, Zenon DEF L
  <2> QED BY <2>8, <2>9
<1>10. ASSUME s = << 113 >> PROVE Done
  <2>1. w = wq /\ v \in Nat
    BY <1>1, <1>10, <1>13
  <2>2. w = <<v, 0>>
    <3>1. <<v, 0>> \in Seq(Nat)
      BY <2>1
    <3>2. <<>> \o <<v, 0>> = <<v, 0>>
      BY <3>1
    <3> QED BY <1>3, <2>1, <3>2
  <2>3. w \in Seq(Nat) /\ Len(w) = 2
    <3>1. <<v, 0>> \in Seq(Nat) /\ Len(<<v, 0>>) = 2
      BY <2>1
    <3> QED BY <2>2, <3>1, Zenon
  <2>4. Size(f) = 2 /\ Held(w, 0, f)
    BY <1>5, <1>6, <1>10, Zenon
  <2> QED BY <2>3, <2>4
<1>11. ASSUME s = << 116 >> PROVE Done
  <2>1. w = wl /\ v \in Nat
    BY <1>1, <1>11, <1>13
  <2> DEFINE z4 == Zeros(4)
             z7 == Zeros(7)
  <2>2. z4 \in Seq(Nat) /\ Len(z4) = 4 /\ z7 \in Seq(Nat) /\ Len(z7) = 7
    BY ZerosAre
  <2>3. w = (z4 \o <<v>>) \o z7
    BY <1>3, <2>1
  <2> HIDE DEF z4, z7
  <2>4. <<v>> \in Seq(Nat) /\ Len(<<v>>) = 1
    BY <2>1
  <2> DEFINE y == z4 \o <<v>>
  <2>5. y \in Seq(Nat) /\ Len(y) = 4 + 1
    <3> DEFINE x == <<v>>
    <3>1. x \in Seq(Nat) /\ Len(x) = 1
      BY <2>4
    <3> HIDE DEF x
    <3>2. z4 \o x \in Seq(Nat) /\ Len(z4 \o x) = Len(z4) + Len(x)
      BY <2>2, <3>1, JoinIs, Zenon DEF Joined
    <3> QED BY <2>2, <3>1, <3>2 DEF x
  <2>6. w \in Seq(Nat) /\ Len(w) = 12
    <3> HIDE DEF y
    <3>1. y \o z7 \in Seq(Nat) /\ Len(y \o z7) = Len(y) + Len(z7)
      BY <2>2, <2>5, JoinIs, Zenon DEF Joined
    <3>2. w = y \o z7
      BY <2>3 DEF y
    <3> QED BY <2>2, <2>5, <3>1, <3>2
  <2>7. Size(f) = 12 /\ Held(w, 0, f)
    BY <1>5, <1>6, <1>11, Zenon
  <2> QED BY <2>6, <2>7
<1>12. ASSUME s = << 121 >> PROVE Done
  <2>1. w = <<v>> /\ v \in Nat
    BY <1>1, <1>12, <1>13
  <2>2. w \in Seq(Nat) /\ Len(w) = 1
    BY <2>1
  <2>3. Size(f) = 1 /\ Held(w, 0, f)
    BY <1>5, <1>6, <1>12, Zenon
  <2> QED BY <2>2, <2>3
<1>14. Done
  <2> HIDE DEF Done
  <2> QED BY <1>1, <1>4, <1>7, <1>8, <1>9, <1>10, <1>11, <1>12
<1> QED BY <1>14, Zenon DEF w

\* A field that stands at A.
Written(q, A, f) ==
  /\ A \in Nat /\ A + 4 + Size(f) <= Len(q)
  /\ At(q, A) = f.code /\ At(q, A + 1) = 1 /\ At(q, A + 2) = f.sig[1] /\ At(q, A + 3) = 0
  /\ Held(q, A + 4, f)

\* No value is empty.
LEMMA SizeType == ASSUME NEW f \in Sent PROVE Size(f) \in Nat /\ 1 <= Size(f)
<1>1. /\ f.sig \in { << 117 >>, << 121 >>, << 113 >>, << 116 >>, << 115 >>, << 111 >>, << 103 >> }
      /\ f.sig \in { << 115 >>, << 111 >>, << 103 >> } => f.val \in Seq(Nat)
  BY SentIs
<1>2. f.sig \in { << 115 >>, << 111 >>, << 103 >> } => Len(f.val) \in Nat
  BY <1>1
<1>3. /\ f.sig = << 117 >> => Size(f) = 4
      /\ f.sig \in Texts => Size(f) = 5 + Len(f.val)
      /\ f.sig = << 103 >> => Size(f) = 2 + Len(f.val)
      /\ f.sig = << 113 >> => Size(f) = 2
      /\ f.sig = << 116 >> => Size(f) = 12
      /\ f.sig = << 121 >> => Size(f) = 1
  BY Sizes
<1>4. CASE f.sig \in Texts
  BY <1>2, <1>3, <1>4 DEF Texts
<1>5. CASE f.sig = << 103 >>
  BY <1>2, <1>3, <1>5
<1>6. CASE f.sig \notin Texts /\ f.sig # << 103 >>
  BY <1>1, <1>3, <1>6 DEF Texts
<1> QED BY <1>4, <1>5, <1>6

\* A field stands wherever its bytes do.
LEMMA WrittenShifted ==
  ASSUME NEW q \in Seq(Nat), NEW p, NEW d, Shifted(q, p, d), d + Len(q) <= Len(p), Len(p) \in Nat,
         NEW f \in Sent, NEW A, Written(q, A, f)
  PROVE  Written(p, d + A, f)
<1>0. Len(q) \in Nat /\ d \in Nat /\ A \in Nat /\ A + 4 + Size(f) <= Len(q)
  BY DEF Shifted, Written
<1>1. \A k \in Nat : k < Len(q) => At(p, d + k) = At(q, k)
  BY DEF Shifted
<1>2. Size(f) \in Nat /\ 1 <= Size(f)
  BY SizeType
<1>3. /\ At(q, A) = f.code /\ At(q, A + 1) = 1 /\ At(q, A + 2) = f.sig[1] /\ At(q, A + 3) = 0
      /\ Held(q, A + 4, f)
  BY DEF Written
<1>4. /\ A \in Nat /\ A + 1 \in Nat /\ A + 2 \in Nat /\ A + 3 \in Nat /\ A + 4 \in Nat
      /\ A < Len(q) /\ A + 1 < Len(q) /\ A + 2 < Len(q) /\ A + 3 < Len(q) /\ A + 4 + Size(f) <= Len(q)
      /\ d + (A + 1) = d + A + 1 /\ d + (A + 2) = d + A + 2 /\ d + (A + 3) = d + A + 3 /\ d + (A + 4) = d + A + 4
      /\ d + A \in Nat /\ d + A + 4 + Size(f) <= Len(p)
  <2> DEFINE n == Size(f)
             N == Len(q)
             M == Len(p)
  <2> HIDE DEF n, N, M
  <2>1. n \in Nat /\ 1 <= n /\ N \in Nat /\ M \in Nat /\ d + N <= M /\ A + 4 + n <= N
    BY <1>0, <1>2 DEF n, N, M
  <2> QED BY <1>0, <2>1 DEF n, N, M
<1>5. /\ At(p, d + A) = f.code /\ At(p, d + (A + 1)) = 1
      /\ At(p, d + (A + 2)) = f.sig[1] /\ At(p, d + (A + 3)) = 0
  BY <1>1, <1>3, <1>4
<1>6. Held(p, d + (A + 4), f)
  <2> DEFINE o == A + 4
  <2>1. o \in Nat /\ o + Size(f) <= Len(q) /\ Held(q, o, f)
    BY <1>3, <1>4
  <2> HIDE DEF o
  <2>2. Held(p, d + o, f)
    BY <2>1, HeldShifted
  <2> QED BY <2>2 DEF o
<1> QED BY <1>4, <1>5, <1>6 DEF Written

\* What a field is put behind is left as it is; its struct is aligned in the
\* message, of which the array has the bytes from 16 on.
Grown(b, x, f) ==
  /\ b \in Seq(Nat) /\ Shifted(x, b, 0)
  /\ \E A \in Nat : /\ 16 + A = Align(16 + Len(x), 8) /\ Len(b) = A + 4 + Size(f)
                    /\ Len(x) <= A /\ Written(b, A, f)

\* A field that is put behind others stands there, aligned.
LEMMA EncodedFieldIs ==
  ASSUME NEW x \in Seq(Nat), NEW f \in Sent
  PROVE  Grown(EncodedField(TRUE, x, f), x, f)
<1> DEFINE L == Len(x)
           pad == Pad(16 + Len(x), 8)
           A == Len(x) + ((-(16 + Len(x))) % 8)
           c == <<f.code>>
           y == Sig(f)
           x1 == x \o pad
           x2 == x1 \o c
           x3 == x2 \o y
           w == Value(TRUE, 16 + Len(x3), f)
           b == x3 \o w
<1>1. EncodedField(TRUE, x, f) = b
  BY DEF EncodedField
<1>2. L \in Nat /\ A \in Nat /\ L <= A /\ 16 + A = Align(16 + L, 8) /\ (16 + A) % 8 = 0
  <2>1. L \in Nat
    OBVIOUS
  <2>2. 16 + A = Align(16 + L, 8)
    BY <2>1 DEF Align
  <2>3. 8 \in {1, 2, 4, 8} /\ 16 + L \in Nat
    BY <2>1
  <2>4. Align(16 + L, 8) \in Nat /\ 16 + L <= Align(16 + L, 8) /\ Align(16 + L, 8) % 8 = 0
    BY <2>3, AlignIs
  <2>5. A \in Int
    BY <2>1
  <2> HIDE DEF A, L
  <2> QED BY <2>1, <2>2, <2>4, <2>5
<1>3. pad \in Seq(Nat) /\ Len(pad) = A - L
  <2>1. (-(16 + L)) % 8 \in Nat
    BY <1>2
  <2>2. pad = Zeros((-(16 + L)) % 8)
    BY DEF Pad
  <2>3. pad \in Seq(Nat) /\ Len(pad) = (-(16 + L)) % 8
    BY <2>1, <2>2, ZerosAre
  <2> QED BY <1>2, <2>3
<1>4. f.code \in Nat /\ c \in Seq(Nat) /\ Len(c) = 1 /\ At(c, 0) = f.code
  <2>1. f.code \in Nat
    BY SentIs
  <2>2. c \in Seq(Nat) /\ Len(c) = 1 /\ c[0 + 1] = f.code
    BY <2>1
  <2> QED BY <2>1, <2>2 DEF At
<1>5. y \in Seq(Nat) /\ Len(y) = 3 /\ At(y, 0) = 1 /\ At(y, 1) = f.sig[1] /\ At(y, 2) = 0
  <2>1. PICK t \in {117, 121, 113, 116, 115, 111, 103} : f.sig = <<t>>
    <3>1. f.sig \in { << 117 >>, << 121 >>, << 113 >>, << 116 >>, << 115 >>, << 111 >>, << 103 >> }
      BY SentIs
    <3> QED BY <3>1
  <2>2. y = <<1>> \o <<t>> \o <<0>>
    BY <2>1 DEF Sig
  <2>3. t \in Nat
    BY <2>1
  <2> DEFINE one == <<1>>
             sig == <<t>>
             nul == <<0>>
             z == one \o sig
  <2>4. /\ one \in Seq(Nat) /\ Len(one) = 1 /\ At(one, 0) = 1
        /\ sig \in Seq(Nat) /\ Len(sig) = 1 /\ At(sig, 0) = t
        /\ nul \in Seq(Nat) /\ Len(nul) = 1 /\ At(nul, 0) = 0
    <3>1. one[0 + 1] = 1 /\ sig[0 + 1] = t /\ nul[0 + 1] = 0
      OBVIOUS
    <3>2. /\ one \in Seq(Nat) /\ Len(one) = 1 /\ sig \in Seq(Nat) /\ Len(sig) = 1
          /\ nul \in Seq(Nat) /\ Len(nul) = 1
      BY <2>3
    <3> QED BY <3>1, <3>2 DEF At
  <2>5. y = z \o nul
    BY <2>2
  <2> HIDE DEF one, sig, nul, y
  <2>7. Joined(z, one, sig)
    BY <2>4, JoinIs, Zenon
  <2> HIDE DEF z
  <2>8. /\ z \in Seq(Nat) /\ Len(z) = 2 /\ At(z, 0) = 1 /\ At(z, 1 + 0) = t
    BY <2>4, <2>7 DEF Joined
  <2>9. Joined(y, z, nul)
    BY <2>4, <2>5, <2>8, JoinIs, Zenon
  <2>10. y \in Seq(Nat) /\ Len(y) = 3 /\ At(y, 0) = 1 /\ At(y, 1) = t /\ At(y, 2 + 0) = 0
    BY <2>4, <2>8, <2>9 DEF Joined
  <2>6. f.sig[1] = t
    BY <2>1
  <2> QED BY <2>6, <2>10
<1> HIDE DEF A, L, pad, c, y
<1>6. /\ x1 \in Seq(Nat) /\ Len(x1) = A
      /\ \A o \in Nat : o < L => At(x1, o) = At(x, o)
  <2>1. Joined(x1, x, pad)
    BY <1>3, JoinIs, Zenon
  <2>2. L + (A - L) = A
    BY <1>2
  <2> QED BY <1>3, <2>1, <2>2 DEF Joined, L
<1> HIDE DEF x1
<1>7. /\ x2 \in Seq(Nat) /\ Len(x2) = A + 1
      /\ \A o \in Nat : o < A => At(x2, o) = At(x1, o)
      /\ At(x2, A) = f.code
  <2>1. Joined(x2, x1, c)
    BY <1>4, <1>6, JoinIs, Zenon
  <2>2. At(x2, A + 0) = At(c, 0)
    BY <1>4, <1>6, <2>1 DEF Joined
  <2> HIDE DEF x2
  <2> QED BY <1>2, <1>4, <1>6, <2>1, <2>2 DEF Joined
<1> HIDE DEF x2
<1>8. /\ x3 \in Seq(Nat) /\ Len(x3) = A + 4
      /\ \A o \in Nat : o < A + 1 => At(x3, o) = At(x2, o)
      /\ At(x3, A + 1) = 1 /\ At(x3, A + 2) = f.sig[1] /\ At(x3, A + 3) = 0
  <2>1. Joined(x3, x2, y)
    BY <1>5, <1>7, JoinIs, Zenon
  <2> HIDE DEF x3
  <2>2. At(x3, A + 1 + 0) = At(y, 0) /\ At(x3, A + 1 + 1) = At(y, 1) /\ At(x3, A + 1 + 2) = At(y, 2)
    BY <1>5, <1>7, <2>1 DEF Joined
  <2>3. A + 1 + 0 = A + 1 /\ A + 1 + 1 = A + 2 /\ A + 1 + 2 = A + 3 /\ A + 1 + 3 = A + 4
    BY <1>2
  <2> QED BY <1>5, <1>7, <2>1, <2>2, <2>3 DEF Joined
<1> HIDE DEF x3
<1>9. w \in Seq(Nat) /\ Len(w) = Size(f) /\ Held(w, 0, f)
  <2>1. 16 + Len(x3) \in Nat /\ (16 + Len(x3)) % 8 = 4
    <3>1. 16 + Len(x3) = (16 + A) + 4
      BY <1>2, <1>8
    <3>2. \A n \in Nat : n % 8 = 0 => (n + 4) % 8 = 4
      OBVIOUS
    <3>3. 16 + A \in Nat
      BY <1>2
    <3> QED BY <1>2, <3>1, <3>2, <3>3
  <2> QED BY <2>1, ValueIs
<1> HIDE DEF w
<1>10. /\ b \in Seq(Nat) /\ Len(b) = A + 4 + Size(f)
       /\ \A o \in Nat : o < A + 4 => At(b, o) = At(x3, o)
       /\ \A o \in Nat : o < Size(f) => At(b, A + 4 + o) = At(w, o)
  <2>1. Joined(b, x3, w)
    BY <1>8, <1>9, JoinIs, Zenon
  <2> HIDE DEF b
  <2> QED BY <1>8, <1>9, <2>1 DEF Joined
<1> HIDE DEF b
<1>11. Size(f) \in Nat
  BY SizeType
<1>12. Shifted(x, b, 0)
  <2>1. ASSUME NEW o \in Nat, o < L PROVE At(b, o) = At(x, o)
    <3>1. o < A /\ o < A + 1 /\ o < A + 4
      BY <1>2, <2>1
    <3> QED BY <1>6, <1>7, <1>8, <1>10, <2>1, <3>1
  <2>2. \A o \in Nat : o < Len(x) => At(b, 0 + o) = At(x, o)
    BY <2>1 DEF L
  <2> QED BY <2>2 DEF Shifted
<1>13. At(b, A) = f.code /\ At(b, A + 1) = 1 /\ At(b, A + 2) = f.sig[1] /\ At(b, A + 3) = 0
  <2>1. /\ A \in Nat /\ A + 1 \in Nat /\ A + 2 \in Nat /\ A + 3 \in Nat
        /\ A < A + 4 /\ A + 1 < A + 4 /\ A + 2 < A + 4 /\ A + 3 < A + 4 /\ A < A + 1
    BY <1>2
  <2> QED BY <1>7, <1>8, <1>10, <2>1
<1>14. Held(b, A + 4, f)
  <2>1. A + 4 \in Nat /\ 0 \in Nat /\ 0 + Size(f) <= Len(w) /\ A + 4 + 0 = A + 4
    BY <1>2, <1>9, <1>11
  <2>2. Shifted(w, b, A + 4)
    BY <1>9, <1>10, <2>1 DEF Shifted
  <2>3. Held(b, A + 4 + 0, f)
    BY <1>9, <2>1, <2>2, HeldShifted
  <2> QED BY <2>1, <2>3
<1>15. Written(b, A, f)
  BY <1>2, <1>10, <1>11, <1>13, <1>14 DEF Written
<1>16. 16 + A = Align(16 + Len(x), 8) /\ Len(x) <= A
  BY <1>2 DEF L
<1> QED BY <1>1, <1>2, <1>10, <1>12, <1>15, <1>16 DEF Grown

\* What the fields make, one behind the other.
Chain(c, s) ==
  /\ \A i \in 0 .. Len(s) : c[i] \in Seq(Nat)
  /\ c[0] = <<>>
  /\ \A i \in 1 .. Len(s) : Grown(c[i], c[i - 1], s[i])

\* The fields are encoded one behind the other.
LEMMA FieldsChain ==
  ASSUME NEW s \in Seq(Sent), NEW m, m.le = TRUE, m.fields = s
  PROVE  \E c : Chain(c, s) /\ EncodedFields(m) = c[Len(s)]
<1> DEFINE D == 0 .. Len(s)
           h == [x \in (1 .. Len(s)) \X Seq(Nat) |-> EncodedField(TRUE, x[2], s[x[1]])]
           Body(u) == [i \in 0 .. Len(m.fields) |-> IF i = 0 THEN <<>> ELSE EncodedField(m.le, u[i - 1], m.fields[i])]
           c == CHOOSE u : u = Body(u)
<1>1. Len(s) \in Nat /\ \A i \in 1 .. Len(s) : s[i] \in Sent
  OBVIOUS
<1>2. \A x \in Seq(Nat), f \in Sent : EncodedField(TRUE, x, f) \in Seq(Nat) /\ Grown(EncodedField(TRUE, x, f), x, f)
  BY EncodedFieldIs DEF Grown
<1>3. \E u : u = Body(u)
  <2>1. h \in [(1 .. Len(s)) \X Seq(Nat) -> Seq(Nat)]
    BY <1>1, <1>2
  <2>2. <<>> \in Seq(Nat)
    OBVIOUS
  <2>3. PICK u : Turned(u, Seq(Nat), Len(s), <<>>, h)
    <3> HIDE DEF h
    <3>1. Turns(Seq(Nat), Len(s), <<>>, h)
      BY <1>1, <2>1, <2>2 DEF Turns
    <3> QED BY <3>1, Iteration
  <2>4. /\ u \in [D -> Seq(Nat)] /\ u[0] = <<>>
        /\ \A k \in 1 .. Len(s) : u[k] = h[<<k, u[k - 1]>>]
    BY <2>3 DEF Turned
  <2>5. ASSUME NEW i \in D PROVE u[i] = IF i = 0 THEN <<>> ELSE EncodedField(TRUE, u[i - 1], s[i])
    <3>1. CASE i = 0
      BY <2>4, <3>1
    <3>2. CASE i # 0
      <4>1. i \in 1 .. Len(s) /\ i - 1 \in D
        BY <1>1, <3>2
      <4>2. u[i - 1] \in Seq(Nat)
        BY <2>4, <4>1
      <4>3. <<i, u[i - 1]>> \in (1 .. Len(s)) \X Seq(Nat)
        BY <4>1, <4>2
      <4>4. h[<<i, u[i - 1]>>] = EncodedField(TRUE, u[i - 1], s[i])
        BY <4>3
      <4> QED BY <2>4, <3>2, <4>1, <4>4, Zenon
    <3> QED BY <3>1, <3>2
  <2>6. u = Body(u)
    <3>1. u = [i \in D |-> u[i]]
      BY <2>4
    <3>2. Body(u) = [i \in D |-> IF i = 0 THEN <<>> ELSE EncodedField(TRUE, u[i - 1], s[i])]
      OBVIOUS
    <3> QED BY <2>5, <3>1, <3>2
  <2> QED BY <2>6
<1>4. c = Body(c)
  <2> HIDE DEF Body
  <2> QED BY <1>3
<1>5. EncodedFields(m) = c[Len(s)]
  BY DEF EncodedFields
<1> HIDE DEF c
<1>6. \A i \in D : c[i] = IF i = 0 THEN <<>> ELSE EncodedField(TRUE, c[i - 1], s[i])
  BY <1>4
<1>7. c[0] = <<>> /\ \A i \in 1 .. Len(s) : c[i] = EncodedField(TRUE, c[i - 1], s[i])
  <2>1. 0 \in D
    BY <1>1
  <2>2. ASSUME NEW i \in 1 .. Len(s) PROVE c[i] = EncodedField(TRUE, c[i - 1], s[i])
    <3>1. i \in D /\ i # 0
      BY <1>1
    <3> QED BY <1>6, <3>1, Zenon
  <2> QED BY <1>6, <2>1, <2>2
<1> DEFINE T == {i \in D : c[i] \in Seq(Nat)}
<1>8. \A i \in 0 .. Len(s) : i \in T
  <2>1. 0 \in T
    <3>1. <<>> \in Seq(Nat) /\ 0 \in D
      BY <1>1
    <3> QED BY <1>7, <3>1
  <2>2. ASSUME NEW k \in 1 .. Len(s), k - 1 \in T PROVE k \in T
    <3>1. k \in D /\ s[k] \in Sent /\ c[k - 1] \in Seq(Nat) /\ c[k] = EncodedField(TRUE, c[k - 1], s[k])
      <4>1. k \in D /\ s[k] \in Sent
        BY <1>1
      <4>2. c[k - 1] \in Seq(Nat)
        BY <2>2
      <4> QED BY <1>7, <4>1, <4>2
    <3> QED BY <1>2, <3>1
  <2> HIDE DEF T
  <2> QED BY <1>1, <2>1, <2>2, UpTo
<1>9. Chain(c, s)
  <2>1. \A i \in 0 .. Len(s) : c[i] \in Seq(Nat)
    BY <1>8
  <2>2. ASSUME NEW i \in 1 .. Len(s) PROVE Grown(c[i], c[i - 1], s[i])
    <3>1. i - 1 \in 0 .. Len(s)
      BY <1>1
    <3>2. c[i - 1] \in Seq(Nat) /\ s[i] \in Sent /\ c[i] = EncodedField(TRUE, c[i - 1], s[i])
      BY <1>1, <1>7, <2>1, <3>1
    <3> QED BY <1>2, <3>2
  <2> QED BY <1>7, <2>1, <2>2 DEF Chain
<1> QED BY <1>5, <1>9

\* Joined sequences, by where they stand.
Follows(b, x, y) ==
  /\ b \in Seq(Nat) /\ Len(b) \in Nat /\ Len(b) = Len(x) + Len(y)
  /\ Shifted(x, b, 0) /\ Shifted(y, b, Len(x))

\* Both stand in what they make.
LEMMA JoinShifts ==
  ASSUME NEW x \in Seq(Nat), NEW y \in Seq(Nat)
  PROVE  Follows(x \o y, x, y)
<1> DEFINE b == x \o y
<1>1. Joined(b, x, y)
  BY JoinIs, Zenon
<1> HIDE DEF b
<1>2. /\ b \in Seq(Nat) /\ Len(b) = Len(x) + Len(y)
      /\ \A o \in Nat : o < Len(x) => At(b, o) = At(x, o)
      /\ \A o \in Nat : o < Len(y) => At(b, Len(x) + o) = At(y, o)
  BY <1>1, Zenon DEF Joined
<1>3. Len(x) \in Nat /\ Len(b) \in Nat
  BY <1>2
<1>4. Shifted(x, b, 0)
  BY <1>2 DEF Shifted
<1>5. Shifted(y, b, Len(x))
  BY <1>2, <1>3 DEF Shifted
<1> QED BY <1>2, <1>3, <1>4, <1>5 DEF Follows, b

\* What stands in something stands wherever that does.
LEMMA ShiftedOn ==
  ASSUME NEW q, NEW r, NEW p, NEW d, NEW e, Shifted(q, r, d), Shifted(r, p, e), Len(q) \in Nat,
         Len(r) \in Nat, d + Len(q) <= Len(r)
  PROVE  Shifted(q, p, e + d)
<1>1. d \in Nat /\ e \in Nat
  BY DEF Shifted
<1>2. ASSUME NEW o \in Nat, o < Len(q) PROVE At(p, e + d + o) = At(q, o)
  <2>1. d + o \in Nat /\ d + o < Len(r) /\ e + (d + o) = e + d + o
    BY <1>1, <1>2
  <2>2. At(p, e + (d + o)) = At(r, d + o)
    BY <2>1 DEF Shifted
  <2>3. At(r, d + o) = At(q, o)
    BY <1>2 DEF Shifted
  <2> QED BY <2>1, <2>2, <2>3
<1> QED BY <1>1, <1>2 DEF Shifted

\* What has been written stays, at d of what follows: a is a part of b.
Part(a, b, d) == a \in Seq(Nat) /\ b \in Seq(Nat) /\ Shifted(a, b, d) /\ d + Len(a) <= Len(b)

\* What is put behind a sequence leaves its parts,
LEMMA PartIs ==
  ASSUME NEW x, NEW y \in Seq(Nat), NEW a, NEW d, Part(a, x, d)
  PROVE  Part(a, x \o y, d)
<1> DEFINE b == x \o y
<1>0. a \in Seq(Nat) /\ x \in Seq(Nat) /\ Shifted(a, x, d) /\ d + Len(a) <= Len(x)
  BY DEF Part
<1>1. Follows(b, x, y)
  BY <1>0, JoinShifts
<1> HIDE DEF b
<1>2. b \in Seq(Nat) /\ Len(b) \in Nat /\ Len(b) = Len(x) + Len(y) /\ Shifted(x, b, 0)
  BY <1>1 DEF Follows
<1>3. Len(x) \in Nat /\ Len(y) \in Nat /\ Len(a) \in Nat /\ d \in Nat
  BY <1>0 DEF Shifted
<1>4. Shifted(a, b, 0 + d)
  BY <1>0, <1>2, <1>3, ShiftedOn
<1>5. 0 + d = d /\ d + Len(a) <= Len(b)
  BY <1>0, <1>2, <1>3
<1> QED BY <1>0, <1>2, <1>4, <1>5 DEF Part, b

\* and is a part itself.
LEMMA PartBehind ==
  ASSUME NEW x \in Seq(Nat), NEW y \in Seq(Nat)
  PROVE  Part(y, x \o y, Len(x)) /\ x \o y \in Seq(Nat) /\ Len(x \o y) = Len(x) + Len(y)
<1> DEFINE b == x \o y
<1>1. Follows(b, x, y)
  BY JoinShifts
<1> HIDE DEF b
<1>2. b \in Seq(Nat) /\ Len(b) \in Nat /\ Len(b) = Len(x) + Len(y) /\ Shifted(y, b, Len(x))
  BY <1>1 DEF Follows
<1>3. Len(x) + Len(y) <= Len(b)
  BY <1>2
<1>4. Part(y, b, Len(x))
  BY <1>2, <1>3 DEF Part
<1> QED BY <1>2, <1>4 DEF b

\* A number that was written somewhere is read there.
LEMMA PartU32 ==
  ASSUME NEW n \in Nat, NEW p, NEW d, Part(Int32(TRUE, n), p, d)
  PROVE  U32At(p, d) = n
<1> DEFINE x == Int32(TRUE, n)
<1>1. x \in Seq(Nat) /\ Len(x) = 4 /\ U32At(x, 0) = n
  BY Int32Is
<1>2. Shifted(x, p, d)
  BY DEF Part
<1>3. d + 0 = d
  BY <1>2 DEF Shifted
<1> HIDE DEF x
<1>4. U32In(x, p, d, 0)
  BY <1>1, <1>2 DEF U32In
<1>5. U32At(p, d + 0) = U32At(x, 0)
  BY <1>4, U32Shifted
<1> QED BY <1>1, <1>3, <1>5

\* A message of the fields e is its header, they, what is padded, and a body.
OneWord == <<7, 0, 0, 0>>
Reply(s) == [le |-> TRUE, type |-> 2, serial |-> 1, fields |-> s, body |-> OneWord]

Laid(p, e) ==
  /\ p \in Seq(Nat) /\ FieldsEnd(p) = 16 + Len(e) /\ U32At(p, 4) = 4
  /\ Len(p) = Align(16 + Len(e), 8) + 4 /\ Part(e, p, 16)

\* The header says where the fields and the body are.
LEMMA MessageIs ==
  ASSUME NEW s, NEW e \in Seq(Nat), EncodedFields(Reply(s)) = e
  PROVE  Laid(Encoded(Reply(s)), e)
<1> DEFINE L == Len(e)
           h == <<108, 2, 0, 1>>
           i4 == Int32(TRUE, 4)
           i1 == Int32(TRUE, 1)
           iL == Int32(TRUE, L)
           pad == Pad(L, 8)
           body == OneWord
           h1 == h \o i4
           h2 == h1 \o i1
           h3 == h2 \o iL
           h4 == h3 \o e
           h5 == h4 \o pad
           p == h5 \o body
<1>1. Encoded(Reply(s)) = p
  <2>1. Len(OneWord) = 4
    BY DEF OneWord
  <2> DEFINE m == Reply(s)
  <2>2. m.le = TRUE /\ m.type = 2 /\ m.serial = 1 /\ m.body = OneWord
    BY DEF Reply
  <2>3. Encoded(m) = <<IF m.le THEN 108 ELSE 66, m.type, 0, 1>> \o Int32(m.le, Len(m.body))
          \o Int32(m.le, m.serial) \o Int32(m.le, Len(EncodedFields(m)))
          \o EncodedFields(m) \o Pad(Len(EncodedFields(m)), 8) \o m.body
    BY DEF Encoded
  <2>4. <<IF m.le THEN 108 ELSE 66, m.type, 0, 1>> = h
    BY <2>2
  <2> HIDE DEF m
  <2>5. EncodedFields(m) = e
    BY DEF m
  <2>6. /\ Int32(m.le, Len(m.body)) = i4 /\ Int32(m.le, m.serial) = i1
        /\ Int32(m.le, Len(EncodedFields(m))) = iL /\ Pad(Len(EncodedFields(m)), 8) = pad /\ m.body = body
    BY <2>1, <2>2, <2>5, Zenon
  <2> HIDE DEF h, i4, i1, iL, pad, body
  <2>7. Encoded(m) = h \o i4 \o i1 \o iL \o e \o pad \o body
    BY <2>3, <2>4, <2>5, <2>6, Zenon
  <2> QED BY <2>7, Zenon DEF m
<1>2. /\ L \in Nat /\ h \in Seq(Nat) /\ Len(h) = 4
      /\ i4 \in Seq(Nat) /\ Len(i4) = 4 /\ i1 \in Seq(Nat) /\ Len(i1) = 4
      /\ iL \in Seq(Nat) /\ Len(iL) = 4 /\ body \in Seq(Nat) /\ Len(body) = 4
  <2>1. L \in Nat /\ h \in Seq(Nat) /\ Len(h) = 4 /\ body \in Seq(Nat) /\ Len(body) = 4
    BY DEF OneWord
  <2>2. 4 \in Nat /\ 1 \in Nat
    OBVIOUS
  <2> HIDE DEF L
  <2> QED BY <2>1, <2>2, Int32Is
<1>3. pad \in Seq(Nat) /\ 16 + L + Len(pad) = Align(16 + L, 8)
  <2>1. (-L) % 8 \in Nat /\ (-L) % 8 = (-(16 + L)) % 8
    BY <1>2
  <2>2. pad \in Seq(Nat) /\ Len(pad) = (-L) % 8
    BY <2>1, ZerosAre DEF Pad
  <2> QED BY <1>2, <2>1, <2>2 DEF Align
<1> HIDE DEF L, h, i4, i1, iL, pad, body
<1>4. Part(i4, h1, 4) /\ h1 \in Seq(Nat) /\ Len(h1) = 8
  <2>1. h1 \in Seq(Nat) /\ Len(h1) = Len(h) + Len(i4) /\ Part(i4, h1, Len(h))
    BY <1>2, PartBehind
  <2> QED BY <1>2, <2>1
<1> HIDE DEF h1
<1>5. h2 \in Seq(Nat) /\ Len(h2) = 12 /\ Part(i4, h2, 4)
  <2>1. h2 \in Seq(Nat) /\ Len(h2) = Len(h1) + Len(i1)
    BY <1>2, <1>4, PartBehind
  <2>2. Part(i4, h2, 4)
    BY <1>2, <1>4, PartIs
  <2> QED BY <1>2, <1>4, <2>1, <2>2
<1> HIDE DEF h2
<1>6. h3 \in Seq(Nat) /\ Len(h3) = 16 /\ Part(i4, h3, 4) /\ Part(iL, h3, 12)
  <2>1. h3 \in Seq(Nat) /\ Len(h3) = Len(h2) + Len(iL) /\ Part(iL, h3, Len(h2))
    BY <1>2, <1>5, PartBehind
  <2>2. Part(i4, h3, 4)
    BY <1>2, <1>5, PartIs
  <2> QED BY <1>2, <1>5, <2>1, <2>2
<1> HIDE DEF h3
<1>7. h4 \in Seq(Nat) /\ Len(h4) = 16 + L /\ Part(i4, h4, 4) /\ Part(iL, h4, 12) /\ Part(e, h4, 16)
  <2>1. h4 \in Seq(Nat) /\ Len(h4) = Len(h3) + Len(e) /\ Part(e, h4, Len(h3))
    BY <1>6, PartBehind
  <2>2. Part(i4, h4, 4) /\ Part(iL, h4, 12)
    BY <1>6, PartIs
  <2> QED BY <1>6, <2>1, <2>2 DEF L
<1> HIDE DEF h4
<1>8. h5 \in Seq(Nat) /\ Len(h5) = 16 + L + Len(pad) /\ Part(i4, h5, 4) /\ Part(iL, h5, 12) /\ Part(e, h5, 16)
  <2>1. h5 \in Seq(Nat) /\ Len(h5) = Len(h4) + Len(pad)
    BY <1>3, <1>7, PartBehind
  <2>2. Part(i4, h5, 4) /\ Part(iL, h5, 12) /\ Part(e, h5, 16)
    BY <1>3, <1>7, PartIs
  <2> QED BY <1>7, <2>1, <2>2
<1> HIDE DEF h5
<1>9. p \in Seq(Nat) /\ Len(p) = Align(16 + L, 8) + 4 /\ Part(i4, p, 4) /\ Part(iL, p, 12) /\ Part(e, p, 16)
  <2>1. p \in Seq(Nat) /\ Len(p) = Len(h5) + Len(body)
    BY <1>2, <1>8, PartBehind
  <2>2. Part(i4, p, 4) /\ Part(iL, p, 12) /\ Part(e, p, 16)
    BY <1>2, <1>8, PartIs
  <2> QED BY <1>2, <1>3, <1>8, <2>1, <2>2
<1> HIDE DEF p
<1>10. U32At(p, 4) = 4 /\ U32At(p, 12) = L
  <2>1. 4 \in Nat
    OBVIOUS
  <2> QED BY <1>2, <1>9, <2>1, PartU32 DEF i4, iL
<1> QED BY <1>1, <1>9, <1>10 DEF Laid, FieldsEnd, L

\* A part of a part.
LEMMA PartOn ==
  ASSUME NEW a, NEW b, NEW p, NEW d, NEW e, Part(a, b, d), Part(b, p, e)
  PROVE  Part(a, p, e + d)
<1>1. /\ a \in Seq(Nat) /\ b \in Seq(Nat) /\ Shifted(a, b, d) /\ d + Len(a) <= Len(b)
      /\ p \in Seq(Nat) /\ Shifted(b, p, e) /\ e + Len(b) <= Len(p)
  BY DEF Part
<1>2. Len(a) \in Nat /\ Len(b) \in Nat /\ Len(p) \in Nat /\ d \in Nat /\ e \in Nat
  BY <1>1 DEF Shifted
<1>3. Shifted(a, p, e + d)
  BY <1>1, <1>2, ShiftedOn
<1>4. e + d + Len(a) <= Len(p)
  BY <1>1, <1>2
<1> QED BY <1>1, <1>3, <1>4 DEF Part

\* Where the walk over the fields of s stands, after as many as that.
Stands(p, s, at) ==
  /\ at[0] = 16 /\ at[Len(s)] = FieldsEnd(p)
  /\ \A i \in 0 .. Len(s) : at[i] \in 16 .. Len(p) /\ at[i] <= FieldsEnd(p)
  /\ \A i \in 1 .. Len(s) : /\ Written(p, Align(at[i - 1], 8), s[i])
                            /\ at[i] = Align(at[i - 1], 8) + 4 + Size(s[i])

\* Each field stands where the walk gets to behind the fields before it, and
\* the body behind them all.
LEMMA FieldsStand ==
  ASSUME NEW s \in Seq(Sent), NEW p, p = Encoded(Reply(s))
  PROVE  /\ Sized(p) /\ \E at : Stands(p, s, at)
         /\ BodyBegin(p).at = Len(p) - 4 /\ BodyBegin(p).end = Len(p)
<1> DEFINE N == Len(s)
<1>0. N \in Nat /\ \A i \in 1 .. N : s[i] \in Sent
  OBVIOUS
<1>1. PICK c : Chain(c, s) /\ EncodedFields(Reply(s)) = c[N]
  <2>1. Reply(s).le = TRUE /\ Reply(s).fields = s
    BY DEF Reply
  <2> QED BY <2>1, FieldsChain
<1>2. /\ \A i \in 0 .. N : c[i] \in Seq(Nat) /\ Len(c[i]) \in Nat
      /\ c[0] = <<>>
      /\ \A i \in 1 .. N : Grown(c[i], c[i - 1], s[i])
  BY <1>1 DEF Chain
<1> DEFINE e == c[N]
<1>3. e \in Seq(Nat) /\ Len(e) \in Nat
  BY <1>0, <1>2
<1>4. Laid(p, e)
  BY <1>1, <1>3, MessageIs
<1> HIDE DEF e, N
<1>5. /\ p \in Seq(Nat) /\ FieldsEnd(p) = 16 + Len(e) /\ U32At(p, 4) = 4
      /\ Len(p) = Align(16 + Len(e), 8) + 4 /\ Part(e, p, 16)
  BY <1>4 DEF Laid
<1>6. Align(16 + Len(e), 8) \in Nat /\ 16 + Len(e) <= Align(16 + Len(e), 8)
  <2>1. 16 + Len(e) \in Nat /\ 8 \in {1, 2, 4, 8}
    BY <1>3
  <2> QED BY <2>1, AlignIs
<1>7. Sized(p)
  BY <1>3, <1>5, <1>6 DEF Sized
<1>8. BodyBegin(p).at = Len(p) - 4 /\ BodyBegin(p).end = Len(p)
  <2> DEFINE a == Align(FieldsEnd(p), 8)
             M == Len(p)
             Clamp(n) == IF n > M THEN M ELSE n
  <2>1. a \in Nat /\ M = a + 4 /\ U32At(p, 4) = 4
    BY <1>5, <1>6
  <2>2. BodyBegin(p) = [at |-> Clamp(a), end |-> Clamp(a + U32At(p, 4)), reads |-> {}, ok |-> TRUE]
    BY DEF BodyBegin
  <2> HIDE DEF a, M
  <2>3. Clamp(a) = M - 4 /\ Clamp(a + U32At(p, 4)) = M
    BY <2>1
  <2> QED BY <2>2, <2>3 DEF M
<1> DEFINE T == {k \in 0 .. N : Part(c[N - k], p, 16)}
<1>9. \A k \in 0 .. N : k \in T
  <2>1. 0 \in T
    BY <1>0, <1>5 DEF e
  <2>2. ASSUME NEW k \in 1 .. N, k - 1 \in T PROVE k \in T
    <3> DEFINE i == N - (k - 1)
    <3>1. i \in 1 .. N /\ i - 1 = N - k /\ i \in 0 .. N /\ i - 1 \in 0 .. N /\ k \in 0 .. N
      BY <1>0
    <3>2. Part(c[i], p, 16)
      BY <2>2
    <3> HIDE DEF i
    <3>3. Grown(c[i], c[i - 1], s[i]) /\ c[i] \in Seq(Nat) /\ c[i - 1] \in Seq(Nat)
      BY <1>2, <3>1
    <3>4. Shifted(c[i - 1], c[i], 0) /\ Len(c[i - 1]) <= Len(c[i])
      <4>1. PICK A \in Nat : Len(c[i]) = A + 4 + Size(s[i]) /\ Len(c[i - 1]) <= A
        BY <3>3 DEF Grown
      <4>2. Size(s[i]) \in Nat
        BY <1>0, <3>1, SizeType
      <4>3. Len(c[i]) \in Nat /\ Len(c[i - 1]) \in Nat
        BY <1>2, <3>1
      <4>4. Len(c[i - 1]) <= Len(c[i])
        BY <4>1, <4>2, <4>3
      <4> QED BY <3>3, <4>4 DEF Grown
    <3>5. Part(c[i - 1], c[i], 0)
      <4>1. 0 + Len(c[i - 1]) <= Len(c[i])
        BY <1>2, <3>1, <3>4
      <4> QED BY <3>3, <3>4, <4>1 DEF Part
    <3>6. Part(c[i - 1], p, 16 + 0)
      BY <3>2, <3>5, PartOn
    <3> QED BY <3>1, <3>6
  <2> HIDE DEF T
  <2> QED BY <1>0, <2>1, <2>2, UpTo
<1>10. \A i \in 0 .. N : Part(c[i], p, 16)
  <2> TAKE i \in 0 .. N
  <2>1. N - i \in 0 .. N /\ N - (N - i) = i
    BY <1>0
  <2> QED BY <1>9, <2>1
<1> DEFINE at == [i \in 0 .. N |-> 16 + Len(c[i])]
<1>11. \A i \in 0 .. N : at[i] \in 16 .. Len(p) /\ at[i] <= FieldsEnd(p)
  <2> TAKE i \in 0 .. N
  <2>1. Len(c[i]) \in Nat /\ Part(c[i], p, 16) /\ at[i] = 16 + Len(c[i])
    BY <1>2, <1>10
  <2>2. Len(c[i]) <= Len(e)
    <3> DEFINE R == {k \in 0 .. N : Len(c[N - k]) <= Len(e)}
    <3>1. 0 \in R
      BY <1>0, <1>3 DEF e
    <3>2. ASSUME NEW k \in 1 .. N, k - 1 \in R PROVE k \in R
      <4> DEFINE j == N - (k - 1)
      <4>1. j \in 1 .. N /\ j - 1 = N - k /\ j \in 0 .. N /\ j - 1 \in 0 .. N /\ k \in 0 .. N
        BY <1>0
      <4>2. Len(c[j]) <= Len(e)
        BY <3>2
      <4> HIDE DEF j
      <4>3. PICK A \in Nat : Len(c[j]) = A + 4 + Size(s[j]) /\ Len(c[j - 1]) <= A
        BY <1>2, <4>1 DEF Grown
      <4>4. Size(s[j]) \in Nat
        BY <1>0, <4>1, SizeType
      <4>5. Len(c[j]) \in Nat /\ Len(c[j - 1]) \in Nat
        BY <1>2, <4>1
      <4>6. Len(c[j - 1]) <= Len(e)
        BY <1>3, <4>2, <4>3, <4>4, <4>5
      <4> QED BY <4>1, <4>6
    <3>3. \A k \in 0 .. N : k \in R
      <4> HIDE DEF R
      <4> QED BY <1>0, <3>1, <3>2, UpTo
    <3>4. N - i \in 0 .. N /\ N - (N - i) = i
      BY <1>0
    <3> QED BY <3>3, <3>4
  <2>3. Len(p) \in Nat /\ 16 + Len(e) <= Len(p)
    BY <1>3, <1>5, <1>6
  <2> DEFINE x == at[i]
             l == Len(c[i])
             E == Len(e)
             M == Len(p)
             F == FieldsEnd(p)
  <2>4. l \in Nat /\ x = 16 + l /\ l <= E /\ M \in Nat /\ 16 + E <= M /\ F = 16 + E /\ E \in Nat
    BY <1>3, <1>5, <2>1, <2>2, <2>3
  <2> HIDE DEF at, x, l, E, M, F
  <2>5. x \in 16 .. M /\ x <= F
    BY <2>4
  <2> QED BY <2>5, Zenon DEF x, M, F
<1>12. at[0] = 16 /\ at[N] = FieldsEnd(p)
  <2>1. 0 \in 0 .. N /\ N \in 0 .. N /\ Len(c[0]) = 0
    BY <1>0, <1>2
  <2> QED BY <1>5, <2>1 DEF e
<1>13. ASSUME NEW i \in 1 .. N
       PROVE  Written(p, Align(at[i - 1], 8), s[i]) /\ at[i] = Align(at[i - 1], 8) + 4 + Size(s[i])
  <2>1. i \in 0 .. N /\ i - 1 \in 0 .. N /\ s[i] \in Sent
    BY <1>0
  <2>2. PICK A \in Nat : /\ 16 + A = Align(16 + Len(c[i - 1]), 8) /\ Len(c[i]) = A + 4 + Size(s[i])
                         /\ Written(c[i], A, s[i])
    BY <1>2 DEF Grown
  <2>3. Part(c[i], p, 16)
    BY <1>10, <2>1
  <2>4. Shifted(c[i], p, 16) /\ 16 + Len(c[i]) <= Len(p) /\ Len(p) \in Nat /\ c[i] \in Seq(Nat)
    BY <1>5, <2>3 DEF Part
  <2>5. Written(p, 16 + A, s[i])
    BY <2>1, <2>2, <2>4, WrittenShifted
  <2>6. Size(s[i]) \in Nat
    BY <2>1, SizeType
  <2>7. at[i] = 16 + Len(c[i]) /\ at[i - 1] = 16 + Len(c[i - 1])
    BY <2>1
  <2>8. 16 + Len(c[i]) = (16 + A) + 4 + Size(s[i])
    BY <2>2, <2>6
  <2> HIDE DEF at
  <2> QED BY <2>2, <2>5, <2>7, <2>8
<1>14. Stands(p, s, at)
  <2> HIDE DEF at
  <2> QED BY <1>11, <1>12, <1>13 DEF Stands, N
<1> QED BY <1>7, <1>8, <1>14

\* What is read of a field that stands at A.
Reads(r, A, f) ==
  LET t == f.sig[1] IN
  /\ r.ok <=> FieldType(f.code) \in {0, t}
  /\ r.ok => /\ r.code = f.code /\ r.type = t /\ r.nxt = A + 4 + Size(f)
             /\ r.vo = IF t = 116 THEN A + 8 ELSE A + 4

\* A field that stands at A, up to end.
Standing(p, A, end, f) ==
  /\ Place(p, A, end) /\ A % 8 = 0 /\ A + 4 + Size(f) <= end
  /\ f \in Sent /\ Written(p, A, f)

\* Behind a field's start, only a value of eight bytes is padded.
LEMMA Aligned4 ==
  ASSUME NEW A \in Nat, A % 8 = 0
  PROVE  /\ Align(A + 4, 1) = A + 4 /\ Align(A + 4, 2) = A + 4 /\ Align(A + 4, 4) = A + 4
         /\ Align(A + 4, 8) = A + 8
<1>1. (-(A + 4)) % 1 = 0 /\ (-(A + 4)) % 2 = 0 /\ (-(A + 4)) % 4 = 0 /\ (-(A + 4)) % 8 = 4
  OBVIOUS
<1> QED BY <1>1 DEF Align

\* A step of the walk reads the field that stands there, and refuses it only
\* if its type is not its code's.
LEMMA WrittenRead ==
  ASSUME NEW p, NEW A, NEW end, NEW f, Standing(p, A, end, f)
  PROVE  Reads(FieldAt(p, A, end), A, f)
<1> DEFINE code  == At(p, A)
           type  == At(p, A + 2)
           width == BasicSize(type)
           reads == A .. A + 3
           vo    == Align(A + 4, width)
           v4    == Align(A + 4, 4)
           r     == FieldAt(p, A, end)
           t     == f.sig[1]
           n     == Size(f)
           Good  == FieldType(f.code) \in {0, t}
<1>1. /\ p \in Seq(Nat) /\ A \in Nat /\ end \in Nat /\ end <= Len(p) /\ A % 8 = 0 /\ A + 4 + n <= end
      /\ f \in Sent
      /\ code = f.code /\ At(p, A + 1) = 1 /\ type = t /\ At(p, A + 3) = 0
      /\ Held(p, A + 4, f)
  BY DEF Standing, Place, Written
<1>2. n \in Nat /\ 1 <= n
  BY <1>1, SizeType
<1>3. r = IF A + 4 > end THEN Malformed({})
          ELSE IF At(p, A + 1) # 1 \/ At(p, A + 3) # 0 \/ FieldType(code) \notin {0, type}
          THEN Malformed(reads)
          ELSE IF type \in {111, 115} THEN StringField(p, code, type, v4, end, reads)
          ELSE IF type = 103 THEN SignatureField(p, code, A + 4, end, reads)
          ELSE IF width = 0 \/ vo + width > end THEN Malformed(reads)
          ELSE Found(code, type, vo, vo + width, reads)
  BY DEF FieldAt
<1>4. /\ Align(A + 4, 1) = A + 4 /\ Align(A + 4, 2) = A + 4 /\ v4 = A + 4
      /\ Align(A + 4, 8) = A + 8
  BY <1>1, Aligned4
<1>5. \E k \in {117, 121, 113, 116, 115, 111, 103} : f.sig = <<k>> /\ t = k
  <2>1. f.sig \in { << 117 >>, << 121 >>, << 113 >>, << 116 >>, << 115 >>, << 111 >>, << 103 >> }
    BY <1>1, SentIs
  <2>2. PICK k \in {117, 121, 113, 116, 115, 111, 103} : f.sig = <<k>>
    BY <2>1
  <2>3. f.sig[1] = k
    BY <2>2
  <2> QED BY <2>2, <2>3
<1>6. ~(A + 4 > end)
  <2> HIDE DEF n
  <2> QED BY <1>1, <1>2
<1>7. FieldType(code) \notin {0, type} <=> ~Good
  BY <1>1
<1> HIDE DEF r, v4, vo, width, reads, n, t, code, type
<1>8. CASE ~Good
  <2>1. r = Malformed(reads)
    BY <1>3, <1>6, <1>7, <1>8
  <2> QED BY <1>8, <2>1 DEF Reads, Malformed, r, t
<1>9. CASE Good
  <2>1. r = IF t \in {111, 115} THEN StringField(p, code, type, v4, end, reads)
            ELSE IF t = 103 THEN SignatureField(p, code, A + 4, end, reads)
            ELSE IF width = 0 \/ vo + width > end THEN Malformed(reads)
            ELSE Found(code, type, vo, vo + width, reads)
    BY <1>1, <1>3, <1>6, <1>7, <1>9
  <2>2. \A o, e : r = Found(code, type, o, e, r.reads) /\ o = (IF t = 116 THEN A + 8 ELSE A + 4) /\ e = A + 4 + n
                  => Reads(r, A, f)
    <3> SUFFICES ASSUME NEW o, NEW e, r = Found(code, type, o, e, r.reads),
                        o = (IF t = 116 THEN A + 8 ELSE A + 4), e = A + 4 + n
                 PROVE  Reads(r, A, f)
      OBVIOUS
    <3>1. r.ok /\ r.code = code /\ r.type = type /\ r.vo = o /\ r.nxt = e
      BY DEF Found
    <3> QED BY <1>1, <1>9, <3>1 DEF Reads, t, n
  <2>3. \A o, e, g : Found(code, type, o, e, g).reads = g
    BY DEF Found
  <2> DEFINE Done(o, e) == \E g : r = Found(code, type, o, e, g)
  <2>4. \A o, e : Done(o, e) /\ o = (IF t = 116 THEN A + 8 ELSE A + 4) /\ e = A + 4 + n => Reads(r, A, f)
    BY <2>2, <2>3
  <2>5. ASSUME t \in {111, 115} PROVE Reads(r, A, f)
    <3> DEFINE l == Len(f.val)
    <3>1. f.sig \in Texts
      BY <1>5, <2>5 DEF Texts
    <3>2. l \in Nat /\ n = 5 + l /\ U32At(p, A + 4) = l
      <4>1. f.val \in Seq(Nat)
        BY <1>1, <3>1, SentIs DEF Texts
      <4>2. n = 5 + Len(f.val)
        BY <3>1, Sizes DEF n
      <4>3. U32At(p, A + 4) = Len(f.val)
        BY <1>1, <3>1 DEF Held
      <4> QED BY <4>1, <4>2, <4>3
    <3> HIDE DEF l
    <3>3. ~(v4 + 4 > end) /\ ~(v4 + 4 + l + 1 > end) /\ v4 + 4 + l + 1 = A + 4 + n
      BY <1>1, <1>4, <3>2
    <3>4. r = StringField(p, code, type, v4, end, reads)
      BY <2>1, <2>5
    <3>5. U32At(p, v4) = l
      BY <1>4, <3>2
    <3>6. StringField(p, code, type, v4, end, reads) = Found(code, type, v4, v4 + 4 + l + 1, reads \cup (v4 .. v4 + 3))
      BY <3>3, <3>5 DEF StringField
    <3>7. t # 116
      BY <2>5
    <3> QED BY <1>4, <2>4, <3>3, <3>4, <3>6, <3>7
  <2>6. ASSUME t = 103 PROVE Reads(r, A, f)
    <3> DEFINE l == Len(f.val)
    <3>1. f.sig = << 103 >>
      BY <1>5, <2>6
    <3>2. l \in Nat /\ n = 2 + l /\ At(p, A + 4) = l
      <4>1. f.val \in Seq(Nat)
        BY <1>1, <3>1, SentIs
      <4>2. n = 2 + Len(f.val)
        BY <3>1, Sizes DEF n
      <4>3. At(p, A + 4) = Len(f.val)
        BY <1>1, <3>1 DEF Held
      <4> QED BY <4>1, <4>2, <4>3
    <3> HIDE DEF l
    <3> DEFINE o == A + 4
    <3>3. ~(o + 1 > end) /\ ~(o + l + 2 > end) /\ o + l + 2 = A + 4 + n
      BY <1>1, <3>2
    <3>4. r = SignatureField(p, code, o, end, reads) /\ type = 103
      BY <1>1, <2>1, <2>6
    <3>5. At(p, o) = l
      BY <3>2
    <3> HIDE DEF o
    <3>6. SignatureField(p, code, o, end, reads) = Found(code, 103, o, o + l + 2, reads \cup {o})
      BY <3>3, <3>5 DEF SignatureField
    <3>7. t # 116 /\ o = A + 4
      BY <2>6 DEF o
    <3> QED BY <2>4, <3>3, <3>4, <3>6, <3>7
  <2>7. ASSUME t \in {117, 121, 113, 116} PROVE Reads(r, A, f)
    <3>1. /\ t = 117 => width = 4 /\ vo = A + 4
          /\ t = 121 => width = 1 /\ vo = A + 4
          /\ t = 113 => width = 2 /\ vo = A + 4
          /\ t = 116 => width = 8 /\ vo = A + 8
      <4>1. /\ t = 117 => width = 4
            /\ t = 121 => width = 1
            /\ t = 113 => width = 2
            /\ t = 116 => width = 8
        BY <1>1 DEF width, BasicSize
      <4> QED BY <1>4, <4>1 DEF vo, v4
    <3>2. /\ t = 117 => n = 4
          /\ t = 121 => n = 1
          /\ t = 113 => n = 2
          /\ t = 116 => n = 12
      BY <1>5, Sizes DEF n
    <3>3. ~(width = 0 \/ vo + width > end) /\ vo + width = A + 4 + n
      <4>1. width # 0 /\ width \in Nat /\ vo \in Nat /\ vo + width = A + 4 + n
        <5>1. \/ width = 4 /\ vo = A + 4 /\ n = 4
              \/ width = 1 /\ vo = A + 4 /\ n = 1
              \/ width = 2 /\ vo = A + 4 /\ n = 2
              \/ width = 8 /\ vo = A + 8 /\ n = 12
          BY <2>7, <3>1, <3>2
        <5>2. A \in Nat
          BY <1>1
        <5> QED BY <5>1, <5>2
      <4>2. ~(vo + width > end)
        BY <1>1, <1>2, <4>1
      <4> QED BY <4>1, <4>2
    <3>4. r = Found(code, type, vo, vo + width, reads)
      BY <2>1, <2>7, <3>3
    <3>5. vo = IF t = 116 THEN A + 8 ELSE A + 4
      BY <2>7, <3>1
    <3> QED BY <2>4, <3>3, <3>4, <3>5
  <2>8. Reads(r, A, f)
    BY <1>5, <2>5, <2>6, <2>7
  <2> QED BY <2>8 DEF r
<1> QED BY <1>8, <1>9

\* A text, byte by byte.
LEMMA BytesAre ==
  ASSUME NEW p \in Seq(Nat), NEW o \in Nat, NEW v \in Seq(Nat), o + Len(v) <= Len(p),
         \A k \in 1 .. Len(v) : At(p, o + k - 1) = v[k]
  PROVE  Bytes(p, o, Len(v)) = v
<1> DEFINE l == Len(v)
           b == SubSeq(p, o + 1, o + l)
<1>1. l \in Nat /\ Len(p) \in Nat
  OBVIOUS
<1>2. b \in Seq(Nat) /\ Len(b) = l /\ \A k \in 1 .. l : b[k] = p[o + k]
  <2>1. o + 1 \in 1 .. Len(p) + 1 /\ o + l \in o .. Len(p)
    BY <1>1
  <2>2. \A i \in o + 1 .. o + l : p[i] \in Nat
    BY <1>1
  <2> QED BY <1>1, <2>1, <2>2
<1>3. ASSUME NEW k \in 1 .. l PROVE b[k] = v[k]
  <2>1. o + k - 1 \in Nat /\ o + k - 1 < Len(p) /\ (o + k - 1) + 1 = o + k
    BY <1>1
  <2>2. At(p, o + k - 1) = p[o + k]
    <3> DEFINE j == o + k - 1
    <3>1. j \in Nat /\ j < Len(p) /\ j + 1 = o + k
      BY <2>1
    <3> HIDE DEF j
    <3>2. At(p, j) = p[j + 1]
      BY <3>1, AtIs
    <3> QED BY <3>1, <3>2 DEF j
  <2> QED BY <1>2, <2>2
<1> HIDE DEF b
<1>4. b = v
  <2>1. v = [k \in 1 .. l |-> v[k]]
    BY <1>1
  <2>2. b = [k \in 1 .. l |-> b[k]]
    <3> HIDE DEF l
    <3> QED BY <1>2
  <2> QED BY <1>3, <2>1, <2>2
<1> QED BY <1>4 DEF b, Bytes

\* A text that stands at o of the message, and what is read of it.
TextIn(p, o, f) ==
  p \in Seq(Nat) /\ o \in Nat /\ f \in Sent /\ o + Size(f) <= Len(p) /\ Held(p, o, f)

TextOut(p, o, f) ==
  /\ f.sig \in Texts => /\ f.val \in Seq(Nat) /\ Size(f) = 5 + Len(f.val) /\ U32At(p, o) = Len(f.val)
                        /\ Bytes(p, o + 4, Len(f.val)) = f.val /\ At(p, o + 4 + Len(f.val)) = 0
  /\ f.sig = << 103 >> => /\ f.val \in Seq(Nat) /\ Size(f) = 2 + Len(f.val) /\ At(p, o) = Len(f.val)
                        /\ Bytes(p, o + 1, Len(f.val)) = f.val /\ At(p, o + 1 + Len(f.val)) = 0

\* A text that is held at o is read from there.
LEMMA TextRead ==
  ASSUME NEW p, NEW o, NEW f, TextIn(p, o, f)
  PROVE  TextOut(p, o, f)
<1> DEFINE v == f.val
           l == Len(f.val)
<1>0. p \in Seq(Nat) /\ o \in Nat /\ f \in Sent /\ o + Size(f) <= Len(p) /\ Held(p, o, f)
  BY DEF TextIn
<1>1. ASSUME f.sig \in Texts
      PROVE  /\ v \in Seq(Nat) /\ Size(f) = 5 + l /\ U32At(p, o) = l
             /\ Bytes(p, o + 4, l) = v /\ At(p, o + 4 + l) = 0
  <2>1. v \in Seq(Nat) /\ l \in Nat
    <3>1. v \in Seq(Nat)
      BY <1>0, <1>1, SentIs DEF Texts
    <3> QED BY <3>1
  <2>2. Size(f) = 5 + l
    BY <1>1, Sizes
  <2>3. U32At(p, o) = l /\ At(p, o + 4 + l) = 0 /\ \A k \in 1 .. l : At(p, o + 3 + k) = v[k]
    BY <1>0, <1>1 DEF Held
  <2>4. o + 4 \in Nat /\ o + 4 + l <= Len(p)
    <3> HIDE DEF l
    <3>1. Len(p) \in Nat
      BY <1>0
    <3> QED BY <1>0, <2>1, <2>2, <3>1
  <2>5. \A k \in 1 .. l : At(p, o + 4 + k - 1) = v[k]
    <3> TAKE k \in 1 .. l
    <3>1. o + 4 + k - 1 = o + 3 + k
      BY <1>0, <2>1
    <3>2. At(p, o + 3 + k) = v[k]
      BY <2>3
    <3> QED BY <3>1, <3>2, Zenon
  <2> DEFINE x == o + 4
  <2>6. x \in Nat /\ x + Len(v) <= Len(p) /\ \A k \in 1 .. Len(v) : At(p, x + k - 1) = v[k]
    BY <2>4, <2>5
  <2> HIDE DEF x, v
  <2>7. Bytes(p, x, Len(v)) = v
    BY <1>0, <2>1, <2>6, BytesAre
  <2> QED BY <2>1, <2>2, <2>3, <2>7 DEF x, v
<1>2. ASSUME f.sig = << 103 >>
      PROVE  /\ v \in Seq(Nat) /\ Size(f) = 2 + l /\ At(p, o) = l
             /\ Bytes(p, o + 1, l) = v /\ At(p, o + 1 + l) = 0
  <2>1. v \in Seq(Nat) /\ l \in Nat
    <3>1. v \in Seq(Nat)
      BY <1>0, <1>2, SentIs
    <3> QED BY <3>1
  <2>2. Size(f) = 2 + l
    BY <1>2, Sizes
  <2>3. At(p, o) = l /\ At(p, o + 1 + l) = 0 /\ \A k \in 1 .. l : At(p, o + k) = v[k]
    BY <1>0, <1>2 DEF Held
  <2>4. o + 1 \in Nat /\ o + 1 + l <= Len(p)
    <3> HIDE DEF l
    <3>1. Len(p) \in Nat
      BY <1>0
    <3> QED BY <1>0, <2>1, <2>2, <3>1
  <2>5. \A k \in 1 .. l : At(p, o + 1 + k - 1) = v[k]
    <3> TAKE k \in 1 .. l
    <3>1. o + 1 + k - 1 = o + k
      BY <1>0, <2>1
    <3>2. At(p, o + k) = v[k]
      BY <2>3
    <3> QED BY <3>1, <3>2, Zenon
  <2> DEFINE x == o + 1
  <2>6. x \in Nat /\ x + Len(v) <= Len(p) /\ \A k \in 1 .. Len(v) : At(p, x + k - 1) = v[k]
    BY <2>4, <2>5
  <2> HIDE DEF x, v
  <2>7. Bytes(p, x, Len(v)) = v
    BY <1>0, <2>1, <2>6, BytesAre
  <2> QED BY <2>1, <2>2, <2>3, <2>7 DEF x, v
<1> QED BY <1>1, <1>2, Zenon DEF TextOut

\* What a field that was sent is accepted for, its code not being one seen.
Fine(f, seen) ==
  /\ f.code # 0 /\ (FieldType(f.code) # 0 => f.code \notin seen)
  /\ f.sig[1] \in {111, 115, 103} => 0 \notin ToSet(f.val)
  /\ f.sig[1] = 111 => PathOk(f.val)

\* The walk accepts a value exactly for that.
LEMMA ValueOkIs ==
  ASSUME NEW p, NEW A, NEW end, NEW f, Standing(p, A, end, f),
         NEW r, r.ok, Reads(r, A, f), NEW seen
  PROVE  ValueOk(p, r, seen) <=> Fine(f, seen)
<1> DEFINE t == f.sig[1]
           len == IF r.type = 103 THEN 1 ELSE 4
           text == Bytes(p, r.vo + len, r.nxt - r.vo - len - 1)
           n == Size(f)
           o == A + 4
<1>1. /\ p \in Seq(Nat) /\ A \in Nat /\ end \in Nat /\ end <= Len(p) /\ o + n <= end /\ f \in Sent
      /\ Held(p, o, f)
  BY DEF Standing, Place, Written
<1>2. r.code = f.code /\ r.type = t /\ r.nxt = o + n /\ r.vo = IF t = 116 THEN A + 8 ELSE o
  BY DEF Reads
<1>3. ValueOk(p, r, seen) <=>
        /\ r.code # 0 /\ (FieldType(r.code) # 0 => r.code \notin seen)
        /\ r.type \in {111, 115, 103} => At(p, r.nxt - 1) = 0 /\ 0 \notin ToSet(text)
        /\ r.type = 111 => PathOk(text)
  BY DEF ValueOk
<1>4. PICK k \in {117, 121, 113, 116, 115, 111, 103} : f.sig = <<k>> /\ t = k
  <2>1. f.sig \in { << 117 >>, << 121 >>, << 113 >>, << 116 >>, << 115 >>, << 111 >>, << 103 >> }
    BY <1>1, SentIs
  <2>2. PICK k \in {117, 121, 113, 116, 115, 111, 103} : f.sig = <<k>>
    BY <2>1
  <2>3. f.sig[1] = k
    BY <2>2
  <2> QED BY <2>2, <2>3
<1>5. n \in Nat /\ Len(p) \in Nat /\ o \in Nat
  BY <1>1, SizeType
<1>6. o + n <= Len(p)
  <2> HIDE DEF n, o
  <2> QED BY <1>1, <1>5
<1>7. /\ f.sig \in Texts => /\ f.val \in Seq(Nat) /\ n = 5 + Len(f.val)
                            /\ Bytes(p, o + 4, Len(f.val)) = f.val /\ At(p, o + 4 + Len(f.val)) = 0
      /\ f.sig = << 103 >> => /\ f.val \in Seq(Nat) /\ n = 2 + Len(f.val)
                            /\ Bytes(p, o + 1, Len(f.val)) = f.val /\ At(p, o + 1 + Len(f.val)) = 0
  <2> HIDE DEF o
  <2>1. TextIn(p, o, f)
    BY <1>1, <1>5, <1>6 DEF TextIn, n
  <2>2. TextOut(p, o, f)
    BY <2>1, TextRead
  <2> QED BY <2>2, Zenon DEF TextOut, n
<1>8. t \in {111, 115, 103} => At(p, r.nxt - 1) = 0 /\ text = f.val
  <2> HIDE DEF n, o, t
  <2> DEFINE l == Len(f.val)
  <2>1. ASSUME t \in {111, 115} PROVE At(p, r.nxt - 1) = 0 /\ text = f.val
    <3>1. f.sig \in Texts
      BY <1>4, <2>1 DEF Texts
    <3>2. l \in Nat /\ n = 5 + l /\ Bytes(p, o + 4, l) = f.val /\ At(p, o + 4 + l) = 0
      BY <1>7, <3>1
    <3>3. r.vo = o /\ len = 4 /\ r.nxt = o + n
      BY <1>2, <2>1
    <3> HIDE DEF l, len
    <3>4. r.nxt - 1 = o + 4 + l /\ r.vo + len = o + 4 /\ r.nxt - r.vo - len - 1 = l
      BY <1>5, <3>2, <3>3
    <3> QED BY <3>2, <3>4
  <2>2. ASSUME t = 103 PROVE At(p, r.nxt - 1) = 0 /\ text = f.val
    <3>1. f.sig = << 103 >>
      BY <1>4, <2>2
    <3>2. l \in Nat /\ n = 2 + l /\ Bytes(p, o + 1, l) = f.val /\ At(p, o + 1 + l) = 0
      BY <1>7, <3>1
    <3>3. r.vo = o /\ len = 1 /\ r.nxt = o + n
      BY <1>2, <2>2
    <3> HIDE DEF l, len
    <3>4. r.nxt - 1 = o + 1 + l /\ r.vo + len = o + 1 /\ r.nxt - r.vo - len - 1 = l
      BY <1>5, <3>2, <3>3
    <3> QED BY <3>2, <3>4
  <2> QED BY <2>1, <2>2
<1> HIDE DEF text, len, n, o
<1> QED BY <1>2, <1>3, <1>8 DEF Fine

\* And what is found at it, if it is one of those that samvada looks for.
LEMMA ValueFound ==
  ASSUME NEW p, NEW A, NEW end, NEW f, Standing(p, A, end, f),
         NEW r, r.ok, Reads(r, A, f), FieldType(f.code) # 0
  PROVE  ValueAt(p, r.vo, f.sig) = f.val
<1> DEFINE t == f.sig[1]
           n == Size(f)
           o == A + 4
           M == Len(p)
           l == Len(f.val)
<1>1. /\ p \in Seq(Nat) /\ A \in Nat /\ end \in Nat /\ end <= M /\ o + n <= end /\ f \in Sent
      /\ Held(p, o, f)
  BY DEF Standing, Place, Written
<1>2. PICK k \in {117, 121, 113, 116, 115, 111, 103} : f.sig = <<k>> /\ t = k
  <2>1. f.sig \in { << 117 >>, << 121 >>, << 113 >>, << 116 >>, << 115 >>, << 111 >>, << 103 >> }
    BY <1>1, SentIs
  <2>2. PICK k \in {117, 121, 113, 116, 115, 111, 103} : f.sig = <<k>>
    BY <2>1
  <2>3. f.sig[1] = k
    BY <2>2
  <2> QED BY <2>2, <2>3
<1>3. t \in {117, 111, 115, 103} /\ r.vo = o
  <2>1. FieldType(f.code) \in {111, 115, 117, 103, 0}
    BY DEF FieldType
  <2>2. FieldType(f.code) \in {0, t} /\ r.vo = IF t = 116 THEN A + 8 ELSE o
    BY DEF Reads
  <2> QED BY <2>1, <2>2
<1>4. n \in Nat /\ M \in Nat /\ o \in Nat
  BY <1>1, SizeType
<1>5. o + n <= M
  <2> HIDE DEF n, o, M
  <2> QED BY <1>1, <1>4
<1>6. /\ f.sig \in Texts => /\ f.val \in Seq(Nat) /\ n = 5 + l /\ U32At(p, o) = l
                            /\ Bytes(p, o + 4, l) = f.val
      /\ f.sig = << 103 >> => /\ f.val \in Seq(Nat) /\ n = 2 + l /\ At(p, o) = l
                            /\ Bytes(p, o + 1, l) = f.val
  <2> HIDE DEF o
  <2>1. TextIn(p, o, f)
    BY <1>1, <1>4, <1>5 DEF TextIn, n, M
  <2>2. TextOut(p, o, f)
    BY <2>1, TextRead
  <2> QED BY <2>2, Zenon DEF TextOut, n, l
<1> HIDE DEF o, n, M, t
<1>7. CASE t = 117
  <2>1. f.sig = << 117 >>
    BY <1>2, <1>7
  <2>2. U32At(p, o) = f.val
    BY <1>1, <2>1 DEF Held
  <2> QED BY <1>3, <2>1, <2>2 DEF ValueAt
<1>8. CASE t = 103
  <2>1. f.sig = << 103 >> /\ << 103 >> # << 117 >>
    BY <1>2, <1>8
  <2>2. l \in Nat /\ n = 2 + l /\ At(p, o) = l /\ Bytes(p, o + 1, l) = f.val
    BY <1>6, <2>1
  <2> HIDE DEF l
  <2>3. ~(o < 0 \/ o + 1 > M) /\ ~(o + 1 + l + 1 > M)
    BY <1>4, <1>5, <2>2
  <2>4. SigAt(p, o) = f.val
    BY <2>2, <2>3 DEF SigAt, M
  <2> QED BY <1>3, <2>1, <2>4 DEF ValueAt
<1>9. CASE t \in {111, 115}
  <2>1. f.sig \in Texts /\ f.sig # << 103 >> /\ f.sig # << 117 >>
    BY <1>2, <1>9 DEF Texts
  <2>2. l \in Nat /\ n = 5 + l /\ U32At(p, o) = l /\ Bytes(p, o + 4, l) = f.val
    BY <1>6, <2>1
  <2> HIDE DEF l
  <2>3. ~(o < 0 \/ o + 4 > M) /\ ~(o + 4 + l + 1 > M)
    BY <1>4, <1>5, <2>2
  <2>4. StrAt(p, o) = f.val
    BY <2>2, <2>3 DEF StrAt, M
  <2> QED BY <1>3, <2>1, <2>4 DEF ValueAt
<1> QED BY <1>3, <1>7, <1>8, <1>9

\* A message of the fields s, and where the walk over them stands.
Walks(p, s, at) == s \in Seq(Sent) /\ Sized(p) /\ Stands(p, s, at)

\* The walk's i-th step.
StepIs(p, s, at, i) ==
  LET r == NextField(p, at[i - 1])
      A == Align(at[i - 1], 8)
  IN  /\ at[i - 1] \in 16 .. Len(p) /\ at[i] \in 16 .. Len(p) /\ s[i] \in Sent
      /\ ~Ended(p, at[i - 1]) /\ NextIs(p, r, at[i - 1])
      /\ Standing(p, A, FieldsEnd(p), s[i]) /\ Reads(r, A, s[i])
      /\ r.ok => r.nxt = at[i]

\* Each step of the walk meets the next field,
LEMMA WalkStep ==
  ASSUME NEW p, NEW s, NEW at, Walks(p, s, at), NEW i \in 1 .. Len(s)
  PROVE  StepIs(p, s, at, i)
<1> DEFINE x == at[i - 1]
           A == Align(at[i - 1], 8)
           r == NextField(p, at[i - 1])
           end == FieldsEnd(p)
           n == Size(s[i])
<1>1. s \in Seq(Sent) /\ Sized(p) /\ Stands(p, s, at)
  BY DEF Walks
<1>2. s[i] \in Sent /\ i - 1 \in 0 .. Len(s) /\ i \in 0 .. Len(s)
  BY <1>1
<1>3. p \in Seq(Nat) /\ Len(p) \in Nat /\ end \in Nat /\ end <= Len(p)
  BY <1>1, SizedIs
<1>4. x \in 16 .. Len(p) /\ at[i] \in 16 .. Len(p) /\ at[i] <= end
      /\ Written(p, A, s[i]) /\ at[i] = A + 4 + n
  BY <1>1, <1>2 DEF Stands
<1>5. x \in Nat /\ A \in Nat /\ A % 8 = 0
  <2>1. x \in Nat /\ 8 \in {1, 2, 4, 8}
    BY <1>3, <1>4
  <2> QED BY <2>1, AlignIs
<1>6. n \in Nat
  BY <1>2, SizeType
<1>7. A + 4 + n <= end /\ ~(A >= end)
  <2> HIDE DEF A, n, end
  <2> QED BY <1>3, <1>4, <1>5, <1>6
<1>8. Standing(p, A, end, s[i])
  BY <1>2, <1>3, <1>4, <1>5, <1>7 DEF Standing, Place
<1>9. r = FieldAt(p, A, end)
  BY DEF NextField
<1>10. Reads(r, A, s[i])
  BY <1>8, <1>9, WrittenRead
<1>11. ~Ended(p, x)
  BY <1>7 DEF Ended
<1>12. NextIs(p, r, x)
  BY <1>1, <1>4, NextFieldIs
<1>13. r.ok => r.nxt = at[i]
  BY <1>4, <1>10 DEF Reads
<1> QED BY <1>2, <1>4, <1>8, <1>10, <1>11, <1>12, <1>13 DEF StepIs

\* and behind the last one the walk ends.
LEMMA WalkEnds ==
  ASSUME NEW p, NEW s, NEW at, Walks(p, s, at)
  PROVE  Ended(p, at[Len(s)]) /\ at[Len(s)] \in 16 .. Len(p) /\ at[0] = 16 /\ Len(s) \in Nat
<1>1. s \in Seq(Sent) /\ Sized(p) /\ Stands(p, s, at)
  BY DEF Walks
<1>2. Len(s) \in Nat /\ Len(s) \in 0 .. Len(s)
  BY <1>1
<1>3. at[Len(s)] \in 16 .. Len(p) /\ at[Len(s)] = FieldsEnd(p) /\ at[0] = 16
  BY <1>1, <1>2 DEF Stands
<1>4. FieldsEnd(p) \in Nat /\ FieldsEnd(p) <= Align(FieldsEnd(p), 8) /\ Align(FieldsEnd(p), 8) \in Nat
  <2>1. FieldsEnd(p) \in Nat /\ 8 \in {1, 2, 4, 8}
    BY <1>1, SizedIs
  <2> QED BY <2>1, AlignIs
<1>5. Ended(p, at[Len(s)])
  BY <1>3, <1>4 DEF Ended
<1> QED BY <1>2, <1>3, <1>5

\* A code that is defined is one that the walk remembers.
LEMMA DefinedCodes ==
  ASSUME NEW c \in Nat
  PROVE  /\ FieldType(c) # 0 <=> c \in 1 .. 9
         /\ FieldType(c) \in {0, 103, 111, 115, 117}
  BY DEF FieldType

\* Whether the fields behind the first i are accepted.
Right(f) == FieldType(f.code) \in {0, f.sig[1]}
Rest(s, i, seen) ==
  /\ \A j \in 1 .. Len(s) : i < j => Right(s[j]) /\ Fine(s[j], seen)
  /\ \A j, k \in 1 .. Len(s) : i < j /\ i < k /\ j # k => s[j].code # s[k].code \/ FieldType(s[j].code) = 0

\* Accepting the rest is accepting a field and what is behind it.
LEMMA RestStep ==
  ASSUME NEW s \in Seq(Sent), NEW i \in 1 .. Len(s), NEW seen,
         NEW more, more = seen \cup ({s[i].code} \cap 1 .. 9)
  PROVE  Rest(s, i - 1, seen) <=> Right(s[i]) /\ Fine(s[i], seen) /\ Rest(s, i, more)
<1> DEFINE D == 1 .. Len(s)
           T(j) == FieldType(s[j].code)
           C(j) == s[j].code
           Other(j) == T(j) # 0 => C(j) # C(i)
<1>1. \A j \in D : C(j) \in Nat /\ (T(j) # 0 <=> C(j) \in 1 .. 9)
  <2> TAKE j \in D
  <2>1. s[j] \in Sent
    OBVIOUS
  <2>2. s[j].code \in Nat
    BY <2>1, SentIs
  <2> QED BY <2>2, DefinedCodes
<1>2. \A j \in D : Fine(s[j], more) <=> Fine(s[j], seen) /\ Other(j)
  <2> TAKE j \in D
  <2> HIDE DEF D
  <2>1. T(j) # 0 => (C(j) \notin more <=> C(j) \notin seen /\ C(j) # C(i))
    BY <1>1
  <2> QED BY <2>1 DEF Fine
<1>3. Len(s) \in Nat /\ i \in Nat /\ \A j \in D : j \in Nat /\ (i - 1 < j <=> j = i \/ i < j) /\ (i < j => j # i)
  OBVIOUS
<1>4. i \in D
  OBVIOUS
<1>5. \A j, k \in D : C(j) = C(k) => (T(j) = 0 <=> T(k) = 0)
  OBVIOUS
<1> DEFINE P(j) == Right(s[j])
           Q(j) == Fine(s[j], seen)
           U(j) == Fine(s[j], more)
           Lt(j) == i < j
           Le(j) == i - 1 < j
<1>6. \A j \in D : (Le(j) <=> j = i \/ Lt(j)) /\ (Lt(j) => j # i) /\ (U(j) <=> Q(j) /\ Other(j))
  BY <1>2, <1>3
<1>7. (/\ \A j \in D : Le(j) => P(j) /\ Q(j)
       /\ \A j, k \in D : Le(j) /\ Le(k) /\ j # k => C(j) # C(k) \/ T(j) = 0)
      <=> (/\ P(i) /\ Q(i)
           /\ \A j \in D : Lt(j) => P(j) /\ U(j)
           /\ \A j, k \in D : Lt(j) /\ Lt(k) /\ j # k => C(j) # C(k) \/ T(j) = 0)
  <2> HIDE DEF D, P, Q, U, Lt, Le
  <2>1. ASSUME \A j \in D : Le(j) => P(j) /\ Q(j),
               \A j, k \in D : Le(j) /\ Le(k) /\ j # k => C(j) # C(k) \/ T(j) = 0
        PROVE  /\ P(i) /\ Q(i)
               /\ \A j \in D : Lt(j) => P(j) /\ U(j)
               /\ \A j, k \in D : Lt(j) /\ Lt(k) /\ j # k => C(j) # C(k) \/ T(j) = 0
    <3>1. P(i) /\ Q(i) /\ Le(i)
      BY <1>4, <1>6, <2>1
    <3>2. ASSUME NEW j \in D, Lt(j) PROVE P(j) /\ U(j)
      <4>1. Le(j) /\ j # i
        BY <1>6, <3>2
      <4>2. P(j) /\ Q(j) /\ (C(j) # C(i) \/ T(j) = 0)
        BY <1>4, <2>1, <3>1, <4>1
      <4> QED BY <1>6, <4>2
    <3>3. ASSUME NEW j \in D, NEW k \in D, Lt(j), Lt(k), j # k PROVE C(j) # C(k) \/ T(j) = 0
      <4>1. Le(j) /\ Le(k)
        BY <1>6, <3>3
      <4> QED BY <2>1, <3>3, <4>1
    <3> QED BY <3>1, <3>2, <3>3
  <2>2. ASSUME P(i), Q(i), \A j \in D : Lt(j) => P(j) /\ U(j),
               \A j, k \in D : Lt(j) /\ Lt(k) /\ j # k => C(j) # C(k) \/ T(j) = 0
        PROVE  /\ \A j \in D : Le(j) => P(j) /\ Q(j)
               /\ \A j, k \in D : Le(j) /\ Le(k) /\ j # k => C(j) # C(k) \/ T(j) = 0
    <3>1. \A j \in D : Lt(j) => P(j) /\ Q(j) /\ Other(j)
      BY <1>6, <2>2
    <3>2. ASSUME NEW j \in D, Le(j) PROVE P(j) /\ Q(j)
      BY <1>6, <2>2, <3>1, <3>2
    <3>3. ASSUME NEW j \in D, NEW k \in D, Le(j), Le(k), j # k PROVE C(j) # C(k) \/ T(j) = 0
      <4>1. CASE j = i
        <5>1. Lt(k)
          BY <1>6, <3>3, <4>1
        <5>2. Other(k)
          BY <3>1, <5>1
        <5> QED BY <1>4, <1>5, <4>1, <5>2
      <4>2. CASE j # i /\ k = i
        <5>1. Lt(j)
          BY <1>6, <3>3, <4>2
        <5>2. Other(j)
          BY <3>1, <5>1
        <5> QED BY <4>2, <5>2
      <4>3. CASE j # i /\ k # i
        BY <1>6, <2>2, <3>3, <4>3
      <4> QED BY <4>1, <4>2, <4>3
    <3> QED BY <3>2, <3>3
  <2> QED BY <2>1, <2>2
<1> QED BY <1>7, Zenon DEF Rest

\* Accepting all of them is what the specification asks.
LEMMA RestAll ==
  ASSUME NEW s \in Seq(Sent)
  PROVE  Rest(s, 0, {}) <=> WellFormedFields(s)
<1>1. DOMAIN s = 1 .. Len(s) /\ \A j \in 1 .. Len(s) : 0 < j
  OBVIOUS
<1> DEFINE D == 1 .. Len(s)
<1>2. Rest(s, 0, {}) <=>
        /\ \A j \in D : Right(s[j]) /\ Fine(s[j], {})
        /\ \A j, k \in D : j # k => s[j].code # s[k].code \/ FieldType(s[j].code) = 0
  <2> HIDE DEF D
  <2>1. \A j \in D : 0 < j
    BY <1>1 DEF D
  <2>2. Rest(s, 0, {}) <=>
        /\ \A j \in D : 0 < j => Right(s[j]) /\ Fine(s[j], {})
        /\ \A j, k \in D : 0 < j /\ 0 < k /\ j # k => s[j].code # s[k].code \/ FieldType(s[j].code) = 0
    BY Zenon DEF Rest, D
  <2> QED BY <2>1, <2>2
<1>3. \A j \in D : Right(s[j]) /\ Fine(s[j], {}) <=>
        /\ s[j].code # 0 /\ FieldType(s[j].code) \in {0, s[j].sig[1]}
        /\ s[j].sig[1] \in {111, 115, 103} => 0 \notin ToSet(s[j].val)
        /\ s[j].sig[1] = 111 => PathOk(s[j].val)
  BY DEF Right, Fine
<1> HIDE DEF D
<1>4. DOMAIN s = D
  BY <1>1 DEF D
<1> QED BY <1>2, <1>3, <1>4 DEF WellFormedFields

\* The array is accepted exactly if its fields are as the specification asks.
LEMMA AcceptedIfRight ==
  ASSUME NEW p, NEW s, NEW at, Walks(p, s, at)
  PROVE  Validate(p).ok <=> WellFormedFields(s)
<1> DEFINE N == Len(s)
           F(i) == NextField(p, at[i - 1])
<1>1. s \in Seq(Sent) /\ Sized(p)
  BY DEF Walks
<1>2. PICK v : Validating(v, p)
  BY <1>1, ValidateWalks
<1>3. Ended(p, at[N]) /\ at[N] \in 16 .. Len(p) /\ at[0] = 16 /\ N \in Nat
  BY WalkEnds
<1>4. \A x \in 16 .. Len(p), seen \in Seen :
       /\ v[x][seen] \in Verdicts(p)
       /\ v[x][seen] =
            LET f   == NextField(p, x)
                got == f.reads \cup TextOf(f)
            IN  IF Ended(p, x) THEN [ok |-> TRUE, reads |-> {}]
                ELSE IF ~f.ok THEN [ok |-> FALSE, reads |-> f.reads]
                ELSE IF ~ValueOk(p, f, seen) THEN [ok |-> FALSE, reads |-> got]
                ELSE [v[f.nxt][AddSeen(seen, f)] EXCEPT !.reads = @ \cup got]
  BY <1>2, Zenon DEF Validating
<1> DEFINE T == {k \in 0 .. N : \A seen \in Seen : v[at[N - k]][seen].ok <=> Rest(s, N - k, seen)}
<1>5. 0 \in T
  <2>1. ASSUME NEW seen \in Seen PROVE v[at[N]][seen].ok <=> Rest(s, N, seen)
    <3>1. v[at[N]][seen] = [ok |-> TRUE, reads |-> {}]
      BY <1>3, <1>4
    <3>2. Rest(s, N, seen)
      BY <1>3 DEF Rest
    <3> QED BY <3>1, <3>2
  <2>2. N - 0 = N /\ 0 \in 0 .. N
    BY <1>3
  <2> QED BY <2>1, <2>2
<1>6. ASSUME NEW k \in 1 .. N, k - 1 \in T PROVE k \in T
  <2> DEFINE i == N - (k - 1)
  <2>1. i \in 1 .. N /\ i - 1 = N - k /\ k \in 0 .. N
    BY <1>3
  <2>2. \A seen \in Seen : v[at[i]][seen].ok <=> Rest(s, i, seen)
    BY <1>6
  <2> HIDE DEF i
  <2>3. StepIs(p, s, at, i)
    BY <2>1, WalkStep
  <2> DEFINE r == NextField(p, at[i - 1])
             A == Align(at[i - 1], 8)
  <2>4. /\ at[i - 1] \in 16 .. Len(p) /\ s[i] \in Sent
        /\ ~Ended(p, at[i - 1]) /\ r.ok \in BOOLEAN
        /\ Standing(p, A, FieldsEnd(p), s[i]) /\ Reads(r, A, s[i])
        /\ r.ok => r.nxt = at[i]
    BY <2>3 DEF StepIs, NextIs
  <2>5. r.ok <=> Right(s[i])
    BY <2>4 DEF Reads, Right
  <2>6. ASSUME NEW seen \in Seen PROVE v[at[i - 1]][seen].ok <=> Rest(s, i - 1, seen)
    <3> DEFINE got == r.reads \cup TextOf(r)
               more == seen \cup ({s[i].code} \cap 1 .. 9)
               u == v[at[i - 1]][seen]
    <3>1. u = IF ~r.ok THEN [ok |-> FALSE, reads |-> r.reads]
              ELSE IF ~ValueOk(p, r, seen) THEN [ok |-> FALSE, reads |-> got]
              ELSE [v[r.nxt][AddSeen(seen, r)] EXCEPT !.reads = @ \cup got]
      <4>1. u = IF Ended(p, at[i - 1]) THEN [ok |-> TRUE, reads |-> {}]
              ELSE IF ~r.ok THEN [ok |-> FALSE, reads |-> r.reads]
              ELSE IF ~ValueOk(p, r, seen) THEN [ok |-> FALSE, reads |-> got]
              ELSE [v[r.nxt][AddSeen(seen, r)] EXCEPT !.reads = @ \cup got]
        BY <1>4, <2>4
      <4> HIDE DEF u, r, got
      <4> QED BY <2>4, <4>1
    <3>2. Rest(s, i - 1, seen) <=> Right(s[i]) /\ Fine(s[i], seen) /\ Rest(s, i, more)
      BY <1>1, <2>1, RestStep
    <3>3. CASE ~r.ok
      BY <2>5, <3>1, <3>2, <3>3
    <3>4. CASE r.ok
      <4>1. ValueOk(p, r, seen) <=> Fine(s[i], seen)
        BY <2>4, <3>4, ValueOkIs
      <4>2. r.code = s[i].code /\ r.nxt = at[i]
        BY <2>4, <3>4 DEF Reads
      <4>3. AddSeen(seen, r) = more /\ more \in Seen
        BY <4>2 DEF AddSeen, Seen
      <4> DEFINE w == v[at[i]][more]
      <4>4. w \in Verdicts(p) /\ (w.ok <=> Rest(s, i, more))
        <5>1. at[i] \in 16 .. Len(p)
          BY <2>3 DEF StepIs
        <5> QED BY <1>4, <2>2, <4>3, <5>1
      <4>5. u = IF ~ValueOk(p, r, seen) THEN [ok |-> FALSE, reads |-> got] ELSE [w EXCEPT !.reads = @ \cup got]
        <5> HIDE DEF u, r, got, more
        <5> QED BY <3>1, <3>4, <4>2, <4>3
      <4> HIDE DEF u, r, got, more, w
      <4>6. u.ok <=> ValueOk(p, r, seen) /\ w.ok
        BY <4>4, <4>5 DEF Verdicts
      <4>7. u.ok <=> Rest(s, i - 1, seen)
        BY <2>5, <3>2, <3>4, <4>1, <4>4, <4>6
      <4> QED BY <4>7 DEF u
    <3> QED BY <2>4, <3>3, <3>4
  <2> QED BY <2>1, <2>6
<1>7. \A k \in 0 .. N : k \in T
  <2> HIDE DEF T, N
  <2> QED BY <1>3, <1>5, <1>6, UpTo
<1>8. v[16][{}].ok <=> Rest(s, 0, {})
  <2>1. N \in 0 .. N /\ N - N = 0 /\ {} \in Seen
    BY <1>3 DEF Seen
  <2>2. N \in T
    BY <1>7, <2>1
  <2> HIDE DEF N
  <2>3. v[at[N - N]][{}].ok <=> Rest(s, N - N, {})
    BY <2>1, <2>2
  <2> QED BY <1>3, <2>1, <2>3
<1>9. Validate(p).ok <=> v[16][{}].ok
  <2>1. {} \in Seen /\ 16 \in 16 .. Len(p)
    BY <1>1, SizedIs DEF Seen
  <2>2. Validate(p) = [v[16][{}] EXCEPT !.reads = @ \cup (12 .. 15)] /\ v[16][{}] \in Verdicts(p)
    BY <1>2, <1>4, <2>1 DEF Validating
  <2> QED BY <2>2 DEF Verdicts
<1> QED BY <1>1, <1>8, <1>9, RestAll

\* A code is found where its field stands, whatever precedes it; one that no
\* field has is not.
FoundAt(p, s, at, code, off) ==
  /\ off = -1 <=> \A j \in 1 .. Len(s) : s[j].code # code
  /\ \A j \in 1 .. Len(s) : s[j].code = code => NextField(p, at[j - 1]).ok /\ off = NextField(p, at[j - 1]).vo

\* As the codes differ, the first field that has the code is the only one.
LEMMA FoundWhere ==
  ASSUME NEW p, NEW s, NEW at, Walks(p, s, at), WellFormedFields(s), NEW code \in 1 .. 9
  PROVE  FoundAt(p, s, at, code, FindField(p, code).off)
<1> DEFINE N == Len(s)
           F(j) == NextField(p, at[j - 1])
<1>1. s \in Seq(Sent) /\ Sized(p)
  BY DEF Walks
<1>2. PICK g : Finding(g, p, code)
  BY <1>1, FindWalks
<1>3. Ended(p, at[N]) /\ at[N] \in 16 .. Len(p) /\ at[0] = 16 /\ N \in Nat
  BY WalkEnds
<1>4. \A x \in 16 .. Len(p) :
       /\ g[x] \in Looks(p)
       /\ g[x] = LET f == NextField(p, x)
                 IN  IF Ended(p, x) THEN [off |-> -1, reads |-> {}]
                     ELSE IF ~f.ok THEN [off |-> -2, reads |-> f.reads]
                     ELSE IF f.code = code THEN [off |-> f.vo, reads |-> f.reads]
                     ELSE [g[f.nxt] EXCEPT !.reads = @ \cup f.reads]
  BY <1>2 DEF Finding
<1>5. ASSUME NEW j \in 1 .. N
      PROVE  /\ F(j).ok /\ F(j).code = s[j].code /\ F(j).vo \in Nat /\ F(j).nxt = at[j]
             /\ ~Ended(p, at[j - 1]) /\ at[j - 1] \in 16 .. Len(p) /\ at[j] \in 16 .. Len(p)
  <2>1. StepIs(p, s, at, j)
    BY WalkStep
  <2> DEFINE r == F(j)
             A == Align(at[j - 1], 8)
  <2>2. /\ at[j - 1] \in 16 .. Len(p) /\ at[j] \in 16 .. Len(p)
        /\ ~Ended(p, at[j - 1]) /\ NextIs(p, r, at[j - 1]) /\ Reads(r, A, s[j]) /\ (r.ok => r.nxt = at[j])
    BY <2>1, Zenon DEF StepIs
  <2>3. Right(s[j])
    <3>1. j \in DOMAIN s
      BY <1>1
    <3> QED BY <3>1 DEF WellFormedFields, Right
  <2> HIDE DEF r
  <2>4. r.ok /\ r.code = s[j].code
    BY <2>2, <2>3 DEF Reads, Right
  <2>5. r.vo \in Nat
    BY <2>2, <2>4 DEF NextIs, FieldIn
  <2> QED BY <2>2, <2>4, <2>5 DEF r
<1>6. \A j, k \in 1 .. N : s[j].code = code /\ s[k].code = code => j = k
  <2> TAKE j, k \in 1 .. N
  <2>1. j \in DOMAIN s /\ k \in DOMAIN s
    BY <1>1
  <2>2. FieldType(code) # 0
    BY DefinedCodes
  <2> QED BY <2>1, <2>2 DEF WellFormedFields
<1> DEFINE Absent(i) == \A j \in 1 .. N : i < j => s[j].code # code
           Hit(i) == /\ g[at[i]].off = -1 <=> Absent(i)
                     /\ \A j \in 1 .. N : i < j /\ s[j].code = code => g[at[i]].off = F(j).vo
           T == {k \in 0 .. N : Hit(N - k)}
<1>7. 0 \in T
  <2>1. g[at[N]].off = -1
    <3> DEFINE x == at[N]
               f == NextField(p, x)
    <3> HIDE DEF x
    <3>1. x \in 16 .. Len(p) /\ Ended(p, x)
      BY <1>3 DEF x
    <3>2. g[x] = IF Ended(p, x) THEN [off |-> -1, reads |-> {}]
                 ELSE IF ~f.ok THEN [off |-> -2, reads |-> f.reads]
                 ELSE IF f.code = code THEN [off |-> f.vo, reads |-> f.reads]
                 ELSE [g[f.nxt] EXCEPT !.reads = @ \cup f.reads]
      BY <1>4, <3>1
    <3> HIDE DEF f
    <3>3. g[x].off = -1
      BY <3>1, <3>2
    <3> QED BY <3>3 DEF x
  <2>2. \A j \in 1 .. N : ~(N < j)
    BY <1>3
  <2>3. Hit(N)
    BY <2>1, <2>2
  <2>4. N - 0 = N /\ 0 \in 0 .. N
    BY <1>3
  <2> HIDE DEF Hit
  <2> QED BY <2>3, <2>4
<1>8. ASSUME NEW k \in 1 .. N, k - 1 \in T PROVE k \in T
  <2> DEFINE i == N - (k - 1)
  <2>1. i \in 1 .. N /\ i - 1 = N - k /\ k \in 0 .. N
    BY <1>3
  <2>2. Hit(i)
    <3> HIDE DEF Hit
    <3> QED BY <1>8
  <2> HIDE DEF i
  <2>3. \A j \in 1 .. N : (i - 1 < j <=> j = i \/ i < j)
    BY <1>3, <2>1
  <2> DEFINE r == F(i)
             u == g[at[i - 1]]
             w == g[at[i]]
  <2>4. /\ r.ok /\ r.code = s[i].code /\ r.vo \in Nat /\ r.nxt = at[i]
        /\ ~Ended(p, at[i - 1]) /\ at[i - 1] \in 16 .. Len(p) /\ at[i] \in 16 .. Len(p)
    BY <1>5, <2>1
  <2>5. u = IF r.code = code THEN [off |-> r.vo, reads |-> r.reads] ELSE [w EXCEPT !.reads = @ \cup r.reads]
    <3>1. u = IF Ended(p, at[i - 1]) THEN [off |-> -1, reads |-> {}]
              ELSE IF ~r.ok THEN [off |-> -2, reads |-> r.reads]
              ELSE IF r.code = code THEN [off |-> r.vo, reads |-> r.reads]
              ELSE [g[r.nxt] EXCEPT !.reads = @ \cup r.reads]
      BY <1>4, <2>4
    <3> HIDE DEF u, r
    <3> QED BY <2>4, <3>1
  <2>6. w \in Looks(p)
    BY <1>4, <2>4
  <2>7. /\ s[i].code = code => u.off = r.vo
        /\ s[i].code # code => u.off = w.off
    <3> HIDE DEF u, r, w
    <3> QED BY <2>4, <2>5, <2>6 DEF Looks
  <2>8. CASE s[i].code = code
    <3>1. u.off = F(i).vo /\ F(i).vo \in Nat
      BY <2>4, <2>7, <2>8
    <3>2. ~Absent(i - 1)
      BY <2>1, <2>3, <2>8
    <3>3. \A j \in 1 .. N : s[j].code = code => j = i
      BY <1>6, <2>1, <2>8
    <3>4. u.off # -1
      BY <3>1
    <3>5. Hit(i - 1)
      <4> HIDE DEF F, N, Absent
      <4> QED BY <3>1, <3>2, <3>3, <3>4
    <3> HIDE DEF Hit
    <3> QED BY <2>1, <3>5
  <2>9. CASE s[i].code # code
    <3>1. u.off = w.off
      BY <2>7, <2>9
    <3>2. \A j \in 1 .. N : s[j].code = code => (i - 1 < j <=> i < j)
      BY <2>3, <2>9
    <3>3. Absent(i - 1) <=> Absent(i)
      BY <3>2
    <3>4. Hit(i - 1)
      <4> HIDE DEF F, N, Absent
      <4> QED BY <2>2, <3>1, <3>2, <3>3
    <3> HIDE DEF Hit
    <3> QED BY <2>1, <3>4
  <2> QED BY <2>8, <2>9
<1>9. Hit(0)
  <2>1. \A k \in 0 .. N : k \in T
    <3> HIDE DEF T, N
    <3> QED BY <1>3, <1>7, <1>8, UpTo
  <2>2. N \in 0 .. N /\ N - N = 0
    BY <1>3
  <2>3. N \in T
    BY <2>1, <2>2
  <2> HIDE DEF Hit, N
  <2>4. Hit(N - N)
    BY <2>3
  <2> QED BY <2>2, <2>4
<1>10. FindField(p, code).off = g[at[0]].off
  <2>1. 16 \in 16 .. Len(p)
    BY <1>1, SizedIs
  <2>2. FindField(p, code) = [g[16] EXCEPT !.reads = @ \cup (12 .. 15)] /\ g[16] \in Looks(p)
    BY <1>2, <1>4, <2>1 DEF Finding
  <2>3. FindField(p, code).off = g[16].off
    BY <2>2 DEF Looks
  <2> QED BY <1>3, <2>3
<1>11. \A j \in 1 .. N : 0 < j
  OBVIOUS
<1> QED BY <1>5, <1>9, <1>10, <1>11 DEF FoundAt

\* A message of raw bytes.
LEMMA RawIs ==
  ASSUME src \in Seq(Byte), NEW n \in Nat
  PROVE  Raw(n) \in Seq(Nat) /\ 16 <= Len(Raw(n))
<1> DEFINE L == Len(src)
           h == <<108, 2, 0, 1>>
           a == Int32(TRUE, L + 9)
           b == Int32(TRUE, 1)
           c == Int32(TRUE, n)
           h1 == h \o a
           h2 == h1 \o b
           h3 == h2 \o c
           h4 == h3 \o src
<1>1. src \in Seq(Nat) /\ L \in Nat
  <2>1. \A x \in Byte : x \in Nat
    BY DEF Byte
  <2>2. src = [i \in 1 .. Len(src) |-> src[i]] /\ Len(src) \in Nat /\ \A i \in 1 .. Len(src) : src[i] \in Nat
    BY <2>1
  <2> QED BY <2>2
<1>2. /\ h \in Seq(Nat) /\ Len(h) = 4 /\ a \in Seq(Nat) /\ Len(a) = 4
      /\ b \in Seq(Nat) /\ Len(b) = 4 /\ c \in Seq(Nat) /\ Len(c) = 4
  <2>1. L + 9 \in Nat /\ 1 \in Nat
    BY <1>1
  <2>2. h \in Seq(Nat) /\ Len(h) = 4
    OBVIOUS
  <2> HIDE DEF L
  <2> QED BY <2>1, <2>2, Int32Is
<1>3. Raw(n) = h4
  BY DEF Raw
<1> HIDE DEF L, h, a, b, c
<1>4. h1 \in Seq(Nat) /\ Len(h1) = 8
  <2>1. h1 \in Seq(Nat) /\ Len(h1) = Len(h) + Len(a)
    BY <1>2, PartBehind
  <2> QED BY <1>2, <2>1
<1> HIDE DEF h1
<1>5. h2 \in Seq(Nat) /\ Len(h2) = 12
  <2>1. h2 \in Seq(Nat) /\ Len(h2) = Len(h1) + Len(b)
    BY <1>2, <1>4, PartBehind
  <2> QED BY <1>2, <1>4, <2>1
<1> HIDE DEF h2
<1>6. h3 \in Seq(Nat) /\ Len(h3) = 16
  <2>1. h3 \in Seq(Nat) /\ Len(h3) = Len(h2) + Len(c)
    BY <1>2, <1>5, PartBehind
  <2> QED BY <1>2, <1>5, <2>1
<1> HIDE DEF h3
<1>7. h4 \in Seq(Nat) /\ Len(h4) = 16 + L
  <2>1. h4 \in Seq(Nat) /\ Len(h4) = Len(h3) + Len(src)
    BY <1>1, <1>6, PartBehind
  <2> QED BY <1>6, <2>1 DEF L
<1> QED BY <1>1, <1>3, <1>7

\* The text is of the reader's alphabet.
WireType ==
  /\ reader \in Readers
  /\ reader = "wire" => src \in Seq(Byte)
  /\ reader = "fields" => src \in Seq(Sent)

\* The text begins empty,
LEMMA WireTypeInit == TextInit => WireType
<1>1. \A S : <<>> \in Seq(S)
  BY EmptySeq
<1> QED BY <1>1 DEF TextInit, WireType

\* and phrases of the alphabet are put behind it.
LEMMA WireTypeNext == WireType /\ [TextNext]_textvars => WireType'
<1> SUFFICES ASSUME WireType, [TextNext]_textvars PROVE WireType'
  OBVIOUS
<1>1. CASE UNCHANGED textvars
  BY <1>1 DEF WireType, textvars
<1>2. ASSUME NEW p \in Phrases[reader], Type(p) PROVE WireType'
  <2>1. reader' = reader /\ src' = src \o p
    BY <1>2 DEF Type
  <2>2. ASSUME reader = "wire" PROVE src' \in Seq(Byte)
    <3>1. src \in Seq(Byte) /\ p \in Seq(Byte)
      BY <1>2, <2>2, WirePhrases DEF WireType
    <3> HIDE DEF Byte
    <3> QED BY <2>1, <3>1
  <2>3. ASSUME reader = "fields" PROVE src' \in Seq(Sent)
    <3>1. src \in Seq(Sent) /\ p \in Seq(Sent)
      BY <1>2, <2>3, WirePhrases DEF WireType
    <3> QED BY <2>1, <3>1
  <2> QED BY <2>1, <2>2, <2>3 DEF WireType
<1> QED BY <1>1, <1>2 DEF TextNext

\* Whatever the bytes are.
LEMMA WireFound ==
  ASSUME src \in Seq(Byte), NEW n \in Claims
  PROVE  LET p == Raw(n)
             v == Validate(p)
             f == [c \in Sought |-> FindField(p, c)]
         IN  /\ v.reads \cup BodyReads(p) \cup UNION { f[c].reads : c \in Sought } \subseteq 0 .. Len(p) - 1
             /\ v.ok => \A c \in Sought :
                  /\ f[c].off # -2
                  /\ f[c].off > 0 => IF FieldType(c) = 117 THEN f[c].off + 4 <= Len(p)
                                      ELSE ValueAt(p, f[c].off, <<FieldType(c)>>) # None
<1> DEFINE p == Raw(n)
           v == Validate(p)
           f == [c \in Sought |-> FindField(p, c)]
           M == 0 .. Len(p) - 1
<1>1. n \in Nat
  <2>1. Len(src) \in Nat
    OBVIOUS
  <2>2. n \in {Len(src) - 8, Len(src) - 1, Len(src), Len(src) + 1, 999} /\ n >= 0
    BY DEF Claims
  <2> QED BY <2>1, <2>2
<1>2. p \in Seq(Nat) /\ 16 <= Len(p)
  BY <1>1, RawIs
<1> HIDE DEF p
<1>3. v.reads \subseteq M
  BY <1>2, ValidateStaysInside
<1>4. BodyReads(p) \subseteq M
  BY <1>2, BodyStaysInside
<1>5. \A c \in Sought : f[c] = FindField(p, c)
  OBVIOUS
<1>6. \A c \in Sought : f[c].reads \subseteq M
  BY <1>2, <1>5, FindStaysInside
<1>7. ASSUME v.ok, NEW c \in Sought
      PROVE  /\ f[c].off # -2
             /\ f[c].off > 0 => IF FieldType(c) = 117 THEN f[c].off + 4 <= Len(p)
                                 ELSE ValueAt(p, f[c].off, <<FieldType(c)>>) # None
  <2>1. c \in {1, 2, 5, 8}
    BY DEF Sought
  <2>2. FindField(p, c).off # -2 /\ Readable(p, c, FindField(p, c).off)
    BY <1>2, <1>7, <2>1, AcceptedReadable
  <2> QED BY <1>5, <2>2 DEF Readable
<1> HIDE DEF v, f, M
<1>8. v.reads \cup BodyReads(p) \cup UNION { f[c].reads : c \in Sought } \subseteq M
  BY <1>3, <1>4, <1>6
<1> QED BY <1>7, <1>8 DEF p, v, f, M

\* Whatever the fields are.
LEMMA SentFound ==
  ASSUME src \in Seq(Sent)
  PROVE  LET body  == <<7, 0, 0, 0>>
             p     == Encoded([le |-> TRUE, type |-> 2, serial |-> 1, fields |-> src, body |-> body])
             b     == BodyBegin(p)
             off   == [c \in 1 .. 9 |-> FindField(p, c).off]
         IN  /\ Validate(p).ok <=> WellFormedFields(src)
             /\ WellFormedFields(src) =>
                  /\ \A c \in 1 .. 9 : off[c] = -1 <=> \A i \in DOMAIN src : src[i].code # c
                  /\ \A i \in DOMAIN src : FieldType(src[i].code) # 0 =>
                       ValueAt(p, off[src[i].code], src[i].sig) = src[i].val
             /\ b.at = Len(p) - Len(body) /\ b.end = Len(p)
<1> DEFINE body == <<7, 0, 0, 0>>
           m == [le |-> TRUE, type |-> 2, serial |-> 1, fields |-> src, body |-> body]
           p == Encoded(m)
           b == BodyBegin(p)
           off == [c \in 1 .. 9 |-> FindField(p, c).off]
<1>1. Len(body) = 4 /\ p = Encoded(Reply(src))
  BY DEF Reply, OneWord
<1> HIDE DEF body, m, p
<1>2. Sized(p) /\ (\E at : Stands(p, src, at)) /\ b.at = Len(p) - 4 /\ b.end = Len(p)
  BY <1>1, FieldsStand
<1>3. PICK at : Stands(p, src, at)
  BY <1>2
<1>4. Walks(p, src, at)
  BY <1>2, <1>3 DEF Walks
<1>5. Validate(p).ok <=> WellFormedFields(src)
  BY <1>4, AcceptedIfRight
<1>6. DOMAIN src = 1 .. Len(src)
  OBVIOUS
<1>7. ASSUME WellFormedFields(src), NEW c \in 1 .. 9
      PROVE  FoundAt(p, src, at, c, off[c])
  <2>1. FoundAt(p, src, at, c, FindField(p, c).off)
    BY <1>4, <1>7, FoundWhere
  <2> QED BY <2>1
<1> HIDE DEF off
<1>8. ASSUME WellFormedFields(src), NEW c \in 1 .. 9
      PROVE  off[c] = -1 <=> \A i \in DOMAIN src : src[i].code # c
  BY <1>6, <1>7, <1>8 DEF FoundAt
<1>9. ASSUME WellFormedFields(src), NEW i \in DOMAIN src, FieldType(src[i].code) # 0
      PROVE  ValueAt(p, off[src[i].code], src[i].sig) = src[i].val
  <2> DEFINE f == src[i]
             c == src[i].code
             r == NextField(p, at[i - 1])
             A == Align(at[i - 1], 8)
  <2>1. f \in Sent /\ i \in 1 .. Len(src)
    BY <1>6
  <2>2. c \in 1 .. 9
    <3>1. c \in Nat
      BY <2>1, SentIs
    <3> QED BY <1>9, <3>1, DefinedCodes
  <2>3. r.ok /\ off[c] = r.vo
    <3> HIDE DEF c, r
    <3>1. FoundAt(p, src, at, c, off[c])
      BY <1>7, <1>9, <2>2
    <3>2. \A j \in 1 .. Len(src) : src[j].code = c => NextField(p, at[j - 1]).ok /\ off[c] = NextField(p, at[j - 1]).vo
      BY <3>1, Zenon DEF FoundAt
    <3>3. src[i].code = c
      BY DEF c
    <3> QED BY <2>1, <3>2, <3>3 DEF r
  <2>4. Standing(p, A, FieldsEnd(p), f) /\ Reads(r, A, f)
    BY <1>4, <2>1, WalkStep DEF StepIs
  <2>5. FieldType(f.code) # 0
    BY <1>9
  <2> HIDE DEF r, A, f
  <2>6. ValueAt(p, r.vo, f.sig) = f.val
    BY <2>3, <2>4, <2>5, ValueFound
  <2> QED BY <2>3, <2>6 DEF f
<1> QED BY <1>1, <1>2, <1>5, <1>8, <1>9 DEF b, off, p, m, body

\* What was found of both kinds of text.
LEMMA WireTypeFound == WireType => FieldsFound
<1> SUFFICES ASSUME WireType PROVE FieldsFound
  OBVIOUS
<1>1. reader = "wire" => src \in Seq(Byte)
  BY DEF WireType
<1>2. reader = "fields" => src \in Seq(Sent)
  BY DEF WireType
<1> QED BY <1>1, <1>2, WireFound, SentFound, Zenon DEF FieldsFound

(* dbus_unmarshal_validate, _find_field and the body's cursor: whatever     *)
(* bytes and lengths a message has, nothing beyond its end is read, and of  *)
(* one that is accepted every sought field can be read; of the fields that  *)
(* a sender encodes, however many, of whatever codes, types and lengths,    *)
(* the array is accepted exactly if they are as the specification asks, and *)
(* each defined one is found with its value.                                *)
THEOREM FieldsAreFound == TextSpec => []FieldsFound
<1> QED BY WireTypeInit, WireTypeNext, WireTypeFound, PTL DEF TextSpec
=============================================================================

----------------------------- MODULE DbusUnmarshal -----------------------------
(***************************************************************************)
(* Reading a message (src/dbus_unmarshal.cyr): the walk over its header    *)
(* fields and the cursor over its body, both over bytes that the peer      *)
(* chose. A value that is returned comes with the offsets that were read.  *)
(*                                                                         *)
(* Byte order: little-endian, the only one the framer yields. p holds the  *)
(* message, and the limit is its length: dbus_frame_next yields it whole.  *)
(* A byte is below 128, so that a u32 is a number TLC can hold.            *)
(***************************************************************************)
EXTENDS DbusDecode

U32At(p, o) == At(p, o) + 256 * At(p, o + 1) + 65536 * At(p, o + 2) + 16777216 * At(p, o + 3)

\* _dbu_basic_size; 0 for a type that is not basic.
BasicSize(t) ==
  CASE t = 121 -> 1 [] t \in {110, 113} -> 2 [] t \in {98, 105, 117, 104} -> 4
    [] t \in {120, 116, 100} -> 8 [] OTHER -> 0

\* _dbu_field_type; 0 for a code that is not defined.
FieldType(code) ==
  CASE code = 1 -> 111 [] code \in {2, 3, 4, 6, 7} -> 115 [] code \in {5, 9} -> 117
    [] code = 8 -> 103 [] OTHER -> 0

\* One step of the walk: a field's code, type, value and end, or malformed.
Malformed(reads) == [ok |-> FALSE, reads |-> reads]
Found(code, type, vo, nxt, reads) ==
  [ok |-> TRUE, code |-> code, type |-> type, vo |-> vo, nxt |-> nxt, reads |-> reads]

\* `s` and `o`: a u32 length, and that many bytes and a NUL inside the array.
StringField(p, code, type, vo, end, reads) ==
  LET n   == U32At(p, vo)
      got == reads \cup (vo .. vo + 3)
  IN  IF vo + 4 > end THEN Malformed(reads)
      ELSE IF vo + 4 + n + 1 > end THEN Malformed(got)
      ELSE Found(code, type, vo, vo + 4 + n + 1, got)

\* `g`: a one-byte length.
SignatureField(p, code, vo, end, reads) ==
  LET n == At(p, vo)
  IN  IF vo + 1 > end THEN Malformed(reads)
      ELSE IF vo + n + 2 > end THEN Malformed(reads \cup {vo})
      ELSE Found(code, 103, vo, vo + n + 2, reads \cup {vo})

FieldAt(p, at, end) ==
  LET code  == At(p, at)
      type  == At(p, at + 2)
      width == BasicSize(type)
      reads == at .. at + 3
      vo    == Align(at + 4, width)
  IN  IF at + 4 > end THEN Malformed({})
      ELSE IF At(p, at + 1) # 1 \/ At(p, at + 3) # 0 \/ FieldType(code) \notin {0, type}
      THEN Malformed(reads)
      ELSE IF type \in {111, 115} THEN StringField(p, code, type, Align(at + 4, 4), end, reads)
      ELSE IF type = 103 THEN SignatureField(p, code, at + 4, end, reads)
      ELSE IF width = 0 \/ vo + width > end THEN Malformed(reads)
      ELSE Found(code, type, vo, vo + width, reads)

FieldsEnd(p) == 16 + U32At(p, 12)

\* From offset at on: whether the array ends there, and the next field in it.
Ended(p, at) == Align(at, 8) >= FieldsEnd(p)
NextField(p, at) == FieldAt(p, Align(at, 8), FieldsEnd(p))

\* dbus_unmarshal_find_field: the value's offset, -1 if it is not found, -2
\* if the array is malformed before it is.
FindField(p, code) ==
  LET Walk[at \in 16 .. Len(p)] ==
        LET f    == NextField(p, at)
            rest == Walk[f.nxt]
        IN  IF Ended(p, at) THEN [off |-> -1, reads |-> {}]
            ELSE IF ~f.ok THEN [off |-> -2, reads |-> f.reads]
            ELSE IF f.code = code THEN [off |-> f.vo, reads |-> f.reads]
            ELSE [rest EXCEPT !.reads = @ \cup f.reads]
  IN  IF Len(p) < 16 THEN [off |-> -2, reads |-> {}]
      ELSE IF FieldsEnd(p) > Len(p) THEN [off |-> -2, reads |-> 12 .. 15]
      ELSE [Walk[16] EXCEPT !.reads = @ \cup (12 .. 15)]

Bytes(p, o, n) == SubSeq(p, o + 1, o + n)

\* dbus_unmarshal_path_ok
PathOk(s) ==
  LET Word(c) == c \in (65 .. 90) \cup (97 .. 122) \cup (48 .. 57) \cup {95}
  IN  /\ s # <<>> /\ s[1] = 47
      /\ Len(s) > 1 => s[Len(s)] # 47
      /\ \A i \in 2 .. Len(s) : Word(s[i]) \/ (s[i] = 47 /\ s[i - 1] # 47)

\* What dbus_unmarshal_validate asks of a field that the walk steps over.
ValueOk(p, f, seen) ==
  LET len  == IF f.type = 103 THEN 1 ELSE 4
      text == Bytes(p, f.vo + len, f.nxt - f.vo - len - 1)
  IN  /\ f.code # 0
      /\ FieldType(f.code) # 0 => f.code \notin seen
      /\ f.type \in {111, 115, 103} => At(p, f.nxt - 1) = 0 /\ 0 \notin ToSet(text)
      /\ f.type = 111 => PathOk(text)

\* The bytes of a text that is stepped over.
TextOf(f) == IF f.type \in {111, 115, 103} THEN f.vo .. f.nxt - 1 ELSE {}

\* dbus_unmarshal_validate: whether the array is valid.
Validate(p) ==
  LET Walk[at \in 16 .. Len(p)] ==
        [seen \in SUBSET (1 .. 9) |->
           LET f    == NextField(p, at)
               rest == Walk[f.nxt][seen \cup ({f.code} \cap 1 .. 9)]
               got  == f.reads \cup TextOf(f)
           IN  IF Ended(p, at) THEN [ok |-> TRUE, reads |-> {}]
               ELSE IF ~f.ok THEN [ok |-> FALSE, reads |-> f.reads]
               ELSE IF ~ValueOk(p, f, seen) THEN [ok |-> FALSE, reads |-> got]
               ELSE [rest EXCEPT !.reads = @ \cup got]]
  IN  IF Len(p) < 16 THEN [ok |-> FALSE, reads |-> {}]
      ELSE IF FieldsEnd(p) > Len(p) THEN [ok |-> FALSE, reads |-> 12 .. 15]
      ELSE [Walk[16][{}] EXCEPT !.reads = @ \cup (12 .. 15)]

-----------------------------------------------------------------------------
None == <<-1>>

\* dbus_unmarshal_str_at and dbus_unmarshal_sig_at: the bytes, if all of them
\* and their NUL are inside the message.
StrAt(p, o) ==
  IF o < 0 \/ o + 4 > Len(p) THEN None
  ELSE IF o + 4 + U32At(p, o) + 1 > Len(p) THEN None ELSE Bytes(p, o + 4, U32At(p, o))

SigAt(p, o) ==
  IF o < 0 \/ o + 1 > Len(p) THEN None
  ELSE IF o + 1 + At(p, o) + 1 > Len(p) THEN None ELSE Bytes(p, o + 1, At(p, o))

\* Mutant: the body is as long as the header says.
BodyBeginTrusts(p) ==
  LET at == Align(FieldsEnd(p), 8)
  IN  [at |-> at, end |-> at + U32At(p, 4), reads |-> {}, ok |-> TRUE]

\* dbus_unmarshal_body_begin: what the header says, clamped to the message.
BodyBegin(p) ==
  LET at == Align(FieldsEnd(p), 8)
      Clamp(n) == IF n > Len(p) THEN Len(p) ELSE n
  IN  [at |-> Clamp(at), end |-> Clamp(at + U32At(p, 4)), reads |-> {}, ok |-> TRUE]

\* dbus_unmarshal_next_u32, which next_bool and next_fd_index call.
NextU32(p, c) ==
  LET a == Align(c.at, 4) IN
  IF a + 4 > c.end THEN [c EXCEPT !.at = a, !.ok = FALSE]
  ELSE [c EXCEPT !.at = a + 4, !.reads = @ \cup (a .. a + 3)]

\* dbus_unmarshal_next_str: the caller reads the bytes it is pointed to.
NextStr(p, c) ==
  LET a   == Align(c.at, 4)
      nxt == a + 4 + U32At(p, a) + 1
  IN  IF a + 4 > c.end THEN [c EXCEPT !.at = a, !.ok = FALSE]
      ELSE IF nxt > c.end THEN [c EXCEPT !.at = a, !.ok = FALSE, !.reads = @ \cup (a .. a + 3)]
      ELSE [c EXCEPT !.at = nxt, !.reads = @ \cup (a .. a + 3) \cup (a .. nxt - 1)]

\* The bodies samvada reads: `s`, and `hb`, of whatever is there.
BodyReads(p) == NextStr(p, BodyBegin(p)).reads \cup NextU32(p, NextU32(p, BodyBegin(p))).reads

-----------------------------------------------------------------------------
(* What the D-Bus specification asks of a message's fields.                 *)

WellFormedFields(fields) ==
  /\ \A i \in DOMAIN fields :
       /\ fields[i].code # 0 /\ FieldType(fields[i].code) \in {0, fields[i].sig[1]}
       /\ fields[i].sig[1] \in {111, 115, 103} => 0 \notin ToSet(fields[i].val)
       /\ fields[i].sig[1] = 111 => PathOk(fields[i].val)
  /\ \A i, j \in DOMAIN fields :
       i # j => fields[i].code # fields[j].code \/ FieldType(fields[i].code) = 0

ValueAt(p, o, sig) ==
  CASE sig = <<117>> -> U32At(p, o) [] sig = <<103>> -> SigAt(p, o) [] OTHER -> StrAt(p, o)

(* What the readers are given: any bytes, and fields of any code, of the   *)
(* types above.                                                             *)
Sent ==
  [code : Byte, sig : { <<117>>, <<121>>, <<113>>, <<116>> }, val : Nat]
    \cup [code : Byte, sig : { <<115>>, <<111>>, <<103>> }, val : Seq(Nat)]

ASSUME WirePhrases ==
  /\ "wire" \in Readers => Phrases["wire"] \subseteq Seq(Byte)
  /\ "fields" \in Readers => Phrases["fields"] \subseteq Seq(Sent)

\* A message of raw bytes that claims n bytes of fields and too long a body.
Raw(n) == <<108, 2, 0, 1>> \o Int32(TRUE, Len(src) + 9) \o Int32(TRUE, 1) \o Int32(TRUE, n) \o src

Claims == { n \in {Len(src) - 8, Len(src) - 1, Len(src), Len(src) + 1, 999} : n >= 0 }

\* A field of each type, and (2) one that does not occur.
Sought == {1, 2, 5, 8}

(* Whatever bytes and lengths a message has, nothing beyond its end is read *)
(* of it; one that is accepted can be read to its last field; it is         *)
(* accepted exactly if its fields are as the specification asks, and each   *)
(* defined field is then found with the value it was sent with, whatever    *)
(* precedes it.                                                             *)
FieldsFound ==
  /\ reader = "wire" =>
       \A n \in Claims :
         LET p == Raw(n)
             v == Validate(p)
             f == [c \in Sought |-> FindField(p, c)]
         IN  /\ v.reads \cup BodyReads(p) \cup UNION { f[c].reads : c \in Sought } \subseteq 0 .. Len(p) - 1
             /\ v.ok => \A c \in Sought :
                  /\ f[c].off # -2
                  /\ f[c].off > 0 => IF FieldType(c) = 117 THEN f[c].off + 4 <= Len(p)
                                      ELSE ValueAt(p, f[c].off, <<FieldType(c)>>) # None
  /\ reader = "fields" =>
       LET body  == <<7, 0, 0, 0>>
           p     == Encoded([le |-> TRUE, type |-> 2, serial |-> 1, fields |-> src, body |-> body])
           b     == BodyBegin(p)
           off   == [c \in 1 .. 9 |-> FindField(p, c).off]
       IN  /\ Validate(p).ok <=> WellFormedFields(src)
           /\ WellFormedFields(src) =>
                /\ \A c \in 1 .. 9 : off[c] = -1 <=> \A i \in DOMAIN src : src[i].code # c
                /\ \A i \in DOMAIN src : FieldType(src[i].code) # 0 =>
                     ValueAt(p, off[src[i].code], src[i].sig) = src[i].val
           /\ b.at = Len(p) - Len(body) /\ b.end = Len(p)
=============================================================================

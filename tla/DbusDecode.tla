------------------------------ MODULE DbusDecode ------------------------------
(***************************************************************************)
(* tools/dbus_decode.py: decodes captured D-Bus messages by the            *)
(* specification, independently of samvada. A text is a sequence of        *)
(* messages; the capture holds their bytes one after the other, cut off    *)
(* anywhere. A byte is a number, an offset counts from 0.                  *)
(***************************************************************************)
EXTENDS Text

-----------------------------------------------------------------------------
(* The wire format of the D-Bus specification: what a message is encoded    *)
(* to. A message is [le, type, serial, fields, body]; a field is            *)
(* [code, sig, val], val being a number or a sequence of bytes.             *)

Byte == 0 .. 255
Zeros(n) == [i \in 1 .. n |-> 0]
Pad(n, a) == Zeros((-n) % a)

Int32(le, n) == IF le THEN <<n % 256, n \div 256, 0, 0>> ELSE <<0, 0, n \div 256, n % 256>>

Sig(f) == <<Len(f.sig)>> \o f.sig \o <<0>>

\* The value behind at bytes of the message.
Value(le, at, f) ==
  CASE f.sig = <<117>> -> Pad(at, 4) \o Int32(le, f.val)                        \* u
    [] f.sig \in {<<115>>, <<111>>} ->                                          \* s, o
         Pad(at, 4) \o Int32(le, Len(f.val)) \o f.val \o <<0>>
    [] f.sig = <<103>> -> <<Len(f.val)>> \o f.val \o <<0>>                      \* g
    [] f.sig = <<113>> -> Pad(at, 2) \o <<f.val, 0>>                            \* q
    [] f.sig = <<116>> -> Pad(at, 8) \o <<f.val>> \o Zeros(7)                   \* t
    [] OTHER -> <<f.val>>                                                       \* y

\* A field behind those that make up the bytes.
EncodedField(le, bytes, f) ==
  LET start == bytes \o Pad(16 + Len(bytes), 8) \o <<f.code>> \o Sig(f)
  IN  start \o Value(le, 16 + Len(start), f)

EncodedFields(m) ==
  LET upto[i \in 0 .. Len(m.fields)] ==
        IF i = 0 THEN <<>> ELSE EncodedField(m.le, upto[i - 1], m.fields[i])
  IN  upto[Len(m.fields)]

Encoded(m) ==
  LET fields == EncodedFields(m) IN
  <<IF m.le THEN 108 ELSE 66, m.type, 0, 1>> \o Int32(m.le, Len(m.body))
    \o Int32(m.le, m.serial) \o Int32(m.le, Len(fields))
    \o fields \o Pad(Len(fields), 8) \o m.body

Capture == FlattenSeq([i \in DOMAIN src |-> Encoded(src[i])])

-----------------------------------------------------------------------------
(* The decoder. Its reader is [o, base, le], or rather the next of them     *)
(* with the value that was read.                                            *)

Align(n, a) == n + ((-n) % a)

\* -1 past the end, where Python raises an exception.
At(b, o) == IF o < Len(b) THEN b[o + 1] ELSE -1
Slice(b, o, n) == SubSeq(b, o + 1, IF o + n > Len(b) THEN Len(b) ELSE o + n)

U8(b, r) == [r EXCEPT !.o = @ + 1, !.v = At(b, r.o)]

\* Mutant: alignment is relative to the buffer.
AlignedBuffer(r, a) == Align(r.o, a)

\* Alignment is relative to the start of the message.
Aligned(r, a) == r.base + Align(r.o - r.base, a)

U32(b, r) ==
  LET o == Aligned(r, 4)
      d(i) == At(b, o + i)
  IN  [r EXCEPT !.o = o + 4,
        !.v = IF r.le THEN d(0) + 256 * d(1) + 65536 * d(2) + 16777216 * d(3)
              ELSE d(3) + 256 * d(2) + 65536 * d(1) + 16777216 * d(0)]

Text8(b, r) == [r EXCEPT !.v = Slice(b, r.o, r.v), !.o = @ + r.v + 1]
ReadString(b, r) == Text8(b, U32(b, r))
ReadSignature(b, r) == Text8(b, U8(b, r))

\* One header field, from its struct's alignment on.
Field(b, r) ==
  LET code == U8(b, r)
      sig  == ReadSignature(b, code)
      val  == CASE sig.v = <<117>> -> U32(b, sig)
                [] sig.v \in {<<115>>, <<111>>} -> ReadString(b, sig)
                [] sig.v = <<103>> -> ReadSignature(b, sig)
                [] OTHER -> [sig EXCEPT !.v = "unhandled"]
  IN  [val EXCEPT !.v = [code |-> code.v, sig |-> sig.v, val |-> val.v]]

\* All of them, from r on.
Fields(b, r, fend) ==
  LET From[o \in r.o .. fend] ==
        LET at == Aligned([r EXCEPT !.o = o], 8)
            f  == Field(b, [r EXCEPT !.o = at])
        IN  IF at >= fend THEN <<>>
            ELSE <<f.v>> \o (IF f.o >= fend THEN <<>> ELSE From[f.o])
  IN  IF r.o >= fend THEN <<>> ELSE From[r.o]

\* decode_one: the message at off and where the next one begins, or what is
\* missing of it.
DecodeOne(b, off) ==
  LET here  == Len(b) - off
      le    == At(b, off) = 108
      r0    == [o |-> off + 1, base |-> off, le |-> le, v |-> 0]
      type  == U8(b, r0)
      proto == U8(b, U8(b, type))
      blen  == U32(b, proto)
      ser   == U32(b, blen)
      flen  == U32(b, ser)
      need  == Align(16 + flen.v, 8) + blen.v
      fend  == flen.o + flen.v
      body  == off + Align(fend - off, 8)
  IN  IF here < 16 THEN [next |-> Len(b), info |-> [incomplete |-> here, need |-> 16]]
      ELSE IF here < need THEN [next |-> Len(b), info |-> [incomplete |-> here, need |-> need]]
      ELSE [next |-> body + blen.v,
            info |-> [le |-> le, type |-> type.v, serial |-> ser.v,
                      fields |-> Fields(b, flen, fend),
                      body |-> Slice(b, body, blen.v), total |-> body + blen.v - off]]

DecodeStream(b) ==
  LET From[off \in 0 .. Len(b)] ==
        LET m == DecodeOne(b, off)
        IN  <<m.info>> \o (IF m.next >= Len(b) THEN <<>> ELSE From[m.next])
  IN  IF b = <<>> THEN <<>> ELSE From[0]

Incomplete(m) == "incomplete" \in DOMAIN m

\* main's verdict on a file.
Verdict(b) ==
  LET msgs == DecodeStream(b)
      consumed == FoldLeft(LAMBDA n, m : IF Incomplete(m) THEN n ELSE n + m.total, 0, msgs)
  IN  CASE b # <<>> /\ At(b, 0) = 0 -> "text"
        [] msgs = <<>> -> "nothing"
        [] consumed # Len(b) /\ ~\E i \in DOMAIN msgs : Incomplete(msgs[i]) -> "slack"
        [] OTHER -> "messages"

-----------------------------------------------------------------------------
EndOf(k) == Len(FlattenSeq([i \in 1 .. k |-> Encoded(src[i])]))

\* What the decoder should say of a message: a field it cannot read is named.
Known(f) == f.sig \in {<<117>>, <<115>>, <<111>>, <<103>>}
Info(m) ==
  [le |-> m.le, type |-> m.type, serial |-> m.serial, body |-> m.body,
   fields |-> [i \in DOMAIN m.fields |->
                 IF Known(m.fields[i]) THEN m.fields[i] ELSE [m.fields[i] EXCEPT !.val = "unhandled"]],
   total |-> Len(Encoded(m))]

(* Wherever a capture of well-formed messages is cut off, the decoder says  *)
(* what the whole messages in it say, in order, at whatever offset they     *)
(* start, and then how much of the next one is there and how much it needs. *)
DecodesCapture ==
  reader = "decode" =>
    \A n \in 1 .. Len(Capture) :
      LET b     == SubSeq(Capture, 1, n)
          whole == Cardinality({ k \in DOMAIN src : EndOf(k) <= n })
          here  == n - EndOf(whole)
          tail  == IF here = 0 THEN <<>>
                   ELSE <<[incomplete |-> here,
                           need |-> IF here < 16 THEN 16 ELSE Len(Encoded(src[whole + 1]))]>>
      IN  /\ DecodeStream(b) = [k \in 1 .. whole |-> Info(src[k])] \o tail
          /\ Verdict(b) = "messages"
=============================================================================

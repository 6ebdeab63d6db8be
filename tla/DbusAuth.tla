------------------------------- MODULE DbusAuth -------------------------------
(***************************************************************************)
(* The SASL handshake (src/dbus_auth.cyr, dbus_session_sasl): lines are    *)
(* read from the framer's buffer as they arrive, until the server agrees   *)
(* to pass descriptors. What it sends is cut into receives anywhere.       *)
(*                                                                         *)
(* A token stands for the start of a line ("OK" for `OK `), for a GUID, or *)
(* for one character; after "close" the server is gone and samvada         *)
(* connects again. A signal, which makes the loop go round, and the        *)
(* deadline, after which no more is read, are those of DbusSession.        *)
(***************************************************************************)
EXTENDS Text

CONSTANT BufCap   \* dbus_frame_cap

ASSUME BufCapConstant == BufCap \in Nat \ {0}

\* What has been received and not consumed, how much was consumed, whether
\* `OK` was seen, and what became of the exchange.
Auth0 == [have |-> <<>>, used |-> 0, ok |-> FALSE, st |-> "more"]

\* dbus_frame_init and dbus_auth_reset, before every connect.
Reset(a) == Auth0

\* dbus_auth_find_crlf; 0 for none.
FindCrlf(p) ==
  LET E == { k \in 1 .. Len(p) - 1 : p[k] = CR /\ p[k + 1] = LF }
  IN  IF E = {} THEN 0 ELSE Min(E)

\* dbus_auth_line_kind
LineKind(line) ==
  IF line = <<>> THEN "other"
  ELSE IF Head(line) # "OK" THEN Head(line)
  ELSE IF line = <<"OK", "guid">> THEN "OK" ELSE "ERROR"

\* Mutant: AGREE_UNIX_FD is success whatever went before, as until 1.1.2.
AgreedAlone(a) == [a EXCEPT !.st = "agreed"]

\* AGREE_UNIX_FD counts only after `OK`.
Agreed(a) == [a EXCEPT !.st = IF a.ok THEN "agreed" ELSE "refused"]

\* dbus_auth_drain_lines
RECURSIVE DrainLines(_)
DrainLines(a) ==
  LET at   == FindCrlf(a.have)
      kind == LineKind(SubSeq(a.have, 1, at - 1))
      b    == [a EXCEPT !.have = SubSeq(@, at + 2, Len(@)), !.used = @ + at + 1]
  IN  IF at = 0 THEN a
      ELSE IF kind \in {"REJECTED", "ERROR"} THEN [b EXCEPT !.st = "refused"]
      ELSE IF kind = "AGREE" THEN Agreed(b)
      ELSE DrainLines([b EXCEPT !.ok = @ \/ kind = "OK"])

\* dbus_session_sasl: s is what the server sends, cuts where a receive ends
\* early. What is consumed stays in the buffer: there is no compaction here.
RECURSIVE Sasl(_, _, _)
Sasl(s, cuts, a) ==
  LET k     == a.used + Len(a.have)
      space == BufCap - k
      n     == Min({space, Len(s) - k} \cup { c - k : c \in { x \in cuts : x > k } })
      b     == DrainLines([a EXCEPT !.have = @ \o SubSeq(s, k + 1, k + n)])
  IN  IF a.st # "more" \/ (k = Len(s) /\ space > 0) THEN a
      ELSE IF space <= 0 THEN [a EXCEPT !.st = "full"]
      ELSE Sasl(s, cuts, b)

\* dbus_native_open_system_bus, once for every connection.
Connections(s) ==
  LET ends == SelectSeq([i \in 1 .. Len(s) + 1 |-> i], LAMBDA i : i = Len(s) + 1 \/ s[i] = "close")
  IN  [c \in DOMAIN ends |-> SubSeq(s, IF c = 1 THEN 1 ELSE ends[c - 1] + 1, ends[c] - 1)]

Handshakes(s, cuts) ==
  LET conns == Connections(s)
      Connect(as, c) ==
        Append(as, Sasl(c, cuts, Reset(IF as = <<>> THEN Auth0 ELSE as[Len(as)])))
  IN  FoldLeft(Connect, <<>>, conns)

-----------------------------------------------------------------------------
(* What a server says, by the D-Bus specification: its lines, as <<first    *)
(* token, the CR>>, of which the first that is neither data nor a proper    *)
(* `OK` decides, if the buffer holds it.                                    *)
ServerLines(t) ==
  LET ends == { k \in 1 .. Len(t) - 1 : t[k] = CR /\ t[k + 1] = LF }
  IN  { l \in ({1} \cup { k + 2 : k \in ends }) \X ends :
          l[1] <= l[2] /\ ends \cap (l[1] .. l[2] - 1) = {} }

Accepts(t, l) == SubSeq(t, l[1], l[2] - 1) = <<"OK", "guid">>

Decides(t, l) ==
  t[l[1]] \in {"REJECTED", "ERROR", "AGREE"} \/ (t[l[1]] = "OK" /\ ~Accepts(t, l))

\* Cut in one place, around one token, or everywhere.
Cuts(n) == { {i, i + k} : i \in 1 .. n, k \in {0, 1} } \cup {1 .. n}

(* However what the server sends is cut into receives, the handshake comes  *)
(* to what the server said on this connection: it succeeds only on an       *)
(* AGREE_UNIX_FD after a proper `OK`, and the framer then finds the binary  *)
(* stream at its first byte, whatever of it has already arrived.            *)
SaslAsSent ==
  reader = "sasl" =>
    \A c \in DOMAIN Connections(src) :
      LET t       == Connections(src)[c]
          decides == { l \in ServerLines(t) : Decides(t, l) /\ l[2] < BufCap }
          first   == { l \in decides : \A m \in decides : l[1] <= m[1] }
          said(l) == t[l[1]] = "AGREE" /\ \E m \in ServerLines(t) : m[1] < l[1] /\ Accepts(t, m)
          st      == IF first = {} THEN IF Len(t) < BufCap THEN "more" ELSE "full"
                     ELSE IF \E l \in first : said(l) THEN "agreed" ELSE "refused"
      IN  \A cuts \in Cuts(Len(src)) :
            LET r == Handshakes(src, cuts)[c] IN
            /\ r.st = st
            /\ \A l \in first : r.used = l[2] + 1 /\ IsPrefix(r.have, SubSeq(t, r.used + 1, Len(t)))
=============================================================================

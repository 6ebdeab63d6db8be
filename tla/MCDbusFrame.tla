----------------------------- MODULE MCDbusFrame -----------------------------
(* DbusFrame with a two-byte header and a four-byte buffer.                 *)
EXTENDS DbusFrame, TLC

Message(l, f, b) == [len |-> l, fds |-> f, ok |-> b]

\* Empty, short and buffer-sized messages with and without descriptors (one
\* more than the queue holds), two over-cap ones, a header that cannot be
\* read and one that declares too much.
MCMessages ==
  { Message(l, f, TRUE) : l \in 2 .. 4, f \in {0, 2} }
    \cup { Message(l, f, TRUE) : l \in {5, 7}, f \in {0, 1} }
    \cup { Message(2, 1, FALSE), Message(9, 0, TRUE) }

RECURSIVE Bounds(_, _)
Bounds(start, ms) ==
  IF ms = <<>> THEN <<start>>
  ELSE <<start>> \o Bounds(start + Head(ms).len, Tail(ms))

MCStream(sasl, ms) ==
  [bound |-> Bounds(sasl, ms),
   fds   |-> [k \in 1 .. Len(ms) |-> ms[k].fds],
   ok    |-> [k \in 1 .. Len(ms) |-> ms[k].ok]]

MCStreams  == { MCStream(3, ms) : ms \in [1 .. 3 -> MCMessages] }

\* Two messages behind SASL lines that fill the buffer.
MCStreams2 == { MCStream(4, ms) : ms \in [1 .. 2 -> MCMessages] }

MCStreams3 == MCStreams \cup MCStreams2
=============================================================================

---------------------------- MODULE MessageStream ----------------------------
(***************************************************************************)
(* What the framer promises its callers: the messages of a connection, one *)
(* at a time, in order, each whole and exactly once. Only a message larger *)
(* than the buffer is left out. A descriptor is handed out only from the   *)
(* message that is being looked at, and only one it carried.               *)
(***************************************************************************)
EXTENDS Integers, Sequences

CONSTANTS Streams, Cap, MsgMax

VARIABLES up, wire, head, yielded, given

streamVars == <<up, wire, head, yielded, given>>

NoStream == [bound |-> <<0>>, fds |-> <<>>, ok |-> <<>>]

Size(k) == wire.bound[k + 1] - wire.bound[k]
Fits(k) == k <= Len(wire.fds) /\ wire.ok[k] /\ Size(k) <= Cap
Over(k) == k <= Len(wire.fds) /\ wire.ok[k] /\ Cap < Size(k) /\ Size(k) < MsgMax

Init == ~up /\ wire = NoStream /\ head = 1 /\ yielded = FALSE /\ given = {}

Connect ==
  /\ ~up /\ up' = TRUE
  /\ wire' \in Streams
  /\ UNCHANGED <<head, yielded, given>>

Yield ==
  /\ up /\ ~yielded /\ Fits(head)
  /\ yielded' = TRUE
  /\ UNCHANGED <<up, wire, head, given>>

HandOut ==
  /\ yielded
  /\ \E n \in 1 .. wire.fds[head] : given' = given \cup {<<head, n>>}
  /\ UNCHANGED <<up, wire, head, yielded>>

Consume ==
  /\ yielded /\ yielded' = FALSE
  /\ head' = head + 1
  /\ UNCHANGED <<up, wire, given>>

Discard ==
  /\ up /\ ~yielded /\ Over(head)
  /\ head' = head + 1
  /\ UNCHANGED <<up, wire, yielded, given>>

Disconnect ==
  /\ up /\ ~yielded /\ up' = FALSE
  /\ wire' = NoStream /\ head' = 1 /\ given' = {}
  /\ UNCHANGED yielded

Next ==
  \/ Connect \/ Yield \/ HandOut \/ Consume \/ Discard \/ Disconnect

Spec == Init /\ [][Next]_streamVars
=============================================================================

------------------------------- MODULE DbusTap -------------------------------
(***************************************************************************)
(* tools/dbus_tap.py: a relay between D-Bus clients and the bus that       *)
(* records every byte in both directions. One thread, one selector loop,   *)
(* blocking sockets.                                                       *)
(*                                                                         *)
(* An end is a process the relay talks to: the client or the bus of one    *)
(* connection. A byte is represented by its position in what its writer    *)
(* wrote, a descriptor by the byte it was attached to and a number. A      *)
(* queue in the kernel is a sequence of writes (skb), each with the        *)
(* descriptors that were attached to its first byte.                       *)
(***************************************************************************)
EXTENDS Integers, Sequences, FiniteSets, SequencesExt

CONSTANTS
  Conns,     \* the clients that connect, each once
  Plans,     \* who takes part and how many bytes each end writes at most
  Room,      \* bytes the kernel queues for one receiver
  RecvMax,   \* the size recvmsg asks for; 65536 in the code
  MaxFds     \* MAX_FDS, the kernel's own limit on one write; 253

Ends == Conns \X {"client", "bus"}

ASSUME TapConstants ==
  /\ \A p \in Plans : DOMAIN p \subseteq Ends /\ \A e \in DOMAIN p : p[e] \in Nat
  /\ {Room, RecvMax} \subseteq Nat \ {0} /\ MaxFds \in Nat

VARIABLES
  limit,     \* the plan that is carried out
  running,   \* no KeyboardInterrupt yet
  batch,     \* what sel.select returned and the loop has not handled
  pc,        \* "loop", "got" (after recvmsg) or "send" (recorded)
  cur,       \* the end the data in hand came from
  hand,      \* data: received and not sent on
  anc,       \* the descriptors of ancdata
  fresh,     \* nothing of the data in hand has been sent
  open,      \* received descriptors the relay has open
  status,    \* "new", "pending" (in the backlog), "open" (a key of conns) or "closed"
  alive,     \* the ends whose own socket is open
  wrote,     \* how many bytes an end has written
  attached,  \* the descriptors it attached to them
  in,        \* from an end to the relay
  out,       \* from the relay to an end
  got,       \* the bytes an end has read
  gotfds,    \* the descriptors it has got, each with the byte it came with
  cap,       \* the chunks of the capture of what an end wrote
  warned     \* the captures that say descriptors were dropped

tapvars  == <<limit, running, batch, pc, cur, hand, anc, fresh, open>>
peervars == <<alive, wrote, attached, got, gotfds>>
vars == <<tapvars, status, peervars, in, out, cap, warned>>

Other(e)  == IF e[2] = "client" THEN <<e[1], "bus">> ELSE <<e[1], "client">>
Bytes(q)  == FlattenSeq([i \in DOMAIN q |-> q[i].bytes])
Fds(q)    == FlattenSeq([i \in DOMAIN q |-> q[i].fds])
Free(q)   == Room - Len(Bytes(q))
Live(e)   == status[e[1]] = "open"
Smaller(a, b) == IF a < b THEN a ELSE b

Init ==
  /\ limit \in Plans
  /\ running = TRUE /\ batch = {} /\ pc = "loop" /\ cur = (CHOOSE e \in Ends : TRUE)
  /\ hand = <<>> /\ anc = <<>> /\ fresh = TRUE /\ open = {}
  /\ status = [c \in Conns |-> "new"]
  /\ alive = {}
  /\ wrote = [e \in Ends |-> 0] /\ attached = [e \in Ends |-> {}]
  /\ in = [e \in Ends |-> <<>>] /\ out = [e \in Ends |-> <<>>]
  /\ got = [e \in Ends |-> <<>>] /\ gotfds = [e \in Ends |-> {}]
  /\ cap = [e \in Ends |-> <<>>] /\ warned = {}

-----------------------------------------------------------------------------
(* The clients and the bus. A client may write before it is accepted.       *)

Connect(c) ==
  /\ running /\ status[c] = "new" /\ <<c, "client">> \in DOMAIN limit
  /\ status' = [status EXCEPT ![c] = "pending"]
  /\ alive' = alive \cup {<<c, "client">>}
  /\ UNCHANGED <<tapvars, wrote, attached, got, gotfds, in, out, cap, warned>>

Write(e, n, k) ==
  /\ e \in alive /\ status[e[1]] \in {"pending", "open"}
  /\ wrote[e] + n <= limit[e] /\ n <= Free(in[e])
  /\ wrote' = [wrote EXCEPT ![e] = @ + n]
  /\ attached' = [attached EXCEPT ![e] = @ \cup { <<wrote[e] + 1, i>> : i \in 1 .. k }]
  /\ in' = [in EXCEPT ![e] = Append(@,
       [bytes |-> [i \in 1 .. n |-> wrote[e] + i],
        fds   |-> [i \in 1 .. k |-> <<wrote[e] + 1, i>>]])]
  /\ UNCHANGED <<tapvars, status, alive, got, gotfds, out, cap, warned>>

Read(e) ==
  /\ e \in alive /\ out[e] # <<>>
  /\ LET w == Head(out[e]) IN
     /\ got' = [got EXCEPT ![e] = @ \o w.bytes]
     /\ gotfds' = [gotfds EXCEPT ![e] = @ \cup
          { [fd |-> w.fds[i], with |-> w.bytes[1]] : i \in DOMAIN w.fds }]
  /\ out' = [out EXCEPT ![e] = Tail(@)]
  /\ UNCHANGED <<tapvars, status, alive, wrote, attached, in, cap, warned>>

Close(e) ==
  /\ e \in alive
  /\ alive' = alive \ {e}
  /\ out' = [out EXCEPT ![e] = <<>>]
  /\ UNCHANGED <<tapvars, status, wrote, attached, got, gotfds, in, cap, warned>>

-----------------------------------------------------------------------------
(* The relay's loop.                                                        *)

\* Mutant: the bus's socket is not registered with the selector.
ReadableClient(e) == e[2] = "client" /\ Live(e) /\ (in[e] # <<>> \/ e \notin alive)

\* A socket is readable when bytes wait in it or its peer is gone.
Readable(e) == Live(e) /\ (in[e] # <<>> \/ e \notin alive)

Ready == { e \in Ends : Readable(e) }
           \cup { <<c, "accept">> : c \in { d \in Conns : status[d] = "pending" } }

\* One event of the listening socket stands for one client of the backlog.
Select ==
  /\ running /\ pc = "loop" /\ batch = {} /\ Ready # {}
  /\ batch' = Ready
  /\ UNCHANGED <<limit, running, pc, cur, hand, anc, fresh, open, status, peervars, in, out, cap, warned>>

\* The pair of a connection leaves conns and both its sockets are closed.
\* What was sent to the far ends stays readable there.
Hangup(c) ==
  /\ status' = [status EXCEPT ![c] = "closed"]
  /\ in' = [e \in Ends |-> IF e[1] = c THEN <<>> ELSE in[e]]

Accept(c) ==
  /\ running /\ pc = "loop" /\ <<c, "accept">> \in batch
  /\ batch' = batch \ {<<c, "accept">>}
  /\ \/ /\ status' = [status EXCEPT ![c] = "open"]
        /\ alive' = alive \cup {<<c, "bus">>}
        /\ UNCHANGED in
     \/ Hangup(c) /\ UNCHANGED alive      \* upstream connect failed: cli.close()
  /\ UNCHANGED <<limit, running, pc, cur, hand, anc, fresh, open, wrote, attached, got, gotfds, out, cap, warned>>

\* An event of a connection that an earlier event of the batch closed.
Stale(e) ==
  /\ running /\ pc = "loop" /\ e \in batch /\ e \in Ends
  /\ ~Live(e)
  /\ batch' = batch \ {e}
  /\ UNCHANGED <<limit, running, pc, cur, hand, anc, fresh, open, status, peervars, in, out, cap, warned>>

\* How many writes one recvmsg gathers: it goes on to the next write until
\* it has RecvMax bytes, and stops after a write that carries descriptors.
Gathered(q) ==
  CHOOSE n \in DOMAIN q :
    /\ \A i \in 1 .. n - 1 : q[i].fds = <<>> /\ Len(Bytes(SubSeq(q, 1, i))) < RecvMax
    /\ n = Len(q) \/ q[n].fds # <<>> \/ Len(Bytes(SubSeq(q, 1, n))) >= RecvMax

\* Mutant: recvmsg's flags are ignored, as they were before 1.1.2.
WarnedNever(e, k, n) == warned

\* The captures with a warning once k of n descriptors were received.
Warned(e, k, n) == IF k < n THEN warned \cup {e} ELSE warned

\* recvmsg on a socket with bytes. The kernel installs as many descriptors
\* as the buffer and the process's descriptor table take, closes the rest
\* and sets MSG_CTRUNC, which the relay reports in the capture.
RecvMsg(e) ==
  /\ running /\ pc = "loop" /\ e \in batch /\ e \in Ends
  /\ Live(e) /\ in[e] # <<>>
  /\ batch' = batch \ {e}
  /\ LET n    == Gathered(in[e])
         took == Bytes(SubSeq(in[e], 1, n))
         rest == SubSeq(took, RecvMax + 1, Len(took))
         fds  == Fds(SubSeq(in[e], 1, n))
     IN  /\ hand' = SubSeq(took, 1, Smaller(RecvMax, Len(took)))
         /\ in' = [in EXCEPT ![e] =
              (IF rest = <<>> THEN <<>> ELSE <<[bytes |-> rest, fds |-> <<>>]>>)
                \o SubSeq(@, n + 1, Len(@))]
         /\ \E k \in 0 .. Smaller(Len(fds), MaxFds) :
              /\ anc' = SubSeq(fds, 1, k)
              /\ open' = open \cup ToSet(anc')
              /\ warned' = Warned(e, k, Len(fds))
  /\ cur' = e /\ pc' = "got" /\ fresh' = TRUE
  /\ UNCHANGED <<limit, running, status, peervars, out, cap>>

\* Mutant: a pair is closed as soon as one end is gone.
EndedEager(e) == e \notin alive

Ended(e) == in[e] = <<>> /\ e \notin alive

\* recvmsg returned no data: end of file, or an error read as one.
Eof(e) ==
  /\ running /\ pc = "loop" /\ e \in batch /\ e \in Ends
  /\ Live(e) /\ Ended(e)
  /\ batch' = batch \ {e}
  /\ Hangup(e[1])
  /\ UNCHANGED <<limit, running, pc, cur, hand, anc, fresh, open, peervars, out, cap, warned>>

\* Mutant: the capture is opened afresh for every chunk.
RecordedLast == [cap EXCEPT ![cur] = <<hand>>]

\* Capture.write appends to the file.
Recorded == [cap EXCEPT ![cur] = Append(@, hand)]

CaptureWrite ==
  /\ running /\ pc = "got"
  /\ cap' = Recorded
  /\ pc' = "send"
  /\ UNCHANGED <<limit, running, batch, cur, hand, anc, fresh, open, status, peervars, in, out, warned>>

\* Mutant: the copies stay open, as they did before 1.1.2.
DoneKeeps == pc' = "loop" /\ open' = open /\ anc' = <<>>

\* The call returned; the relay's own copies of ancdata are closed.
Done == pc' = "loop" /\ open' = open \ ToSet(anc) /\ anc' = <<>>

\* sendmsg or sendall: a blocking write, cut into what the receiver's queue
\* takes. The descriptors go with its first byte.
Send ==
  /\ running /\ pc = "send" /\ Other(cur) \in alive
  /\ LET to == Other(cur)
         n  == Smaller(Free(out[to]), Len(hand))
     IN  /\ n > 0
         /\ out' = [out EXCEPT ![to] = Append(@,
              [bytes |-> SubSeq(hand, 1, n), fds |-> IF fresh THEN anc ELSE <<>>])]
         /\ hand' = SubSeq(hand, n + 1, Len(hand))
         /\ IF n = Len(hand) THEN Done ELSE UNCHANGED <<pc, anc, open>>
  /\ fresh' = FALSE
  /\ UNCHANGED <<limit, running, batch, cur, status, peervars, in, cap, warned>>

\* The receiver is gone: OSError, swallowed. Its own event ends the pair.
SendFails ==
  /\ running /\ pc = "send" /\ Other(cur) \notin alive
  /\ hand' = <<>> /\ Done
  /\ UNCHANGED <<limit, running, batch, cur, fresh, status, peervars, in, out, cap, warned>>

\* KeyboardInterrupt: the listening path is removed and the process ends,
\* which closes whatever it has open.
Interrupt ==
  /\ running
  /\ running' = FALSE /\ batch' = {} /\ pc' = "loop"
  /\ hand' = <<>> /\ anc' = <<>> /\ open' = {} /\ UNCHANGED <<limit, cur, fresh>>
  /\ status' = [c \in Conns |-> IF status[c] = "new" THEN "new" ELSE "closed"]
  /\ in' = [e \in Ends |-> <<>>]
  /\ UNCHANGED <<peervars, out, cap, warned>>

Relay ==
  \/ Select \/ CaptureWrite \/ Send \/ SendFails
  \/ \E c \in Conns : Accept(c)
  \/ \E e \in Ends : Stale(e) \/ RecvMsg(e) \/ Eof(e)

Peers ==
  \/ \E c \in Conns : Connect(c)
  \/ \E e \in Ends : Read(e) \/ Close(e)
  \/ \E e \in DOMAIN limit : \E n \in 1 .. limit[e], k \in 0 .. MaxFds : Write(e, n, k)

Next == Relay \/ Peers \/ Interrupt

Spec == Init /\ [][Next]_vars

(* The loop runs whenever it can, and the clients and the bus go on reading *)
(* what arrives.                                                            *)
FairSpec ==
  /\ Spec /\ WF_vars(Relay)
  /\ \A e \in Ends : WF_vars(Read(e))

-----------------------------------------------------------------------------
Written(e) == [i \in 1 .. wrote[e] |-> i]
Arrived(e) == got[Other(e)] \o Bytes(out[Other(e)])
InHand(e)  == IF pc # "loop" /\ cur = e THEN hand ELSE <<>>

(* The relay is transparent: what arrives is a prefix, in order, of what    *)
(* was written, and while the receiver has its socket open nothing is       *)
(* missing, also after the relay closed the pair because the writer did.    *)
Transparent ==
  \A e \in Ends :
    /\ IsPrefix(Arrived(e), Written(e))
    /\ running /\ Other(e) \in alive
         => Arrived(e) \o InHand(e) \o Bytes(in[e]) = Written(e)

(* The capture holds everything that was sent on, in order, before it is    *)
(* sent (cap.write ahead of sendall), so it does after Ctrl-C too.          *)
RecordedFirst ==
  \A e \in Ends :
    /\ IsPrefix(Arrived(e), FlattenSeq(cap[e]))
    /\ IsPrefix(FlattenSeq(cap[e]), Written(e))

(* A descriptor that was attached to a byte that has arrived has arrived    *)
(* with it or before it, or the capture says that some were dropped.        *)
NoSilentLoss ==
  \A e \in Ends : \A f \in attached[e] :
    Other(e) \in alive /\ e \notin warned /\ f[1] \in ToSet(Arrived(e))
    => \/ \E r \in gotfds[Other(e)] : r.fd = f
       \/ f \in ToSet(Fds(out[Other(e)]))

(* Between two events the relay holds no descriptor it received.            *)
NoLeak == pc = "loop" => open = {}

(* In the end (every end writes a bounded number of bytes) all that was     *)
(* written has been read by the other end, unless that closed or the relay  *)
(* was stopped, and a pair of which one end closed has been taken down.     *)
Delivered(e) ==
  \/ Len(got[Other(e)]) = wrote[e]
  \/ Other(e) \notin alive /\ status[e[1]] # "pending"
Served ==
  <>[](running => \A e \in Ends : Delivered(e) /\ (Live(e) => e \in alive))
=============================================================================

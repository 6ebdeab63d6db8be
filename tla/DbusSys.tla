-------------------------------- MODULE DbusSys --------------------------------
(***************************************************************************)
(* Collecting the descriptors of one receive (src/dbus_sys.cyr,            *)
(* dbus_sys_parse_rights): a walk over the control messages that the       *)
(* kernel put beside the bytes.                                            *)
(*                                                                         *)
(* The control buffer is a sequence of 32-bit words, an offset in it       *)
(* counts bytes from 0. A control message is its length, a u64 in two      *)
(* words, its level and type, and its data.                                *)
(***************************************************************************)
EXTENDS Text

CONSTANT FdMax   \* dbus_sys_fd_max

ASSUME FdMaxConstant == FdMax \in Nat

SolSocket == 1
ScmRights == 1
ScmPidfd == 4
CmsgHdr == 16

\* A word of the buffer; 0 past its end.
Word(ctrl, o) == IF o \div 4 < Len(ctrl) THEN ctrl[o \div 4 + 1] ELSE 0

\* A u64 below 2^31, one that is larger, and one that is negative as an i64.
Length64(lo, hi) == IF hi = 0 THEN lo ELSE IF hi > 0 THEN 2147483647 ELSE -1

\* Mutant: what cannot be held is dropped.
RxAddDrops(w, fd) == IF Len(w.rx) >= FdMax THEN w ELSE [w EXCEPT !.rx = Append(@, fd)]

\* _dbus_rx_add: what cannot be held is closed.
RxAdd(w, fd) ==
  IF Len(w.rx) >= FdMax THEN [w EXCEPT !.closed = Append(@, fd)]
  ELSE [w EXCEPT !.rx = Append(@, fd)]

\* One word of a control message's data.
TakeFd(w, ctrl, pid, off) ==
  LET x == Word(ctrl, off)
      u == [w EXCEPT !.reads = @ \cup (off .. off + 3)]
  IN  IF x < 0 THEN u ELSE IF pid THEN [u EXCEPT !.closed = Append(@, x)] ELSE RxAdd(u, x)

\* All n of them, from off on.
Collect(w, ctrl, pid, off, n) ==
  LET after[k \in 0 .. n] ==
        IF k = 0 THEN w ELSE TakeFd(after[k - 1], ctrl, pid, off + 4 * (k - 1))
  IN  after[n]

\* dbus_sys_parse_rights: one turn of its loop, with the control message at w.at.
ParseRights(ctrl, ctrllen, w) ==
  LET at    == w.at
      room  == ctrllen - at
      clen  == Length64(Word(ctrl, at), Word(ctrl, at + 4))
      type  == Word(ctrl, at + 12)
      w8    == [w EXCEPT !.reads = @ \cup (at .. at + 7)]
      hdr   == [w EXCEPT !.reads = @ \cup (at .. at + 15)]
      found == IF Word(ctrl, at + 8) = SolSocket /\ type \in {ScmRights, ScmPidfd}
               THEN Collect(hdr, ctrl, type = ScmPidfd, at + CmsgHdr, (clen - CmsgHdr) \div 4)
               ELSE hdr
  IN  IF ~w.more THEN w
      ELSE IF room < CmsgHdr THEN [w EXCEPT !.more = FALSE]
      ELSE IF clen < CmsgHdr \/ clen > room THEN [w8 EXCEPT !.more = FALSE]
      ELSE [found EXCEPT !.at = at + ((clen + 7) \div 8) * 8]

Rx0 == [rx |-> <<>>, closed |-> <<>>, reads |-> {}, at |-> 0, more |-> TRUE]

\* The loop, as many turns as a buffer of this length can take.
Rights(ctrl, ctrllen) ==
  LET after[k \in 0 .. ctrllen \div CmsgHdr + 1] ==
        IF k = 0 THEN Rx0 ELSE ParseRights(ctrl, ctrllen, after[k - 1])
  IN  after[ctrllen \div CmsgHdr + 1]

-----------------------------------------------------------------------------
(* What the kernel writes: control messages [level, type, n] with n words   *)
(* of data, descriptors no two of which are the same, each padded to eight  *)
(* bytes, the last one perhaps not.                                         *)

ScmMaxFd == 253   \* the most that one write carries

ASSUME CtrlPhrases ==
  /\ "ctrl" \in Readers => Phrases["ctrl"] \subseteq Seq(Int)
  /\ "cmsgs" \in Readers =>
       Phrases["cmsgs"] \subseteq Seq([level : Nat, type : Nat, n : 0 .. ScmMaxFd])

Fds(i) == [k \in 1 .. src[i].n |-> ScmMaxFd * i + k]

Cmsg(i) ==
  <<CmsgHdr + 4 * src[i].n, 0, src[i].level, src[i].type>> \o Fds(i)
    \o (IF src[i].n % 2 = 1 THEN <<0>> ELSE <<>>)

Control == FlattenSeq([i \in DOMAIN src |-> Cmsg(i)])

\* How much of the buffer the kernel may say it filled.
Filled == { 4 * Len(Control) }
            \cup (IF src # <<>> /\ Last(src).n % 2 = 1 THEN { 4 * Len(Control) - 4 } ELSE {})

FdsOf(types) ==
  FlattenSeq([i \in DOMAIN src |->
    IF src[i].level = SolSocket /\ src[i].type \in types THEN Fds(i) ELSE <<>>])

(* Whatever lengths the control messages claim, the walk ends and nothing  *)
(* beyond what the kernel filled is read; of what a kernel writes, every    *)
(* descriptor that was passed is held, in order, or closed when there is no *)
(* room for it, and the other descriptors are closed, each once: wherever   *)
(* in the buffer they are and whatever precedes them.                       *)
RightsCollected ==
  /\ reader = "ctrl" =>
       \A cut \in 0 .. 8 : cut <= 4 * Len(src) =>
         LET r == Rights(src, 4 * Len(src) - cut)
         IN  r.reads \subseteq 0 .. 4 * Len(src) - cut - 1 /\ ~r.more
  /\ reader = "cmsgs" =>
       \A n \in Filled :
         LET r      == Rights(Control, n)
             passed == FdsOf({ScmRights})
             held   == SubSeq(passed, 1, IF Len(passed) > FdMax THEN FdMax ELSE Len(passed))
         IN  /\ ~r.more
             /\ r.rx = held
             /\ Len(r.closed) = Len(FdsOf({ScmRights, ScmPidfd})) - Len(held)
             /\ ToSet(r.closed) = ToSet(FdsOf({ScmRights, ScmPidfd})) \ ToSet(held)
=============================================================================

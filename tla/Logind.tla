------------------------------- MODULE Logind -------------------------------
(***************************************************************************)
(* systemd-logind as samvada sees it: how one D-Bus request on the         *)
(* caller's session object changes logind's state and what it answers.     *)
(* This code is not part of the repository (external); the behaviour is    *)
(* the one samvada.cyr and dbus_session.cyr rely on and quote:             *)
(*   - TakeControl mutes the VT and answers success again to the present   *)
(*     controller; ReleaseControl restores the VT and revokes every device *)
(*   - every device request needs control (NotInControl), TakeDevice       *)
(*     refuses a device already taken (DeviceIsTaken), ReleaseDevice one   *)
(*     that is not (DeviceNotTaken); all three are -EINVAL to samvada      *)
(*   - logind tracks its controller's bus name: when the connection goes,  *)
(*     control and devices are dropped.                                    *)
(***************************************************************************)
EXTENDS Integers

\* What a session object keeps for the caller: whether the caller is its
\* controller (the VT is then muted) and the devices granted to it.
SessionState(Device) == [controller : BOOLEAN, granted : SUBSET Device]

\* Nothing granted, VT in text mode.
Released == [controller |-> FALSE, granted |-> {}]

\* The ways logind may handle request q in state s: [reply, next].
\* Any request may be refused without effect (AccessDenied, another
\* controller, an I/O error: "EIO" stands for all of them).
Outcomes(q, s, present) ==
  LET refused(e) == [reply |-> e, next |-> s]
      done(t)    == [reply |-> "ok", next |-> t]
      mustControl(o) == IF s.controller THEN o ELSE refused("EINVAL")
  IN CASE q.op = "gone" ->
            { [reply |-> "none", next |-> Released] }
       [] q.op = "get_session_path" ->
            { refused("EIO"), done(s) }
       [] q.op = "take_control" ->
            { refused("EIO"), done([s EXCEPT !.controller = TRUE]) }
       [] q.op = "release_control" ->
            { refused("EIO"), mustControl(done(Released)) }
       [] q.op = "take_device" ->
            { refused("EIO"),
              mustControl(IF q.dev \in s.granted THEN refused("EINVAL")
                          ELSE IF q.dev \notin present THEN refused("EIO")
                          ELSE done([s EXCEPT !.granted = @ \cup {q.dev}])) }
       [] q.op = "release_device" ->
            { refused("EIO"),
              mustControl(IF q.dev \notin s.granted THEN refused("EINVAL")
                          ELSE done([s EXCEPT !.granted = @ \ {q.dev}])) }
=============================================================================

---------------------------- MODULE MCDbusSession ----------------------------
(* DbusSession with two serials, so that they come round again at once.     *)
EXTENDS DbusSession, TLC
=============================================================================

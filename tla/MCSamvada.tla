----------------------------- MODULE MCSamvada ------------------------------
(* Samvada on a seat with one-bit device numbers: three devices, and a     *)
(* number out of range whose key is the second device's.                  *)
EXTENDS Samvada, TLC

MCAsked  == { <<0, 1>>, <<1, 0>>, <<1, 1>>, <<0, 2>> }
MCTables == { Slots, Slots \ {"take_control"}, Slots \ {"get_session_path"} }

MCAskedTwo  == { <<0, 1>>, <<1, 0>> }
MCFullTable == { Slots }
=============================================================================

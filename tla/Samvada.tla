------------------------------ MODULE Samvada -------------------------------
(***************************************************************************)
(* The public layer of samvada (src/samvada.cyr) over the native backend,  *)
(* talking to logind on the system bus.                                    *)
(*                                                                         *)
(* Every public function is cut at the backend calls it makes, so that     *)
(* logind, the bus and the deadline act between any two of them: a request *)
(* is written, waits in logind's FIFO inbox, is handled whenever logind    *)
(* gets to it, and the call returns on the reply, on its deadline, on a    *)
(* lost connection or on a stream that can no longer be framed. A reply to *)
(* a call that already returned has an older serial and is discarded.      *)
(***************************************************************************)
EXTENDS Logind, Sequences, Functions

CONSTANTS
  UintMax,    \* largest device number; UINT32_MAX in the code
  HeldCap,    \* _samvada_held_cap(); 256 in the code
  Asked,      \* the <<major, minor>> pairs the consumer asks for
  Tables,     \* the fn-tables it passes: each the set of its non-null slots
  MaxInbox    \* bound: no public call starts while logind is further behind

VARIABLES
  table,      \* _samvada_table: its slots, {} for 0
  bus,        \* _samvada_bus # 0
  control,    \* _samvada_control: 0 not held, 1 held, 2 may be held
  held,       \* _samvada_held[0 .. _samvada_heldn - 1]
  call,       \* the public call in progress, and where it is
  sock,       \* the connection: "none", "open", "lost" (the peer closed it)
  dead,       \* _dbs_closed
  torn,       \* the head of the receive buffer can never be framed
  inbox,      \* requests written and not yet handled by logind
  answer,     \* logind's reply to the request the call waits for, or "none"
  logind,     \* logind's state for our session
  present,    \* devices that are plugged in
  mine        \* history: devices taken by the consumer and not given back

vars == <<table, bus, control, held, call, sock, dead, torn,
          inbox, answer, logind, present, mine>>
local    == <<table, bus, control, held, mine>>
link     == <<sock, dead, torn, inbox, answer>>
outside  == <<logind, present>>

Slots == { "open_system_bus", "get_session_path", "take_device",
           "release_device", "pump_signals", "close_bus",
           "take_control", "release_control" }

\* Mutant: the upper bound is not checked.
DevnumOkUnbounded(v) == v >= 0

\* An in-range device number: dbus carries it as `u`.
DevnumOk(v) == v >= 0 /\ v <= UintMax
Device == (0 .. UintMax) \X (0 .. UintMax)

\* The word a device is held under: (major << 32) | minor.
Key(d) == d[1] * (UintMax + 1) + d[2]

ASSUME ConstantsOK ==
  /\ UintMax \in Nat
  /\ HeldCap \in Nat
  /\ MaxInbox \in Nat
  /\ Asked \subseteq Int \X Int
  /\ \A t \in Tables : t \subseteq Slots /\ "close_bus" \in t

Rc == { "ok", "EINVAL", "EIO", "EBADF", "EPROTO",
        "ECONNRESET", "ENOTCONN", "ETIMEDOUT" }
Stages == { "open_system_bus", "get_session_path", "take_control",
            "take_device", "undo_take", "release_device",
            "release_control", "close_bus" }

NoDevice == <<0, 0>>
NoCall == [fn |-> "none", at |-> "close_bus", dev |-> NoDevice,
           io |-> "done", rc |-> "ok"]
Idle == call = NoCall

DeviceStages == {"take_device", "undo_take", "release_device"}

\* Mutant: the undo of a take passes minor and major the wrong way round.
RequestSwapped(c) ==
  IF c.at = "undo_take" THEN [op |-> "release_device", dev |-> <<c.dev[2], c.dev[1]>>]
  ELSE [op |-> c.at, dev |-> IF c.at \in DeviceStages THEN c.dev ELSE NoDevice]

\* The request a stage writes; undoing a take is a ReleaseDevice.
Request(c) ==
  [op  |-> IF c.at = "undo_take" THEN "release_device" ELSE c.at,
   dev |-> IF c.at \in DeviceStages THEN c.dev ELSE NoDevice]

Gone == [op |-> "gone", dev |-> NoDevice]

-----------------------------------------------------------------------------
(* Helpers of the public layer *)

\* Enter the backend call of a stage.
Calling(c, stage) == [c EXCEPT !.at = stage, !.io = "send", !.rc = "ok"]
Begin(fn, d, stage) == Calling([NoCall EXCEPT !.fn = fn, !.dev = d], stage)

\* The backend call of this stage has returned.
Returned(stage) == call.at = stage /\ call.io = "done" /\ ~Idle

HeldFind(d) == { i \in DOMAIN held : held[i] = Key(d) }

\* Mutant: the last entry is not moved into the hole.
HeldDelLast(s, i) == SubSeq(s, 1, Len(s) - 1)

\* Overwrite entry i with the last one and drop the last.
HeldDel(s, i) == SubSeq([s EXCEPT ![i] = s[Len(s)]], 1, Len(s) - 1)

\* The bus itself failed, rather than logind refusing.
BusFailed(rc) == rc \in {"ECONNRESET", "ENOTCONN", "ETIMEDOUT"}

\* Where a public function goes once control needs nothing more.
AfterDrop(c) == IF c.fn = "release" THEN [c EXCEPT !.at = "close_bus"]
                                    ELSE NoCall

\* Give control back if it is, or may be, held. At samvada_release a
\* controller logind did not answer last time is not asked again.
DropControl(c) ==
  LET silent == \/ control = 0
                \/ c.fn = "release" /\ control = 2
                \/ "release_control" \notin table
  IN IF silent THEN control' = 0 /\ call' = AfterDrop(c)
               ELSE UNCHANGED control /\ call' = Calling(c, "release_control")

ReleaseControlReturned ==
  /\ Returned("release_control")
  /\ control' = CASE call.rc = "ok"                     -> 0
                  [] call.rc = "ETIMEDOUT"              -> 2
                  [] call.rc = "EINVAL"                 -> 0
                  [] call.rc \in {"ECONNRESET", "ENOTCONN"} -> 0
                  [] OTHER                              -> control
  /\ call' = AfterDrop(call)
  /\ UNCHANGED <<table, bus, held, mine>> /\ UNCHANGED link /\ UNCHANGED outside

-----------------------------------------------------------------------------
(* samvada_init *)

\* The refusals before the table is stored (null, busy, unknown kind), a
\* failed scratch allocation and a table that cannot open a bus end with
\* everything as it was.
InitBegin ==
  /\ Idle
  /\ Len(inbox) <= MaxInbox
  /\ table = {}
  /\ \E t \in Tables : "open_system_bus" \in t /\ table' = t
  /\ held' = <<>>
  /\ call' = Begin("init", NoDevice, "open_system_bus")
  /\ UNCHANGED <<bus, control, mine>> /\ UNCHANGED link /\ UNCHANGED outside

\* Connect, authenticate, Hello: all or nothing. Framer, latch and serial
\* are reset first, whatever becomes of the connect.
OpenSystemBus ==
  /\ call.at = "open_system_bus"
  /\ dead' = FALSE
  /\ torn' = FALSE
  /\ \/ /\ sock' = "open"
        /\ bus' = TRUE
        /\ call' = IF "get_session_path" \in table
                   THEN Calling(call, "get_session_path")
                   ELSE [call EXCEPT !.at = "close_bus", !.io = "done"]
        /\ UNCHANGED table
     \/ /\ table' = {}
        /\ call' = NoCall
        /\ UNCHANGED <<sock, bus>>
  /\ UNCHANGED <<control, held, mine, inbox, answer>> /\ UNCHANGED outside

\* Mutant: a failed lookup forgets the table and leaves the bus open.
SessionPathLeaks ==
  /\ Returned("get_session_path")
  /\ table' = IF call.rc = "ok" /\ "take_control" \in table THEN table ELSE {}
  /\ call' = NoCall
  /\ UNCHANGED <<bus, control, held, mine>> /\ UNCHANGED link /\ UNCHANGED outside

SessionPathReturned ==
  /\ Returned("get_session_path")
  /\ call' = IF call.rc = "ok" /\ "take_control" \in table
             THEN NoCall
             ELSE [call EXCEPT !.at = "close_bus"]
  /\ UNCHANGED local /\ UNCHANGED link /\ UNCHANGED outside

-----------------------------------------------------------------------------
(* samvada_session_take_device *)

TakeDeviceBegin(d) ==
  /\ Idle
  /\ Len(inbox) <= MaxInbox
  /\ bus
  /\ "take_device" \in table
  /\ DevnumOk(d[1]) /\ DevnumOk(d[2])
  /\ HeldFind(d) = {}
  /\ Len(held) < HeldCap
  /\ call' = Begin("take", d, IF held = <<>> THEN "take_control" ELSE "take_device")
  /\ UNCHANGED local /\ UNCHANGED link /\ UNCHANGED outside

\* Mutant: a TakeControl that timed out is forgotten.
TakeControlForgotten ==
  /\ Returned("take_control")
  /\ control' = IF call.rc = "ok" THEN 1 ELSE control
  /\ call' = IF call.rc = "ok" THEN Calling(call, "take_device") ELSE NoCall
  /\ UNCHANGED <<table, bus, held, mine>> /\ UNCHANGED link /\ UNCHANGED outside

TakeControlReturned ==
  /\ Returned("take_control")
  /\ control' = CASE call.rc = "ok"                         -> 1
                  [] call.rc = "ETIMEDOUT" /\ control = 0   -> 2
                  [] OTHER                                  -> control
  /\ call' = IF call.rc = "ok" THEN Calling(call, "take_device") ELSE NoCall
  /\ UNCHANGED <<table, bus, held, mine>> /\ UNCHANGED link /\ UNCHANGED outside

TakeDeviceGot ==
  /\ Returned("take_device")
  /\ call.rc = "ok"
  /\ held' = Append(held, Key(call.dev))
  /\ mine' = mine \cup {call.dev}
  /\ call' = NoCall
  /\ UNCHANGED <<table, bus, control>> /\ UNCHANGED link /\ UNCHANGED outside

\* Mutant: a failed take always hands control back.
TakeDeviceFailedDrops ==
  /\ Returned("take_device")
  /\ call.rc # "ok"
  /\ DropControl(call)
  /\ UNCHANGED <<table, bus, held, mine>> /\ UNCHANGED link /\ UNCHANGED outside

\* logind may have granted it all the same. With nothing held, control goes
\* back; with other devices held only this one is released, unless the bus
\* itself failed.
TakeDeviceFailed ==
  /\ Returned("take_device")
  /\ call.rc # "ok"
  /\ IF held = <<>>
     THEN DropControl(call)
     ELSE /\ control' = IF call.rc = "ETIMEDOUT" THEN 2 ELSE control
          /\ call' = IF BusFailed(call.rc) \/ "release_device" \notin table
                     THEN NoCall
                     ELSE Calling(call, "undo_take")
  /\ UNCHANGED <<table, bus, held, mine>> /\ UNCHANGED link /\ UNCHANGED outside

UndoTakeReturned ==
  /\ Returned("undo_take")
  /\ call' = NoCall
  /\ UNCHANGED local /\ UNCHANGED link /\ UNCHANGED outside

-----------------------------------------------------------------------------
(* samvada_session_release_device, samvada_pump_signals, samvada_release *)

ReleaseDeviceBegin(d) ==
  /\ Idle
  /\ Len(inbox) <= MaxInbox
  /\ bus
  /\ "release_device" \in table
  /\ DevnumOk(d[1]) /\ DevnumOk(d[2])
  /\ mine' = mine \ {d}
  /\ call' = Begin("release_device", d, "release_device")
  /\ UNCHANGED <<table, bus, control, held>> /\ UNCHANGED link /\ UNCHANGED outside

\* The device leaves the table whatever logind answered.
ReleaseDeviceReturned ==
  /\ Returned("release_device")
  /\ held' = IF HeldFind(call.dev) = {} THEN held
             ELSE HeldDel(held, CHOOSE i \in HeldFind(call.dev) :
                                  \A j \in HeldFind(call.dev) : i <= j)
  /\ IF held' = <<>> THEN DropControl(call)
                     ELSE UNCHANGED control /\ call' = NoCall
  /\ UNCHANGED <<table, bus, mine>> /\ UNCHANGED link /\ UNCHANGED outside

\* A pump changes state only by what it learns of the stream.
PumpSignals ==
  /\ Idle
  /\ bus
  /\ "pump_signals" \in table
  /\ ~torn
  /\ \/ sock = "lost" /\ dead' = TRUE /\ UNCHANGED torn
     \/ torn' = TRUE /\ UNCHANGED dead
  /\ UNCHANGED <<call, sock, inbox, answer>> /\ UNCHANGED local /\ UNCHANGED outside

\* The consumer stops using every device when it calls this.
ReleaseBegin ==
  /\ Idle
  /\ bus
  /\ mine' = {}
  /\ DropControl([NoCall EXCEPT !.fn = "release"])
  /\ UNCHANGED <<table, bus, held>> /\ UNCHANGED link /\ UNCHANGED outside

\* Mutant: the connection is never closed.
InboxAfterCloseLeaked == inbox

\* Closing our end tells the bus, and through it logind, after everything
\* already written.
InboxAfterClose == IF sock = "open" THEN Append(inbox, Gone) ELSE inbox

\* The tail of samvada_release, also run by every failing samvada_init.
CloseBus ==
  /\ call.at = "close_bus"
  /\ ~Idle
  /\ inbox' = InboxAfterClose
  /\ sock' = "none"
  /\ bus' = FALSE
  /\ control' = 0
  /\ held' = <<>>
  /\ table' = {}
  /\ call' = NoCall
  /\ UNCHANGED <<mine, dead, torn, answer>> /\ UNCHANGED outside

-----------------------------------------------------------------------------
(* The native backend: dbus_session_call, at the grain the layer above sees *)

Return(rc) == call' = [call EXCEPT !.io = "done", !.rc = rc]

CallSent ==
  /\ call.io = "send" /\ call.at # "open_system_bus"
  /\ sock = "open" /\ ~dead /\ ~torn
  /\ inbox' = Append(inbox, Request(call))
  /\ answer' = "none"
  /\ call' = [call EXCEPT !.io = "wait"]
  /\ UNCHANGED <<sock, dead, torn>> /\ UNCHANGED local /\ UNCHANGED outside

\* Refused before anything is written: the latch, then the stream.
CallRefused ==
  /\ call.io = "send" /\ call.at # "open_system_bus"
  /\ dead \/ torn
  /\ Return(IF dead THEN "ENOTCONN" ELSE "EPROTO")
  /\ UNCHANGED local /\ UNCHANGED link /\ UNCHANGED outside

\* The deadline passes in the write. Part of the request may be in the
\* stream, which latches the connection closed; the socket stays open.
CallSendTimedOut ==
  /\ call.io = "send" /\ call.at # "open_system_bus"
  /\ sock = "open" /\ ~dead /\ ~torn
  /\ \E cut \in BOOLEAN : dead' = cut
  /\ Return("ETIMEDOUT")
  /\ UNCHANGED <<sock, torn, inbox, answer>> /\ UNCHANGED local /\ UNCHANGED outside

\* A connection the peer closed, seen before, in or after the write.
CallLost ==
  /\ call.io \in {"send", "wait"} /\ call.at # "open_system_bus"
  /\ sock = "lost" /\ ~dead /\ ~torn
  /\ dead' = TRUE
  /\ Return("ECONNRESET")
  /\ UNCHANGED <<sock, torn, inbox, answer>> /\ UNCHANGED local /\ UNCHANGED outside

\* A TakeDevice reply without a usable descriptor of the device asked for.
NoUsableFd == answer = "ok" /\ call.at = "take_device" /\ Return("EBADF")

\* A session path that is none, or is too long.
NoUsablePath == answer = "ok" /\ call.at = "get_session_path" /\ Return("EPROTO")

\* The reply is read, and may still be an error on our side.
CallAnswered ==
  /\ call.io = "wait"
  /\ answer # "none"
  /\ \/ Return(answer)
     \/ NoUsableFd
     \/ NoUsablePath
  /\ answer' = "none"
  /\ UNCHANGED <<sock, dead, torn, inbox>> /\ UNCHANGED local /\ UNCHANGED outside

\* Mutant: the wait has no deadline.
CallNeverTimesOut == FALSE /\ UNCHANGED vars

\* The deadline passes in the wait; logind may act on the request later.
CallTimedOut ==
  /\ call.io = "wait"
  /\ Return("ETIMEDOUT")
  /\ answer' = "none"
  /\ UNCHANGED <<sock, dead, torn, inbox>> /\ UNCHANGED local /\ UNCHANGED outside

\* A header that cannot be framed arrives ahead of the reply.
CallTorn ==
  /\ call.io = "wait"
  /\ torn' = TRUE
  /\ Return("EPROTO")
  /\ answer' = "none"
  /\ UNCHANGED <<sock, dead, inbox>> /\ UNCHANGED local /\ UNCHANGED outside

-----------------------------------------------------------------------------
(* logind, the bus and the hardware (external) *)

\* Only the last request written can be the one a call waits for.
LogindHandles ==
  /\ inbox # <<>>
  /\ \E o \in Outcomes(Head(inbox), logind, present) :
       /\ logind' = o.next
       /\ answer' = IF Len(inbox) = 1 /\ call.io = "wait" /\ sock = "open"
                    THEN o.reply ELSE answer
  /\ inbox' = Tail(inbox)
  /\ UNCHANGED <<call, sock, dead, torn, present>> /\ UNCHANGED local

\* The bus goes away with what it had not forwarded yet.
BusGoes ==
  /\ sock = "open"
  /\ sock' = "lost"
  /\ \E n \in 0 .. Len(inbox) :
       inbox' = Append(SubSeq(inbox, 1, n), Gone)
  /\ UNCHANGED <<call, dead, torn, answer>> /\ UNCHANGED local /\ UNCHANGED outside

\* logind drops a device that is unplugged.
Unplug(d) ==
  /\ d \in present
  /\ present' = present \ {d}
  /\ logind' = [logind EXCEPT !.granted = @ \ {d}]
  /\ UNCHANGED call /\ UNCHANGED local /\ UNCHANGED link

Plug(d) ==
  /\ d \notin present
  /\ present' = present \cup {d}
  /\ UNCHANGED <<call, logind>> /\ UNCHANGED local /\ UNCHANGED link

-----------------------------------------------------------------------------
Init ==
  /\ table = {} /\ bus = FALSE /\ control = 0 /\ held = <<>> /\ mine = {}
  /\ call = NoCall
  /\ sock = "none" /\ dead = FALSE /\ torn = FALSE
  /\ inbox = <<>> /\ answer = "none"
  /\ logind = Released
  /\ present = Asked \cap Device

\* What the consumer decides to call.
Consumer ==
  \/ InitBegin
  \/ \E d \in Asked : TakeDeviceBegin(d) \/ ReleaseDeviceBegin(d)
  \/ PumpSignals
  \/ ReleaseBegin

\* What a public call, once started, does by itself.
Running ==
  \/ OpenSystemBus \/ SessionPathReturned
  \/ TakeControlReturned \/ TakeDeviceGot \/ TakeDeviceFailed \/ UndoTakeReturned
  \/ ReleaseDeviceReturned \/ ReleaseControlReturned \/ CloseBus
  \/ CallSent \/ CallRefused \/ CallSendTimedOut \/ CallLost
  \/ CallAnswered \/ CallTimedOut

Hardware == \E d \in Asked \cap Device : Unplug(d) \/ Plug(d)

Next == Consumer \/ Running \/ CallTorn \/ LogindHandles \/ BusGoes \/ Hardware

Spec == Init /\ [][Next]_vars

\* The process runs, and a waiting call wakes at its deadline at the latest
\* (the clock and poll): no help from logind is assumed.
ClientFairness == WF_vars(Running)
ClientSpec == Spec /\ ClientFairness

-----------------------------------------------------------------------------
(* Properties *)

Requests == [op : {"get_session_path", "take_control", "release_control",
                   "take_device", "release_device", "gone"},
             dev : Device]

CallRecords ==
  [fn : {"none", "init", "take", "release_device", "release"},
   at : Stages, dev : Device, io : {"send", "wait", "done"}, rc : Rc]

\* Every variable of the public layer, the link and logind has its type.
TypeOK ==
  /\ table \in SUBSET Slots
  /\ bus \in BOOLEAN
  /\ control \in 0 .. 2
  /\ held \in Seq(Nat)
  /\ call \in CallRecords
  /\ sock \in {"none", "open", "lost"}
  /\ dead \in BOOLEAN
  /\ torn \in BOOLEAN
  /\ inbox \in Seq(Requests)
  /\ answer \in Rc \cup {"none"}
  /\ logind \in SessionState(Device)
  /\ present \in SUBSET Device
  /\ mine \in SUBSET Device

\* samvada's table lists exactly the devices the consumer took and did not
\* give back, each once: the fixed table with its swap-with-last delete and
\* its packed keys behaves as a set (samvada.cyr:94-118, :287-405).
HeldIsMine ==
  Idle => /\ IsInjective(held)
          /\ Range(held) = { Key(d) : d \in mine }
          /\ Len(held) <= HeldCap

\* While a device is held a ReleaseControl is owed: control is 1 or 2, so
\* the release of the last device always asks logind for the VT back
\* (samvada.cyr:44-46, :399).
HeldOwesRelease ==
  held # <<>> /\ call.fn # "release" => control # 0

\* Nothing samvada sends, however late logind handles it, takes away a
\* device the consumer is using: logind drops such a device only when it is
\* unplugged or the connection is gone (samvada.cyr:47-52, :331-337).
NeverRevoked ==
  [][\A d \in mine : d \in logind.granted /\ d \notin logind'.granted
        => d \notin present' \/ sock = "lost"]_vars

\* logind has no control of ours that nothing queued will end.
Settled ==
  LET ends(i) == \E j \in DOMAIN inbox : j > i /\ inbox[j].op = "gone"
  IN /\ logind.controller => ends(0)
     /\ \A i \in DOMAIN inbox : inbox[i].op = "take_control" => ends(i)

\* Between calls, control = 0 means the console is not left muted: logind
\* does not have us as controller and no TakeControl is still on its way,
\* unless the connection's close is. On a connection that samvada latched
\* or that can no longer be framed this is ZeroMeansNotHeld's business
\* (samvada.cyr:44, :226-278).
ControlAccounted ==
  Idle /\ control = 0 /\ (sock = "open" => ~dead /\ ~torn /\ "release_control" \in table)
    => Settled

\* A take that failed and was undone with an answer from logind leaves no
\* grant behind, however logind came to hold the device: a late grant of an
\* earlier take included (samvada.cyr:326-364, :377-379).
FailedTakeUndone ==
  (/\ call.fn = "take"
   /\ call.at \in {"undo_take", "release_control"}
   /\ call.io = "done"
   /\ call.rc \in {"ok", "EINVAL"})
    => call.dev \notin logind.granted

\* With no table there is no connection, no control and no device: a failed
\* samvada_init and samvada_release leave nothing behind
\* (samvada.cyr:135-213, :421-447).
NoTableNoBus ==
  Idle /\ table = {} => sock = "none" /\ ~bus /\ control = 0 /\ held = <<>>

\* Every public call returns even if logind never answers again: each of the
\* backend calls it makes ends at its deadline (dbus_session.cyr:815-929).
CallsReturn == (call.fn # "none") ~> (call.fn = "none")

\* Once samvada_release is called the console comes back, whatever the
\* state of control and of the connection, if logind gets to every request
\* in the end (samvada.cyr:421-447, ADR-0004).
ConsoleRestored ==
  WF_vars(LogindHandles) => ((call.fn = "release") ~> ~logind.controller)

\* The comment at samvada.cyr:44, "0: control is not held", on a connection
\* samvada did not latch closed.
ZeroMeansNotHeld ==
  Idle /\ control = 0 /\ ~dead /\ (sock = "open" => "release_control" \in table)
    => Settled

\* The comment at samvada.cyr:245-247: when ReleaseControl finds "the bus
\* gone (-104 / -107)", control is not ours or "the connection's close
\* released it".
GoneMeansReleased ==
  /\ Returned("release_control")
  /\ call.rc \in {"ECONNRESET", "ENOTCONN"}
  => Settled
=============================================================================

------------------------ MODULE SamvadaControlProofs ------------------------
(***************************************************************************)
(* What samvada knows of logind's side: ControlAccounted, that control = 0 *)
(* between calls means the console is not left muted, and FailedTakeUndone *)
(* hold for every number of devices, every table and every bound.          *)
(***************************************************************************)
EXTENDS SamvadaProofs

(***************************************************************************)
(* The inductive invariant, on top of SamvadaProofs!IInv.                  *)
(***************************************************************************)

\* The request a call waits for is the last one on its way.
RequestIsLast ==
  call.io = "wait" /\ sock = "open" /\ inbox # <<>>
    => inbox[Len(inbox)] = Request(call)

\* logind grants devices to its controller only.
GrantsNeedControl == ~logind.controller => logind.granted = {}

\* logind has answered the request that undoes a take.
UndoAnswered ==
  /\ call.fn = "take"
  /\ call.at \in {"undo_take", "release_control"}
  /\ \/ call.io = "wait" /\ answer \in {"ok", "EINVAL"}
     \/ call.io = "done" /\ call.rc \in {"ok", "EINVAL"}

\* Then the device is not granted, and no TakeDevice is left that could.
UndoSettled ==
  UndoAnswered => /\ call.dev \notin logind.granted
                  /\ \A i \in DOMAIN inbox : inbox[i].op # "take_device"

\* Once the connection is gone its close is on its way, after everything else.
LostIsSettled == sock # "open" => Settled

\* The connection is one ControlAccounted speaks of.
Watched == sock = "open" /\ ~dead /\ ~torn /\ "release_control" \in table

\* A TakeControl that logind may have granted has been written.
Taking ==
  /\ call.at = "take_control"
  /\ \/ call.io = "wait"
     \/ call.io = "done" /\ call.rc \in {"ok", "ETIMEDOUT"}

\* control = 0 is true at every stage but the one that takes it, until
\* samvada_release gives up on it.
ZeroIsSettled ==
  Watched /\ control = 0 /\ call.fn # "release" /\ ~Taking => Settled

EndsAfter(i) == \E j \in DOMAIN inbox : j > i /\ inbox[j].op = "gone"

\* Settled, but for the last request.
SettledBefore ==
  /\ logind.controller => EndsAfter(0)
  /\ \A i \in DOMAIN inbox :
       inbox[i].op = "take_control" => EndsAfter(i) \/ i = Len(inbox)

\* The TakeControl a call waits for is the only one that matters.
TakingKnown ==
  Watched /\ control = 0 /\ call.at = "take_control" /\ call.io = "wait" =>
    /\ inbox # <<>> => SettledBefore
    /\ inbox = <<>> => answer = "ok" \/ ~logind.controller

\* A ReleaseControl that was answered, but for an I/O error, took effect.
ReleaseKnown ==
  Watched /\ call.at = "release_control" =>
    /\ call.io = "wait" => answer \in {"none", "EIO"} \/ ~logind.controller
    /\ call.io = "done" => call.rc \in {"ETIMEDOUT", "EIO", "EPROTO", "EBADF"} \/ Settled

CInv == /\ IInv
        /\ RequestIsLast
        /\ GrantsNeedControl
        /\ UndoSettled
        /\ LostIsSettled
        /\ ZeroIsSettled
        /\ TakingKnown
        /\ ReleaseKnown

-----------------------------------------------------------------------------
(* What the steps are, seen from logind *)

\* The steps of the public layer: they begin, continue or end a call.
Moves ==
  \/ InitBegin \/ OpenSystemBus \/ SessionPathReturned \/ TakeControlReturned
  \/ TakeDeviceGot \/ TakeDeviceFailed \/ UndoTakeReturned \/ ReleaseDeviceReturned
  \/ ReleaseControlReturned \/ CloseBus \/ ReleaseBegin
  \/ \E d \in Asked : TakeDeviceBegin(d) \/ ReleaseDeviceBegin(d)

\* A backend call ends.
Returns ==
  \/ CallRefused \/ CallSendTimedOut \/ CallLost
  \/ CallAnswered \/ CallTimedOut \/ CallTorn

\* Every step is of one of these kinds.
LEMMA StepKinds ==
  ASSUME [Next]_vars
  PROVE  Moves \/ Returns \/ CallSent \/ LogindHandles \/ BusGoes
           \/ PumpSignals \/ Hardware \/ UNCHANGED vars
BY DEF Next, Consumer, Running, Moves, Returns

\* After a step of the public layer nothing has been asked yet.
LEMMA MovesAsk ==
  ASSUME TypeOK, CallShape, Moves
  PROVE  call'.io = "send" \/ (call'.io = "done" /\ call'.at = "close_bus")
<1> USE DEF local, link, outside
<1>1. CASE InitBegin
  BY <1>1 DEF InitBegin, Begin, Calling, NoCall
<1>2. CASE OpenSystemBus
  <2>1. LET c == [call EXCEPT !.at = "close_bus", !.io = "done"]
        IN  c.at = "close_bus" /\ c.io = "done"
    BY DEF TypeOK, CallRecords
  <2>2. call' \in {NoCall, Calling(call, "get_session_path"),
                   [call EXCEPT !.at = "close_bus", !.io = "done"]}
    BY <1>2 DEF OpenSystemBus
  <2>3. CASE call' = NoCall
    BY <2>3, NoCallFields
  <2>4. CASE call' = Calling(call, "get_session_path")
    BY <2>4, CallingFields
  <2>5. CASE call' = [call EXCEPT !.at = "close_bus", !.io = "done"]
    BY <2>5, <2>1
  <2> QED BY <2>2, <2>3, <2>4, <2>5
<1>3. CASE SessionPathReturned
  <2>1. LET c == [call EXCEPT !.at = "close_bus"]
        IN  c.at = "close_bus" /\ c.io = call.io
    BY DEF TypeOK, CallRecords
  <2>2. call' \in {NoCall, [call EXCEPT !.at = "close_bus"]} /\ call.io = "done"
    BY <1>3 DEF SessionPathReturned, Returned
  <2> QED BY <2>1, <2>2, NoCallFields
<1>4. CASE TakeControlReturned
  BY <1>4, NoCallFields, CallingFields DEF TakeControlReturned
<1>5. CASE TakeDeviceGot \/ UndoTakeReturned \/ CloseBus
  BY <1>5, NoCallFields DEF TakeDeviceGot, UndoTakeReturned, CloseBus
<1>6. CASE TakeDeviceFailed
  <2>1. call' \in {NoCall, Calling(call, "release_control"), Calling(call, "undo_take")}
    BY <1>6, DropControlCases DEF TakeDeviceFailed, Returned, CallShape, AfterDrop
  <2> QED BY <2>1, CallingFields, NoCallFields
<1>7. CASE ReleaseDeviceReturned
  <2>1. call' \in {NoCall, Calling(call, "release_control")}
    BY <1>7, DropControlCases DEF ReleaseDeviceReturned, Returned, CallShape, AfterDrop
  <2> QED BY <2>1, CallingFields, NoCallFields
<1>8. CASE ReleaseControlReturned
  <2>1. LET c == [call EXCEPT !.at = "close_bus"]
        IN  c.at = "close_bus" /\ c.io = call.io
    BY DEF TypeOK, CallRecords
  <2>2. call' \in {NoCall, [call EXCEPT !.at = "close_bus"]} /\ call.io = "done"
    BY <1>8 DEF ReleaseControlReturned, AfterDrop, Returned
  <2> QED BY <2>1, <2>2, NoCallFields
<1>9. CASE ReleaseBegin
  <2> DEFINE c == [NoCall EXCEPT !.fn = "release"]
  <2>1. /\ AfterDrop(c).io = "done" /\ AfterDrop(c).at = "close_bus"
        /\ Calling(c, "release_control").io = "send"
    BY DEF AfterDrop, Calling, NoCall
  <2> QED BY <1>9, <2>1, DropControlCases DEF ReleaseBegin
<1>10. ASSUME NEW d \in Asked, TakeDeviceBegin(d) \/ ReleaseDeviceBegin(d)
       PROVE  call'.io = "send"
  BY <1>10 DEF TakeDeviceBegin, ReleaseDeviceBegin, Begin, Calling, NoCall
<1> QED BY <1>1, <1>2, <1>3, <1>4, <1>5, <1>6, <1>7, <1>8, <1>9, <1>10 DEF Moves

\* Nor has logind heard of it, except of the close of the connection.
LEMMA MovesKeep ==
  ASSUME Moves
  PROVE  /\ logind' = logind
         /\ CloseBus \/ OpenSystemBus \/ UNCHANGED <<inbox, sock, dead, torn>>
BY DEF Moves, local, link, outside, InitBegin, OpenSystemBus, SessionPathReturned,
  TakeControlReturned, TakeDeviceGot, TakeDeviceFailed, UndoTakeReturned,
  ReleaseDeviceReturned, ReleaseControlReturned, CloseBus, ReleaseBegin,
  TakeDeviceBegin, ReleaseDeviceBegin

\* The end of a backend call tells logind nothing.
LEMMA ReturnsKeep ==
  ASSUME TypeOK, Returns
  PROVE  /\ UNCHANGED <<inbox, sock, logind, control, table>>
         /\ call'.fn = call.fn /\ call'.at = call.at /\ call'.dev = call.dev
         /\ call'.io = "done"
<1>1. UNCHANGED <<inbox, sock, logind, control, table>>
  BY DEF Returns, local, link, outside, CallRefused, CallSendTimedOut, CallLost,
    CallAnswered, NoUsableFd, NoUsablePath, CallTimedOut, CallTorn
<1>2. PICK r : Return(r)
  BY DEF Returns, CallRefused, CallSendTimedOut, CallLost,
    CallAnswered, NoUsableFd, NoUsablePath, CallTimedOut, CallTorn
<1> QED BY <1>1, <1>2, ReturnKeeps

\* Plugging and unplugging take grants away and nothing else.
LEMMA HardwareKeeps ==
  ASSUME TypeOK, Hardware
  PROVE  /\ UNCHANGED <<inbox, sock, call, control, table, dead, torn, answer>>
         /\ logind'.controller = logind.controller
         /\ logind'.granted \subseteq logind.granted
<1>1. PICK d \in Asked \cap Device : Unplug(d) \/ Plug(d)
  BY DEF Hardware
<1>2. UNCHANGED <<inbox, sock, call, control, table, dead, torn, answer>>
  BY <1>1 DEF Unplug, Plug, local, link
<1>3. logind' = logind \/ logind' = [logind EXCEPT !.granted = @ \ {d}]
  BY <1>1 DEF Unplug, Plug
<1>4. /\ [logind EXCEPT !.granted = @ \ {d}].controller = logind.controller
      /\ [logind EXCEPT !.granted = @ \ {d}].granted = logind.granted \ {d}
  BY DEF TypeOK, SessionState
<1> QED BY <1>2, <1>3, <1>4

-----------------------------------------------------------------------------
(* What logind does with a request *)

\* A request changes logind's state only as its name says.
LEMMA OutcomesControl ==
  ASSUME NEW q \in Requests, NEW s \in SessionState(Device),
         NEW P \in SUBSET Device, NEW o \in Outcomes(q, s, P)
  PROVE  /\ q.op = "gone" => o.next = Released
         /\ q.op = "take_control" =>
              \/ o.reply = "EIO" /\ o.next = s
              \/ o.reply = "ok" /\ o.next.controller /\ o.next.granted = s.granted
         /\ q.op = "release_control" =>
              \/ o.reply = "EIO" /\ o.next = s
              \/ o.reply = "EINVAL" /\ o.next = s /\ ~s.controller
              \/ o.reply = "ok" /\ o.next = Released
         /\ q.op \in {"get_session_path", "take_device", "release_device"} =>
              /\ o.next.controller = s.controller
              /\ o.reply \in {"ok", "EIO", "EINVAL"}
         /\ q.op = "take_device" /\ ~s.controller => o.next.granted = s.granted
         /\ q.op = "get_session_path" => o.next = s
         /\ q.op = "release_device" =>
              \/ o.reply = "EIO" /\ o.next = s
              \/ o.reply = "EINVAL" /\ o.next = s /\ (~s.controller \/ q.dev \notin s.granted)
              \/ o.reply = "ok" /\ o.next.granted = s.granted \ {q.dev}
<1>1. /\ s.controller \in BOOLEAN
      /\ [s EXCEPT !.controller = TRUE].controller
      /\ [s EXCEPT !.controller = TRUE].granted = s.granted
      /\ [s EXCEPT !.granted = @ \cup {q.dev}].controller = s.controller
      /\ [s EXCEPT !.granted = @ \ {q.dev}].controller = s.controller
      /\ [s EXCEPT !.granted = @ \ {q.dev}].granted = s.granted \ {q.dev}
  BY DEF SessionState
<1>2. CASE q.op = "gone"
  BY <1>2 DEF Outcomes
<1>3. CASE q.op = "take_control"
  <2>1. \/ o = [reply |-> "EIO", next |-> s]
        \/ o = [reply |-> "ok", next |-> [s EXCEPT !.controller = TRUE]]
    BY <1>3 DEF Outcomes
  <2>2. \/ o.reply = "EIO" /\ o.next = s
        \/ o.reply = "ok" /\ o.next = [s EXCEPT !.controller = TRUE]
    <3>1. CASE o = [reply |-> "EIO", next |-> s]
      BY <3>1
    <3>2. CASE o = [reply |-> "ok", next |-> [s EXCEPT !.controller = TRUE]]
      BY <3>2, Zenon
    <3> QED BY <2>1, <3>1, <3>2
  <2>3. \/ o.reply = "EIO" /\ o.next = s
        \/ o.reply = "ok" /\ o.next.controller /\ o.next.granted = s.granted
    BY <1>1, <2>2
  <2> QED BY <1>3, <2>3
<1>4. CASE q.op = "release_control"
  <2>1. \/ o.reply = "EIO" /\ o.next = s
        \/ o.reply = "EINVAL" /\ o.next = s /\ ~s.controller
        \/ o.reply = "ok" /\ o.next = Released
    BY <1>1, <1>4 DEF Outcomes
  <2> QED BY <1>4, <2>1
<1>5. CASE q.op = "get_session_path"
  <2>1. o.next = s /\ o.reply \in {"ok", "EIO"}
    BY <1>5 DEF Outcomes
  <2> QED BY <1>5, <2>1
<1>6. CASE q.op = "take_device"
  <2>1. /\ o.next = s \/ (s.controller /\ o.next = [s EXCEPT !.granted = @ \cup {q.dev}])
        /\ o.reply \in {"ok", "EIO", "EINVAL"}
    BY <1>1, <1>6 DEF Outcomes
  <2> QED BY <1>1, <1>6, <2>1
<1>7. CASE q.op = "release_device"
  <2>1. \/ o.reply = "EIO" /\ o.next = s
        \/ o.reply = "EINVAL" /\ o.next = s /\ (~s.controller \/ q.dev \notin s.granted)
        \/ o.reply = "ok" /\ o.next = [s EXCEPT !.granted = @ \ {q.dev}]
    BY <1>1, <1>7 DEF Outcomes
  <2> QED BY <1>1, <1>7, <2>1
<1> QED BY <1>2, <1>3, <1>4, <1>5, <1>6, <1>7 DEF Requests

\* logind handles the first request and answers the call only if it is the last.
LEMMA HandledFirst ==
  ASSUME TypeOK, LogindHandles
  PROVE  /\ inbox # <<>> /\ Len(inbox) \in Nat \ {0} /\ inbox[1] \in Requests
         /\ DOMAIN inbox = 1 .. Len(inbox)
         /\ inbox' = Tail(inbox) /\ Len(inbox') = Len(inbox) - 1
         /\ DOMAIN inbox' = 1 .. Len(inbox) - 1
         /\ \A i \in 1 .. Len(inbox) - 1 : inbox'[i] = inbox[i + 1]
         /\ logind \in SessionState(Device)
         /\ UNCHANGED <<call, sock, dead, torn, control, table>>
         /\ \E o \in Outcomes(inbox[1], logind, present) :
              /\ logind' = o.next
              /\ answer' = IF Len(inbox) = 1 /\ call.io = "wait" /\ sock = "open"
                           THEN o.reply ELSE answer
<1>1. inbox \in Seq(Requests) /\ inbox # <<>> /\ inbox' = Tail(inbox)
  BY DEF TypeOK, LogindHandles
<1>2. Head(inbox) = inbox[1]
  BY <1>1
<1>3. UNCHANGED <<call, sock, dead, torn, control, table>>
  BY DEF LogindHandles, local
<1> QED BY <1>1, <1>2, <1>3 DEF LogindHandles, TypeOK

-----------------------------------------------------------------------------
(* Settled *)

\* Being settled is a matter of what is on its way and who has control.
LEMMA SettledSame ==
  ASSUME inbox' = inbox, logind'.controller = logind.controller
  PROVE  (Settled => Settled') /\ (SettledBefore => SettledBefore')
BY DEF Settled, SettledBefore, EndsAfter

\* A close at the end of what is on its way ends all of it.
LEMMA SettledGone ==
  ASSUME NEW s \in Seq(Requests), inbox' = Append(s, Gone)
  PROVE  Settled'
<1>1. Gone.op = "gone" /\ Len(s) \in Nat
  BY DEF Gone
<1>2. /\ DOMAIN inbox' = 1 .. Len(s) + 1 /\ inbox'[Len(s) + 1] = Gone
  OBVIOUS
<1>3. \A i \in 1 .. Len(s) + 1 : inbox'[i].op = "take_control" => i # Len(s) + 1
  BY <1>1, <1>2
<1> QED BY <1>1, <1>2, <1>3 DEF Settled

\* A request that is written leaves what was settled so, up to itself.
LEMMA SettledSent ==
  ASSUME TypeOK, Settled, NEW q \in Requests, inbox' = Append(inbox, q), logind' = logind
  PROVE  SettledBefore' /\ (q.op # "take_control" => Settled')
<1>1. inbox \in Seq(Requests) /\ Len(inbox) \in Nat
  BY DEF TypeOK
<1>2. /\ DOMAIN inbox = 1 .. Len(inbox) /\ DOMAIN inbox' = 1 .. Len(inbox) + 1
      /\ Len(inbox') = Len(inbox) + 1 /\ inbox'[Len(inbox) + 1] = q
      /\ \A i \in 1 .. Len(inbox) : inbox'[i] = inbox[i]
  BY <1>1
<1>3. ASSUME NEW i \in Nat, \E j \in DOMAIN inbox : j > i /\ inbox[j].op = "gone"
      PROVE  \E j \in DOMAIN inbox' : j > i /\ inbox'[j].op = "gone"
  <2>1. PICK j \in 1 .. Len(inbox) : j > i /\ inbox[j].op = "gone"
    BY <1>2, <1>3
  <2>2. j \in DOMAIN inbox' /\ inbox'[j].op = "gone"
    BY <1>1, <1>2, <2>1
  <2> QED BY <2>1, <2>2
<1>4. logind'.controller => \E j \in DOMAIN inbox' : j > 0 /\ inbox'[j].op = "gone"
  BY <1>3 DEF Settled
<1>5. ASSUME NEW i \in DOMAIN inbox', inbox'[i].op = "take_control"
      PROVE  \/ \E j \in DOMAIN inbox' : j > i /\ inbox'[j].op = "gone"
             \/ i = Len(inbox') /\ q.op = "take_control"
  <2>1. i \in 1 .. Len(inbox) \/ i = Len(inbox) + 1
    BY <1>1, <1>2
  <2>2. CASE i \in 1 .. Len(inbox)
    <3>1. \E j \in DOMAIN inbox : j > i /\ inbox[j].op = "gone"
      BY <1>2, <1>5, <2>2 DEF Settled
    <3> QED BY <2>2, <3>1, <1>3
  <2> QED BY <1>2, <1>5, <2>1, <2>2
<1> QED BY <1>4, <1>5 DEF Settled, SettledBefore, EndsAfter

\* What is settled stays so while logind works through it.
LEMMA SettledHandled ==
  ASSUME TypeOK, LogindHandles
  PROVE  /\ Settled => Settled'
         /\ SettledBefore /\ Len(inbox) # 1 => SettledBefore'
<1>1. PICK o \in Outcomes(inbox[1], logind, present) : logind' = o.next
  BY HandledFirst
<1>2. /\ inbox[1] \in Requests /\ logind \in SessionState(Device) /\ present \in SUBSET Device
      /\ Len(inbox) \in Nat \ {0}
      /\ DOMAIN inbox = 1 .. Len(inbox) /\ DOMAIN inbox' = 1 .. Len(inbox) - 1
      /\ Len(inbox') = Len(inbox) - 1
      /\ \A i \in 1 .. Len(inbox) - 1 : inbox'[i] = inbox[i + 1]
  BY HandledFirst DEF TypeOK
<1>3. /\ logind'.controller => logind.controller \/ inbox[1].op = "take_control"
      /\ inbox[1].op = "gone" => ~logind'.controller
  BY <1>1, <1>2, OutcomesControl DEF Requests, Released
<1>4. ASSUME NEW i \in Nat, EndsAfter(i + 1)
      PROVE  EndsAfter(i)'
  <2>1. PICK j \in 1 .. Len(inbox) : j > i + 1 /\ inbox[j].op = "gone"
    BY <1>2, <1>4 DEF EndsAfter
  <2>2. j - 1 \in 1 .. Len(inbox) - 1 /\ j - 1 > i /\ inbox'[j - 1].op = "gone"
    BY <1>2, <2>1
  <2> QED BY <1>2, <2>2 DEF EndsAfter
<1>5. ASSUME EndsAfter(0), inbox[1].op # "gone"
      PROVE  EndsAfter(0)'
  <2>1. PICK j \in 1 .. Len(inbox) : j > 0 /\ inbox[j].op = "gone"
    BY <1>2, <1>5 DEF EndsAfter
  <2>2. j - 1 \in 1 .. Len(inbox) - 1 /\ j - 1 > 0 /\ inbox'[j - 1].op = "gone"
    BY <1>2, <1>5, <2>1
  <2> QED BY <1>2, <2>2 DEF EndsAfter
<1>6. ASSUME logind.controller => EndsAfter(0),
             inbox[1].op = "take_control" => EndsAfter(1),
             logind'.controller
      PROVE  EndsAfter(0)'
  <2>1. CASE inbox[1].op = "take_control"
    BY <1>4, <1>6, <2>1
  <2>2. CASE inbox[1].op # "take_control"
    BY <1>3, <1>5, <1>6, <2>2
  <2> QED BY <2>1, <2>2
<1>7. ASSUME Settled
      PROVE  Settled'
  <2>1. logind'.controller => EndsAfter(0)'
    BY <1>2, <1>6, <1>7 DEF Settled, EndsAfter
  <2>2. ASSUME NEW i \in 1 .. Len(inbox) - 1, inbox'[i].op = "take_control"
        PROVE  EndsAfter(i)'
    <3>1. i + 1 \in DOMAIN inbox /\ inbox[i + 1].op = "take_control" /\ i \in Nat
      BY <1>2, <2>2
    <3>2. EndsAfter(i + 1)
      BY <1>7, <3>1 DEF Settled, EndsAfter
    <3> QED BY <1>4, <3>1, <3>2
  <2> QED BY <1>2, <2>1, <2>2 DEF Settled, EndsAfter
<1>8. ASSUME SettledBefore, Len(inbox) # 1
      PROVE  SettledBefore'
  <2>1. logind'.controller => EndsAfter(0)'
    BY <1>2, <1>6, <1>8 DEF SettledBefore
  <2>2. ASSUME NEW i \in 1 .. Len(inbox) - 1, inbox'[i].op = "take_control", i # Len(inbox')
        PROVE  EndsAfter(i)'
    <3>1. i + 1 \in DOMAIN inbox /\ inbox[i + 1].op = "take_control" /\ i \in Nat
          /\ i + 1 # Len(inbox)
      BY <1>2, <2>2
    <3>2. EndsAfter(i + 1)
      BY <1>8, <3>1 DEF SettledBefore
    <3> QED BY <1>4, <3>1, <3>2
  <2> QED BY <1>2, <2>1, <2>2 DEF SettledBefore
<1> QED BY <1>7, <1>8

-----------------------------------------------------------------------------
(* Every step keeps the parts of the invariant *)

\* The last request stays the one the call waits for.
LEMMA RequestStep ==
  ASSUME IInv, RequestIsLast, [Next]_vars
  PROVE  RequestIsLast'
<1> USE DEF IInv
<1>1. CASE Moves
  <2>1. call'.io # "wait"
    BY <1>1, MovesAsk
  <2> QED BY <2>1 DEF RequestIsLast
<1>2. CASE Returns
  <2>1. call'.io # "wait"
    BY <1>2, ReturnsKeep
  <2> QED BY <2>1 DEF RequestIsLast
<1>3. CASE CallSent
  <2>1. /\ inbox' = Append(inbox, Request(call)) /\ inbox \in Seq(Requests)
        /\ Request(call) \in Requests
    BY <1>3, RequestType DEF CallSent, CallShape, TypeOK
  <2>2. inbox'[Len(inbox')] = Request(call)
    BY <2>1
  <2>3. Request(call') = Request(call)
    BY <1>3 DEF CallSent, Request, TypeOK, CallRecords
  <2> QED BY <2>2, <2>3 DEF RequestIsLast
<1>4. CASE LogindHandles
  <2>1. /\ inbox \in Seq(Requests) /\ inbox # <<>> /\ inbox' = Tail(inbox)
        /\ call' = call /\ sock' = sock
    BY <1>4, HandledFirst DEF TypeOK
  <2>2. inbox' # <<>> => inbox'[Len(inbox')] = inbox[Len(inbox)]
    BY <2>1
  <2>3. Request(call') = Request(call)
    BY <2>1 DEF Request
  <2> QED BY <2>1, <2>2, <2>3 DEF RequestIsLast
<1>5. CASE BusGoes
  BY <1>5 DEF BusGoes, RequestIsLast
<1>6. CASE PumpSignals \/ Hardware \/ UNCHANGED vars
  <2>1. UNCHANGED <<call, sock, inbox>>
    BY <1>6, HardwareKeeps DEF PumpSignals, vars
  <2>2. Request(call') = Request(call)
    BY <2>1 DEF Request
  <2> QED BY <2>1, <2>2 DEF RequestIsLast
<1> QED BY <1>1, <1>2, <1>3, <1>4, <1>5, <1>6, StepKinds

\* Whoever is not the controller has nothing granted.
LEMMA GrantsStep ==
  ASSUME IInv, GrantsNeedControl, [Next]_vars
  PROVE  GrantsNeedControl'
<1> USE DEF IInv
<1>1. CASE LogindHandles
  <2>1. PICK o \in Outcomes(inbox[1], logind, present) : logind' = o.next
    BY <1>1, HandledFirst
  <2>2. /\ inbox[1] \in Requests /\ logind \in SessionState(Device)
        /\ present \in SUBSET Device
    BY <1>1, HandledFirst DEF TypeOK
  <2>3. Released.granted = {} /\ ~Released.controller
    BY DEF Released
  <2>4. CASE inbox[1].op \in {"gone", "release_control"}
    BY <2>1, <2>2, <2>3, <2>4, OutcomesControl DEF GrantsNeedControl
  <2>5. CASE inbox[1].op \in {"get_session_path", "take_control"}
    BY <2>1, <2>2, <2>5, OutcomesControl DEF GrantsNeedControl
  <2>6. CASE inbox[1].op = "take_device"
    BY <2>1, <2>2, <2>6, OutcomesControl DEF GrantsNeedControl
  <2>7. CASE inbox[1].op = "release_device"
    <3>1. logind'.granted \subseteq logind.granted
      BY <2>1, <2>2, <2>7, OutcomesControl
    <3>2. logind'.controller = logind.controller
      BY <2>1, <2>2, <2>7, OutcomesControl
    <3> QED BY <3>1, <3>2 DEF GrantsNeedControl
  <2> QED BY <2>2, <2>4, <2>5, <2>6, <2>7 DEF Requests
<1>2. CASE Hardware
  BY <1>2, HardwareKeeps DEF GrantsNeedControl
<1>3. CASE Moves \/ Returns \/ CallSent \/ BusGoes \/ PumpSignals \/ UNCHANGED vars
  <2>1. logind' = logind
    BY <1>3, MovesKeep, ReturnsKeep DEF CallSent, BusGoes, PumpSignals, vars, outside
  <2> QED BY <2>1 DEF GrantsNeedControl
<1> QED BY <1>1, <1>2, <1>3, StepKinds

\* A take that logind answered the undoing of stays undone.
LEMMA UndoStep ==
  ASSUME IInv, RequestIsLast, GrantsNeedControl, UndoSettled, [Next]_vars
  PROVE  UndoSettled'
<1> USE DEF IInv
<1> DEFINE NoTake == \A i \in DOMAIN inbox : inbox[i].op # "take_device"
<1>0. ASSUME UNCHANGED <<call, answer, inbox>>, logind'.granted \subseteq logind.granted
      PROVE  UndoSettled'
  BY <1>0 DEF UndoSettled, UndoAnswered
<1>1. CASE Moves
  <2>1. ~UndoAnswered'
    BY <1>1, MovesAsk DEF UndoAnswered
  <2> QED BY <2>1 DEF UndoSettled
<1>2. CASE Returns
  <2>1. UNCHANGED <<inbox, logind>> /\ call'.fn = call.fn /\ call'.at = call.at
        /\ call'.dev = call.dev /\ call'.io = "done"
    BY <1>2, ReturnsKeep
  <2>2. SUFFICES ASSUME UndoAnswered'
                 PROVE  UndoAnswered
    BY <2>1 DEF UndoSettled
  <2>3. call'.rc \in {"ok", "EINVAL"}
    BY <2>1, <2>2 DEF UndoAnswered
  <2>4. CallAnswered
    BY <1>2, <2>3, ReturnKeeps DEF Returns, CallRefused, CallSendTimedOut, CallLost,
      CallTimedOut, CallTorn
  <2>5. call.io = "wait" /\ answer \in {"ok", "EINVAL"}
    BY <2>3, <2>4, ReturnKeeps DEF CallAnswered, NoUsableFd, NoUsablePath
  <2> QED BY <2>1, <2>2, <2>5 DEF UndoAnswered
<1>3. CASE CallSent
  <2>1. call'.io = "wait" /\ answer' = "none"
    BY <1>3 DEF CallSent, TypeOK, CallRecords
  <2> QED BY <2>1 DEF UndoSettled, UndoAnswered
<1>4. CASE LogindHandles
  <2>1. PICK o \in Outcomes(inbox[1], logind, present) :
          /\ logind' = o.next
          /\ answer' = IF Len(inbox) = 1 /\ call.io = "wait" /\ sock = "open"
                       THEN o.reply ELSE answer
    BY <1>4, HandledFirst
  <2>2. /\ inbox[1] \in Requests /\ logind \in SessionState(Device)
        /\ present \in SUBSET Device /\ call' = call
        /\ Len(inbox) \in Nat \ {0} /\ DOMAIN inbox = 1 .. Len(inbox)
        /\ inbox # <<>> /\ DOMAIN inbox' = 1 .. Len(inbox) - 1
        /\ \A i \in 1 .. Len(inbox) - 1 : inbox'[i] = inbox[i + 1]
    BY <1>4, HandledFirst DEF TypeOK
  <2>3. ASSUME UndoAnswered
        PROVE  UndoSettled'
    <3>1. call.dev \notin logind.granted /\ NoTake
      BY <2>3 DEF UndoSettled
    <3>2. inbox[1].op # "take_device"
      BY <2>2, <3>1
    <3>3. logind'.granted \subseteq logind.granted
      BY <2>1, <2>2, <3>2, OutcomesControl DEF Requests, Released
    <3>4. NoTake'
      BY <2>2, <3>1
    <3> QED BY <2>2, <3>1, <3>3, <3>4 DEF UndoSettled
  <2>4. ASSUME ~UndoAnswered, UndoAnswered'
        PROVE  UndoSettled'
    <3>1. Len(inbox) = 1 /\ call.io = "wait" /\ sock = "open" /\ answer' = o.reply
          /\ o.reply \in {"ok", "EINVAL"} /\ call.fn = "take"
          /\ call.at \in {"undo_take", "release_control"}
      BY <2>1, <2>2, <2>4 DEF UndoAnswered
    <3>2. inbox[1] = Request(call)
      BY <2>2, <3>1 DEF RequestIsLast
    <3>3. call.dev \notin logind'.granted
      <4>1. CASE call.at = "undo_take"
        <5>1. inbox[1].op = "release_device" /\ inbox[1].dev = call.dev
          BY <3>2, <4>1 DEF Request, DeviceStages
        <5>2. \/ o.reply = "EINVAL" /\ o.next = logind
                 /\ (~logind.controller \/ call.dev \notin logind.granted)
              \/ o.reply = "ok" /\ o.next.granted = logind.granted \ {call.dev}
          BY <2>2, <3>1, <5>1, OutcomesControl
        <5> QED BY <2>1, <5>2 DEF GrantsNeedControl
      <4>2. CASE call.at = "release_control"
        <5>1. inbox[1].op = "release_control"
          BY <3>2, <4>2 DEF Request
        <5>2. \/ o.reply = "EINVAL" /\ o.next = logind /\ ~logind.controller
              \/ o.reply = "ok" /\ o.next = Released
          BY <2>2, <3>1, <5>1, OutcomesControl
        <5> QED BY <2>1, <5>2 DEF GrantsNeedControl, Released
      <4> QED BY <3>1, <4>1, <4>2
    <3>4. NoTake'
      BY <2>2, <3>1
    <3> QED BY <2>2, <3>3, <3>4 DEF UndoSettled
  <2> QED BY <2>3, <2>4 DEF UndoSettled
<1>5. CASE BusGoes
  <2>1. /\ UNCHANGED <<call, answer, logind>>
        /\ \E n \in 0 .. Len(inbox) : inbox' = Append(SubSeq(inbox, 1, n), Gone)
    BY <1>5 DEF BusGoes, outside
  <2>2. PICK n \in 0 .. Len(inbox) : inbox' = Append(SubSeq(inbox, 1, n), Gone)
    BY <2>1
  <2>3. NoTake => NoTake'
    <3>1. inbox \in Seq(Requests) /\ Len(inbox) \in Nat /\ n \in Nat /\ n <= Len(inbox)
      BY DEF TypeOK
    <3>2. /\ SubSeq(inbox, 1, n) \in Seq(Requests) /\ Len(SubSeq(inbox, 1, n)) = n
          /\ \A i \in 1 .. n : SubSeq(inbox, 1, n)[i] = inbox[i]
      BY <3>1
    <3>3. DOMAIN inbox' = 1 .. n + 1 /\ inbox'[n + 1] = Gone
          /\ \A i \in 1 .. n : inbox'[i] = inbox[i]
      BY <2>2, <3>1, <3>2
    <3>4. \A i \in 1 .. n + 1 : i \in 1 .. n \/ i = n + 1
      BY <3>1
    <3>5. DOMAIN inbox = 1 .. Len(inbox) /\ \A i \in 1 .. n : i \in 1 .. Len(inbox)
      BY <3>1
    <3> QED BY <3>3, <3>4, <3>5 DEF Gone
  <2> QED BY <2>1, <2>3 DEF UndoSettled, UndoAnswered
<1>6. CASE PumpSignals \/ Hardware \/ UNCHANGED vars
  <2>1. UNCHANGED <<call, answer, inbox>> /\ logind'.granted \subseteq logind.granted
    BY <1>6, HardwareKeeps DEF PumpSignals, vars, outside
  <2> QED BY <1>0, <2>1
<1> QED BY <1>1, <1>2, <1>3, <1>4, <1>5, <1>6, StepKinds

\* The close of a lost connection stays behind everything else.
LEMMA LostStep ==
  ASSUME IInv, LostIsSettled, [Next]_vars
  PROVE  LostIsSettled'
<1> USE DEF IInv
<1>1. CASE LogindHandles
  BY <1>1, HandledFirst, SettledHandled DEF LostIsSettled
<1>2. CASE BusGoes
  <2>1. PICK n \in 0 .. Len(inbox) : inbox' = Append(SubSeq(inbox, 1, n), Gone)
    BY <1>2 DEF BusGoes
  <2>2. inbox \in Seq(Requests) /\ n \in Nat /\ n <= Len(inbox)
    BY DEF TypeOK
  <2>3. SubSeq(inbox, 1, n) \in Seq(Requests)
    BY <2>2
  <2> QED BY <2>1, <2>3, SettledGone DEF LostIsSettled
<1>3. CASE CloseBus
  <2>1. logind' = logind /\ inbox \in Seq(Requests)
    BY <1>3 DEF CloseBus, outside, TypeOK
  <2>2. CASE sock = "open"
    <3>1. inbox' = Append(inbox, Gone)
      BY <1>3, <2>2 DEF CloseBus, InboxAfterClose
    <3> QED BY <2>1, <3>1, SettledGone DEF LostIsSettled
  <2>3. CASE sock # "open"
    <3>1. inbox' = inbox
      BY <1>3, <2>3 DEF CloseBus, InboxAfterClose
    <3> QED BY <2>1, <2>3, <3>1, SettledSame DEF LostIsSettled
  <2> QED BY <2>2, <2>3
<1>4. CASE CallSent
  BY <1>4 DEF CallSent, LostIsSettled
<1>5. CASE OpenSystemBus
  BY <1>5, SettledSame DEF OpenSystemBus, LostIsSettled, outside
<1>6. CASE (Moves /\ ~CloseBus /\ ~OpenSystemBus) \/ Returns \/ PumpSignals \/ Hardware \/ UNCHANGED vars
  <2>1. UNCHANGED <<inbox, sock>> /\ logind'.controller = logind.controller
    BY <1>6, MovesKeep, ReturnsKeep, HardwareKeeps DEF PumpSignals, vars, outside
  <2> QED BY <2>1, SettledSame DEF LostIsSettled
<1> QED BY <1>1, <1>2, <1>3, <1>4, <1>5, <1>6, StepKinds

\* A step of the public layer finds control = 0 only where it is true.
LEMMA ZeroMoves ==
  ASSUME IInv, LostIsSettled, ZeroIsSettled, ReleaseKnown, Moves
  PROVE  ZeroIsSettled'
<1> USE DEF IInv
<1> DEFINE Kept == UNCHANGED <<inbox, sock, dead, torn, logind, table>>
<1>0. ASSUME Kept, Settled
      PROVE  ZeroIsSettled'
  BY <1>0, SettledSame DEF ZeroIsSettled
<1>1. ASSUME Kept, control' = 0 => control = 0, call.fn # "release", ~Taking
      PROVE  ZeroIsSettled'
  <2> SUFFICES ASSUME Watched', control' = 0
               PROVE  Settled'
    BY DEF ZeroIsSettled
  <2>1. Watched /\ control = 0
    BY <1>1 DEF Watched
  <2>2. Settled
    BY <1>1, <2>1 DEF ZeroIsSettled
  <2> QED BY <1>1, <2>2, SettledSame
<1>2. CASE InitBegin
  <2>1. sock' # "open"
    BY <1>2 DEF InitBegin, StageOwns, link
  <2> QED BY <2>1 DEF ZeroIsSettled, Watched
<1>3. CASE OpenSystemBus
  <2>1. sock = "none" /\ UNCHANGED <<inbox, logind>>
    BY <1>3 DEF OpenSystemBus, StageOwns, outside
  <2>2. Settled'
    BY <2>1, SettledSame DEF LostIsSettled
  <2> QED BY <2>2 DEF ZeroIsSettled
<1>4. CASE SessionPathReturned
  <2>1. Kept /\ control' = control /\ call.at = "get_session_path" /\ call.fn # "release"
    BY <1>4, NoCallFields DEF SessionPathReturned, Returned, CallShape, link, local, outside
  <2> QED BY <1>1, <2>1 DEF Taking
<1>5. CASE TakeControlReturned
  <2>1. Kept /\ call.at = "take_control" /\ call.io = "done" /\ call.fn # "release"
    BY <1>5 DEF TakeControlReturned, Returned, CallShape, link, outside
  <2>2. control' = 0 => control = 0 /\ call.rc \notin {"ok", "ETIMEDOUT"}
    BY <1>5 DEF TakeControlReturned
  <2>3. CASE control' = 0
    BY <1>1, <2>1, <2>2, <2>3 DEF Taking
  <2> QED BY <2>3 DEF ZeroIsSettled
<1>6. CASE TakeDeviceGot
  <2>1. control' # 0
    BY <1>6 DEF TakeDeviceGot, Returned, StageOwns
  <2> QED BY <2>1 DEF ZeroIsSettled
<1>7. CASE TakeDeviceFailed
  <2>1. control # 0 /\ table' = table /\ call.fn # "release"
    BY <1>7 DEF TakeDeviceFailed, Returned, StageOwns, CallShape
  <2>2. CASE held = <<>>
    <3>1. control' = control \/ "release_control" \notin table
      BY <1>7, <2>1, <2>2 DEF TakeDeviceFailed, DropControl
    <3> QED BY <2>1, <3>1 DEF ZeroIsSettled, Watched
  <2>3. CASE held # <<>>
    <3>1. control' # 0
      BY <1>7, <2>1, <2>3 DEF TakeDeviceFailed
    <3> QED BY <3>1 DEF ZeroIsSettled
  <2> QED BY <2>2, <2>3
<1>8. CASE UndoTakeReturned
  <2>1. Kept /\ control' = control /\ call.at = "undo_take" /\ call.fn # "release"
    BY <1>8 DEF UndoTakeReturned, Returned, CallShape, link, local, outside
  <2> QED BY <1>1, <2>1 DEF Taking
<1>9. CASE ReleaseDeviceReturned
  <2>1. Kept /\ call.at = "release_device" /\ call.fn # "release"
    BY <1>9 DEF ReleaseDeviceReturned, Returned, CallShape, link, outside
  <2>2. control' = 0 => control = 0 \/ "release_control" \notin table
    BY <1>9, <2>1 DEF ReleaseDeviceReturned, DropControl
  <2>3. CASE control' = 0 => control = 0
    BY <1>1, <2>1, <2>3 DEF Taking
  <2>4. CASE "release_control" \notin table
    BY <2>1, <2>4 DEF ZeroIsSettled, Watched
  <2> QED BY <2>2, <2>3, <2>4
<1>10. CASE ReleaseControlReturned
  <2>1. Kept /\ call.at = "release_control" /\ call.io = "done"
    BY <1>10 DEF ReleaseControlReturned, Returned, link, outside
  <2>2. CASE call.fn = "release"
    <3>1. call'.fn = "release"
      BY <1>10, <2>2 DEF ReleaseControlReturned, AfterDrop, TypeOK, CallRecords
    <3> QED BY <3>1 DEF ZeroIsSettled
  <2>3. CASE call.fn # "release" /\ (control' = 0 => control = 0)
    BY <1>1, <2>1, <2>3 DEF Taking
  <2>4. CASE control' = 0 /\ control # 0
    <3>1. call.rc \in {"ok", "EINVAL", "ECONNRESET", "ENOTCONN"}
      BY <1>10, <2>4 DEF ReleaseControlReturned
    <3>2. Watched => Settled
      BY <2>1, <3>1 DEF ReleaseKnown
    <3>3. CASE Watched
      BY <1>0, <2>1, <3>2, <3>3
    <3>4. CASE ~Watched
      BY <2>1, <3>4 DEF Watched, ZeroIsSettled
    <3> QED BY <3>3, <3>4
  <2> QED BY <2>2, <2>3, <2>4
<1>11. CASE CloseBus
  BY <1>11 DEF CloseBus, ZeroIsSettled, Watched
<1>12. CASE ReleaseBegin
  <2> DEFINE c == [NoCall EXCEPT !.fn = "release"]
  <2>1. AfterDrop(c).fn = "release" /\ Calling(c, "release_control").fn = "release"
    BY DEF AfterDrop, Calling, NoCall
  <2>2. call'.fn = "release"
    BY <1>12, <2>1, DropControlCases DEF ReleaseBegin
  <2> QED BY <2>2 DEF ZeroIsSettled
<1>13. ASSUME NEW d \in Asked, TakeDeviceBegin(d) \/ ReleaseDeviceBegin(d)
       PROVE  ZeroIsSettled'
  <2>1. Kept /\ control' = control /\ call = NoCall
    BY <1>13 DEF TakeDeviceBegin, ReleaseDeviceBegin, Idle, link, local, outside
  <2>2. call.at = "close_bus" /\ call.fn # "release"
    BY <2>1, NoCallFields
  <2> QED BY <1>1, <2>1, <2>2 DEF Taking
<1> QED BY <1>2, <1>3, <1>4, <1>5, <1>6, <1>7, <1>8, <1>9, <1>10, <1>11,
           <1>12, <1>13 DEF Moves

\* Between the steps of the public layer control = 0 stays true, a TakeControl
\* that is waited for decides alone, and an answered ReleaseControl counts.
LEMMA ControlStep ==
  ASSUME CInv, [Next]_vars
  PROVE  ZeroIsSettled' /\ TakingKnown' /\ ReleaseKnown'
<1> USE DEF CInv, IInv
<1>1. CASE Moves
  <2>1. ZeroIsSettled'
    BY <1>1, ZeroMoves
  <2>2. TakingKnown' /\ ReleaseKnown'
    BY <1>1, MovesAsk DEF TakingKnown, ReleaseKnown
  <2> QED BY <2>1, <2>2
<1>2. CASE BusGoes
  BY <1>2 DEF BusGoes, ZeroIsSettled, TakingKnown, ReleaseKnown, Watched
<1>3. CASE PumpSignals
  BY <1>3 DEF PumpSignals, ZeroIsSettled, TakingKnown, ReleaseKnown, Watched
<1>4. CASE Hardware \/ UNCHANGED vars
  <2>1. /\ UNCHANGED <<inbox, sock, call, control, table, dead, torn, answer>>
        /\ logind'.controller = logind.controller
    BY <1>4, HardwareKeeps DEF vars
  <2>2. /\ Watched' = Watched /\ Taking' = Taking
        /\ Settled => Settled'
        /\ SettledBefore => SettledBefore'
    BY <2>1, SettledSame DEF Watched, Taking
  <2>3. ZeroIsSettled'
    BY <2>1, <2>2 DEF ZeroIsSettled
  <2>4. TakingKnown'
    BY <2>1, <2>2 DEF TakingKnown
  <2>5. ReleaseKnown'
    BY <2>1, <2>2 DEF ReleaseKnown
  <2> QED BY <2>3, <2>4, <2>5
<1>5. CASE CallSent
  <2>1. /\ inbox' = Append(inbox, Request(call)) /\ inbox \in Seq(Requests)
        /\ logind' = logind /\ Watched' = Watched /\ control' = control
        /\ Request(call) \in Requests /\ answer' = "none"
    BY <1>5, RequestType DEF CallSent, CallShape, TypeOK, Watched, local, outside
  <2>2. call'.at = call.at /\ call'.fn = call.fn /\ call'.io = "wait" /\ call.io = "send"
    BY <1>5 DEF CallSent, TypeOK, CallRecords
  <2>3. Watched /\ control = 0 /\ call.fn # "release" => Settled
    BY <2>2 DEF ZeroIsSettled, Taking
  <2>4. ZeroIsSettled'
    <3>1. CASE call.at = "take_control"
      BY <2>2, <3>1 DEF ZeroIsSettled, Taking
    <3>2. CASE call.at # "take_control"
      <4>1. Request(call).op # "take_control"
        BY <3>2 DEF Request
      <4> QED BY <2>1, <2>2, <2>3, <4>1, SettledSent DEF ZeroIsSettled
    <3> QED BY <3>1, <3>2
  <2>5. TakingKnown'
    <3>1. inbox' # <<>>
      BY <2>1
    <3>2. call.at = "take_control" => call.fn # "release"
      BY DEF CallShape
    <3> QED BY <2>1, <2>2, <2>3, <3>1, <3>2, SettledSent DEF TakingKnown
  <2>6. ReleaseKnown'
    BY <2>1, <2>2 DEF ReleaseKnown
  <2> QED BY <2>4, <2>5, <2>6
<1>6. CASE Returns
  <2>1. /\ UNCHANGED <<inbox, sock, logind, control, table>>
        /\ call'.fn = call.fn /\ call'.at = call.at /\ call'.io = "done"
    BY <1>6, ReturnsKeep
  <2>2. TakingKnown'
    BY <2>1 DEF TakingKnown
  <2>3. Settled => Settled'
    BY <2>1, SettledSame
  <2>4. CASE CallRefused \/ CallLost \/ CallTorn
    <3>1. ~Watched'
      BY <2>4 DEF CallRefused, CallLost, CallTorn, Watched, link
    <3> QED BY <2>2, <3>1 DEF ZeroIsSettled, ReleaseKnown
  <2>5. CASE CallSendTimedOut \/ CallTimedOut
    <3>1. call'.rc = "ETIMEDOUT" /\ (Watched' => Watched)
      BY <2>5, ReturnKeeps DEF CallSendTimedOut, CallTimedOut, Watched, local
    <3>2. ZeroIsSettled'
      <4>1. CASE call.at = "take_control"
        BY <2>1, <3>1, <4>1 DEF ZeroIsSettled, Taking
      <4>2. CASE call.at # "take_control"
        BY <2>1, <2>3, <3>1, <4>2 DEF ZeroIsSettled, Taking
      <4> QED BY <4>1, <4>2
    <3>3. ReleaseKnown'
      BY <2>1, <3>1 DEF ReleaseKnown
    <3> QED BY <2>2, <3>2, <3>3
  <2>6. CASE CallAnswered
    <3>1. /\ call.io = "wait" /\ answer # "none" /\ Watched' = Watched
          /\ call'.rc = answer \/ (call.at \in {"take_device", "get_session_path"})
      BY <2>6, ReturnKeeps DEF CallAnswered, NoUsableFd, NoUsablePath, Watched, local
    <3>2. Watched => inbox = <<>>
      BY <3>1 DEF Watched, AnswerIsLast
    <3>3. inbox = <<>> /\ ~logind.controller => Settled
      BY DEF Settled
    <3>4. ZeroIsSettled'
      <4> SUFFICES ASSUME Watched, control = 0, call.fn # "release", ~Taking'
                   PROVE  Settled
        BY <2>1, <2>3, <3>1 DEF ZeroIsSettled
      <4>1. CASE call.at = "take_control"
        <5>1. answer # "ok"
          BY <2>1, <3>1, <4>1 DEF Taking
        <5> QED BY <3>1, <3>2, <3>3, <4>1, <5>1 DEF TakingKnown
      <4>2. CASE call.at # "take_control"
        BY <4>2 DEF ZeroIsSettled, Taking
      <4> QED BY <4>1, <4>2
    <3>5. ReleaseKnown'
      <4> SUFFICES ASSUME Watched, call.at = "release_control", answer # "EIO"
                   PROVE  Settled
        BY <2>1, <2>3, <3>1 DEF ReleaseKnown
      <4> QED BY <3>1, <3>2, <3>3 DEF ReleaseKnown
    <3> QED BY <2>2, <3>4, <3>5
  <2> QED BY <1>6, <2>4, <2>5, <2>6 DEF Returns
<1>7. CASE LogindHandles
  <2>1. PICK o \in Outcomes(inbox[1], logind, present) :
          /\ logind' = o.next
          /\ answer' = IF Len(inbox) = 1 /\ call.io = "wait" /\ sock = "open"
                       THEN o.reply ELSE answer
    BY <1>7, HandledFirst
  <2>2. /\ inbox[1] \in Requests /\ logind \in SessionState(Device)
        /\ present \in SUBSET Device /\ inbox # <<>> /\ Len(inbox) \in Nat \ {0}
        /\ DOMAIN inbox = 1 .. Len(inbox) /\ Len(inbox') = Len(inbox) - 1
        /\ UNCHANGED <<call, control>> /\ Watched' = Watched /\ Taking' = Taking
    BY <1>7, HandledFirst DEF TypeOK, Watched, Taking
  <2>3. ZeroIsSettled'
    BY <1>7, <2>2, SettledHandled DEF ZeroIsSettled
  <2>4. TakingKnown'
    <3> SUFFICES ASSUME Watched, control = 0, call.at = "take_control", call.io = "wait"
                 PROVE  /\ inbox' # <<>> => SettledBefore'
                        /\ inbox' = <<>> => answer' = "ok" \/ ~logind'.controller
      BY <2>2 DEF TakingKnown
    <3>1. SettledBefore
      BY <2>2 DEF TakingKnown
    <3>2. CASE Len(inbox) = 1
      <4>1. inbox[1].op = "take_control"
        BY <2>2, <3>2 DEF RequestIsLast, Request, Watched
      <4>2. ~logind.controller
        BY <2>2, <3>1, <3>2, <4>1 DEF SettledBefore, EndsAfter
      <4>3. answer' = "ok" \/ ~logind'.controller
        BY <2>1, <2>2, <3>2, <4>1, <4>2, OutcomesControl DEF Watched
      <4>4. inbox' = <<>>
        BY <1>7, <3>2, HandledFirst DEF TypeOK
      <4> QED BY <4>3, <4>4
    <3>3. CASE Len(inbox) # 1
      BY <1>7, <2>2, <3>1, <3>3, SettledHandled
    <3> QED BY <3>2, <3>3
  <2>5. ReleaseKnown'
    <3>1. Watched /\ call.at = "release_control" /\ call.io = "done"
            => call.rc \in {"ETIMEDOUT", "EIO", "EPROTO", "EBADF"} \/ Settled'
      BY <1>7, SettledHandled DEF ReleaseKnown
    <3>2. ASSUME Watched, call.at = "release_control", call.io = "wait"
          PROVE  answer' \in {"none", "EIO"} \/ ~logind'.controller
      <4>1. CASE Len(inbox) = 1
        <5>1. inbox[1].op = "release_control"
          BY <2>2, <3>2, <4>1 DEF RequestIsLast, Request, Watched
        <5>2. answer' = o.reply
          BY <2>1, <3>2, <4>1 DEF Watched
        <5> QED BY <2>1, <2>2, <5>1, <5>2, OutcomesControl DEF Released
      <4>2. CASE Len(inbox) # 1
        BY <2>1, <2>2, <3>2, <4>2 DEF AnswerIsLast, Watched
      <4> QED BY <4>1, <4>2
    <3> QED BY <2>2, <3>1, <3>2 DEF ReleaseKnown
  <2> QED BY <2>3, <2>4, <2>5
<1> QED BY <1>1, <1>2, <1>3, <1>4, <1>5, <1>6, <1>7, StepKinds

-----------------------------------------------------------------------------
(* The theorems *)

\* The invariant holds at first and every step keeps it.
LEMMA ControlInvariant == Spec => []CInv
<1>1. Init => IInv
  BY InitIInv
<1>2. Init => RequestIsLast /\ GrantsNeedControl /\ UndoSettled
  BY DEF Init, NoCall, Released, RequestIsLast, GrantsNeedControl, UndoSettled, UndoAnswered
<1>3. Init => LostIsSettled /\ ZeroIsSettled /\ TakingKnown /\ ReleaseKnown
  BY DEF Init, NoCall, Released, LostIsSettled, ZeroIsSettled, TakingKnown, ReleaseKnown,
    Settled, Watched
<1>4. CInv /\ [Next]_vars => CInv'
  BY StepIInv, RequestStep, GrantsStep, UndoStep, LostStep, ControlStep DEF CInv
<1>5. Init => CInv
  BY <1>1, <1>2, <1>3 DEF CInv
<1> QED BY <1>4, <1>5, PTL DEF Spec

\* Between calls control = 0 means the console is not left muted: logind does
\* not have us as controller and nothing on its way will make it so, unless
\* the close of the connection is; whatever timed out, was refused, lost or
\* answered late (samvada.cyr:44, :226-278).
THEOREM ControlIsAccounted == Spec => []ControlAccounted
<1>1. CInv => ControlAccounted
  <2> SUFFICES ASSUME CInv, Idle, control = 0,
                      sock = "open" => ~dead /\ ~torn /\ "release_control" \in table
               PROVE  Settled
    BY DEF ControlAccounted
  <2>1. CASE sock = "open"
    <3>1. Watched /\ ~Taking /\ call.fn # "release"
      BY <2>1, NoCallFields DEF Watched, Taking, Idle
    <3> QED BY <3>1 DEF CInv, ZeroIsSettled
  <2>2. CASE sock # "open"
    BY <2>2 DEF CInv, LostIsSettled
  <2> QED BY <2>1, <2>2
<1> QED BY <1>1, ControlInvariant, PTL

\* A take that failed and was undone with an answer leaves no grant behind,
\* not even one of an earlier take that logind handled late
\* (samvada.cyr:326-364, :377-379).
THEOREM FailedTakesUndone == Spec => []FailedTakeUndone
<1>1. CInv => FailedTakeUndone
  BY DEF CInv, UndoSettled, UndoAnswered, FailedTakeUndone
<1> QED BY <1>1, ControlInvariant, PTL
=============================================================================

--------------------------- MODULE SamvadaProofs ----------------------------
(***************************************************************************)
(* Theorems about Samvada, for every number of devices, every table, every *)
(* bound: the type invariant, HeldIsMine, HeldOwesRelease, NoTableNoBus    *)
(* and NeverRevoked.                                                       *)
(***************************************************************************)
EXTENDS Samvada, TLAPS, WellFoundedInduction

(***************************************************************************)
(* The inductive invariant.                                                *)
(***************************************************************************)

\* Which stages a public function goes through.
CallShape ==
  /\ call.fn = "none" => call = NoCall
  /\ call.at = "close_bus" => call.io = "done"
  /\ call.fn = "init" <=> call.fn # "none" /\ call.fn # "release" /\
       call.at \in {"open_system_bus", "get_session_path", "close_bus"}
  /\ call.fn = "take" => call.at \in {"take_control", "take_device",
                                      "undo_take", "release_control"}
  /\ call.fn = "release_device" => call.at \in {"release_device", "release_control"}
  /\ call.fn = "release" => call.at \in {"release_control", "close_bus"}
  /\ call.at \in {"take_control", "take_device", "undo_take"} => call.fn = "take"
  /\ call.at = "release_device" => call.fn = "release_device"

\* When control is being taken or given back, when it is needed, and what
\* there is before the table and the bus are.
StageOwns ==
  /\ call.at \in {"take_control", "release_control"} /\ call.fn # "release" => held = <<>>
  /\ call.at = "take_device" => control # 0
  /\ call.fn = "init" => held = <<>> /\ control = 0
  /\ call.at = "open_system_bus" => ~bus /\ sock = "none"
  /\ table = {} => /\ call.fn = "none" /\ ~bus /\ sock = "none"
                   /\ held = <<>> /\ control = 0

\* A device in use is in the table; the one a call is about is not in use.
MineIsHeld ==
  /\ \A d \in mine : Key(d) \in Range(held)
  /\ call.fn = "release" => mine = {}
  /\ call.at \in {"take_control", "take_device", "undo_take", "release_device"}
       => call.dev \notin mine

\* The reply a call waits for comes when logind has nothing left to handle.
AnswerIsLast ==
  \/ sock = "lost"
  \/ inbox = <<>>
  \/ /\ call.io = "wait" => answer = "none"
     /\ call.at = "take_device" /\ call.io = "done" => call.rc # "ok"

\* Nothing on its way to logind takes away a device in use.
InboxHarmless ==
  \/ sock = "lost"
  \/ \A i \in DOMAIN inbox :
       /\ inbox[i].op \in {"gone", "release_control"} => mine = {}
       /\ inbox[i].op = "release_device" => inbox[i].dev \notin mine

\* The table lists each device in use once and has room for the one being
\* taken; until the call returns it may still hold the one being released.
HeldTable ==
  /\ IsInjective(held)
  /\ Len(held) <= HeldCap
  /\ call.fn = "take" => Len(held) < HeldCap /\ Key(call.dev) \notin Range(held)
  /\ call.fn # "release" =>
       \A v \in Range(held) : \/ \E d \in mine : v = Key(d)
                              \/ call.at = "release_device" /\ v = Key(call.dev)

IInv == /\ TypeOK
        /\ CallShape
        /\ HeldOwesRelease
        /\ StageOwns
        /\ MineIsHeld
        /\ HeldTable
        /\ AnswerIsLast
        /\ InboxHarmless

-----------------------------------------------------------------------------
(* Facts about the operators *)

\* The key of a device is a natural number.
LEMMA KeyType == \A d \in Device : Key(d) \in Nat
<1> SUFFICES ASSUME NEW a \in 0 .. UintMax, NEW b \in 0 .. UintMax
            PROVE  a * (UintMax + 1) + b \in Nat
  BY DEF Key, Device
<1>1. UintMax + 1 \in Nat /\ a \in Nat /\ b \in Nat
  BY ConstantsOK
<1>2. a * (UintMax + 1) \in Nat
  BY <1>1
<1> QED BY <1>1, <1>2

\* Two devices in range have different keys: (major << 32) | minor loses
\* nothing (samvada.cyr:95, :106).
THEOREM KeyInjective ==
  \A c, d \in Device : Key(c) = Key(d) => c = d
<1> SUFFICES ASSUME NEW a \in 0 .. UintMax, NEW b \in 0 .. UintMax,
                    NEW x \in 0 .. UintMax, NEW y \in 0 .. UintMax,
                    a * (UintMax + 1) + b = x * (UintMax + 1) + y
             PROVE  a = x /\ b = y
  BY DEF Key, Device
<1> DEFINE W == UintMax + 1
<1>0. /\ W \in Nat /\ a \in Nat /\ b \in Nat /\ x \in Nat /\ y \in Nat
      /\ b < W /\ y < W
  BY ConstantsOK
<1>1. a * W + b = x * W + y
  OBVIOUS
<1> HIDE DEF W
<1>2. ASSUME NEW m \in Nat, NEW n \in Nat, m < n
      PROVE  m * W + W <= n * W
  <2>1. PICK k \in Nat : n = m + 1 + k
    <3>1. n - m - 1 \in Nat /\ n = m + 1 + (n - m - 1)
      BY <1>2
    <3> QED BY <3>1
  <2>2. (m + 1 + k) * W = m * W + W + k * W
    BY <1>0
  <2>3. k * W \in Nat /\ m * W \in Nat
    BY <1>0
  <2> QED BY <2>1, <2>2, <2>3, <1>0
<1>3. a * W \in Nat /\ x * W \in Nat
  BY <1>0
<1>4. ~(a < x)
  <2> SUFFICES ASSUME a < x PROVE FALSE
    OBVIOUS
  <2>1. a * W + W <= x * W
    BY <1>0, <1>2
  <2> QED BY <2>1, <1>0, <1>1, <1>3
<1>5. ~(x < a)
  <2> SUFFICES ASSUME x < a PROVE FALSE
    OBVIOUS
  <2>1. x * W + W <= a * W
    BY <1>0, <1>2
  <2> QED BY <2>1, <1>0, <1>1, <1>3
<1>6. a = x
  BY <1>0, <1>4, <1>5
<1> QED BY <1>0, <1>1, <1>3, <1>6

\* The swap-with-last delete keeps every other entry.
LEMMA HeldDelKeeps ==
  ASSUME NEW s \in Seq(Nat), NEW i \in DOMAIN s
  PROVE  /\ HeldDel(s, i) \in Seq(Nat)
         /\ \A v \in Range(s) : v # s[i] => v \in Range(HeldDel(s, i))
<1> DEFINE n == Len(s)
           t == [s EXCEPT ![i] = s[n]]
           u == HeldDel(s, i)
<1>1. n \in Nat /\ DOMAIN s = 1 .. n /\ i \in 1 .. n /\ s[n] \in Nat
  OBVIOUS
<1>2. t \in Seq(Nat) /\ Len(t) = n
  BY <1>1
<1>3. u \in Seq(Nat) /\ Len(u) = n - 1 /\ \A j \in 1 .. n - 1 : u[j] = t[j]
  BY <1>1, <1>2 DEF HeldDel
<1>4. ASSUME NEW v \in Range(s), v # s[i]
      PROVE  v \in Range(u)
  <2>1. PICK j \in 1 .. n : s[j] = v
    BY <1>1 DEF Range
  <2>2. CASE j = n
    <3>1. i \in 1 .. n - 1 /\ u[i] = v
      BY <1>1, <1>3, <1>4, <2>1, <2>2
    <3> QED BY <3>1, <1>3 DEF Range
  <2>3. CASE j # n
    <3>1. j \in 1 .. n - 1 /\ u[j] = v
      BY <1>1, <1>3, <1>4, <2>1, <2>3
    <3> QED BY <3>1, <1>3 DEF Range
  <2> QED BY <2>2, <2>3
<1> QED BY <1>3, <1>4

\* The swap-with-last delete drops one entry, repeats none and invents none.
LEMMA HeldDelRemoves ==
  ASSUME NEW s \in Seq(Nat), NEW i \in DOMAIN s, IsInjective(s)
  PROVE  /\ Len(HeldDel(s, i)) = Len(s) - 1
         /\ IsInjective(HeldDel(s, i))
         /\ \A v \in Range(HeldDel(s, i)) : v \in Range(s) /\ v # s[i]
<1> DEFINE n == Len(s)
           t == [s EXCEPT ![i] = s[n]]
           u == HeldDel(s, i)
<1>1. n \in Nat /\ DOMAIN s = 1 .. n /\ i \in 1 .. n /\ s[n] \in Nat
  OBVIOUS
<1>2. /\ t \in Seq(Nat) /\ Len(t) = n
      /\ \A j \in 1 .. n : t[j] = IF j = i THEN s[n] ELSE s[j]
  BY <1>1
<1>3. u \in Seq(Nat) /\ Len(u) = n - 1 /\ \A j \in 1 .. n - 1 : u[j] = t[j]
  BY <1>1, <1>2 DEF HeldDel
<1>4. DOMAIN u = 1 .. n - 1
  BY <1>1, <1>3
<1>5. \A j \in 1 .. n - 1 : u[j] = s[IF j = i THEN n ELSE j]
  BY <1>1, <1>2, <1>3
<1>6. \A j, k \in 1 .. n : s[j] = s[k] => j = k
  BY <1>1 DEF IsInjective
<1> HIDE DEF n, t, u
<1>7. IsInjective(u)
  <2> SUFFICES ASSUME NEW j \in 1 .. n - 1, NEW k \in 1 .. n - 1, u[j] = u[k]
               PROVE  j = k
    BY <1>4 DEF IsInjective
  <2> DEFINE a == IF j = i THEN n ELSE j
             b == IF k = i THEN n ELSE k
  <2>1. a \in 1 .. n /\ b \in 1 .. n /\ s[a] = s[b]
    BY <1>1, <1>5
  <2>2. a = b
    BY <2>1, <1>6
  <2> QED BY <2>2, <1>1
<1>8. ASSUME NEW v \in Range(u)
      PROVE  v \in Range(s) /\ v # s[i]
  <2>1. PICK j \in 1 .. n - 1 : u[j] = v
    BY <1>4 DEF Range
  <2> DEFINE a == IF j = i THEN n ELSE j
  <2>2. a \in 1 .. n /\ v = s[a] /\ a # i
    BY <2>1, <1>1, <1>5
  <2> QED BY <2>2, <1>1, <1>6 DEF Range
<1> QED BY <1>3, <1>7, <1>8 DEF n, u

\* A set of naturals that is not empty has a least element.
LEMMA SmallestNat ==
  ASSUME NEW T \in SUBSET Nat, T # {}
  PROVE  \E i \in T : \A j \in T : i <= j
<1> DEFINE R == {ss \in Nat \X Nat : ss[1] < ss[2]}
<1>1. IsWellFoundedOn(R, Nat)
  BY NatLessThanWellFounded DEF OpToRel
<1>2. \E i \in T : \A j \in T : ~ (<<j, i>> \in R)
  <2> HIDE DEF R
  <2> QED BY <1>1, WFMin
<1>3. \A i, j \in T : ~ (<<j, i>> \in R) => i <= j
  OBVIOUS
<1> HIDE DEF R
<1> QED BY <1>2, <1>3

\* A device that is in the table is found, at its first entry.
LEMMA HeldFindFirst ==
  ASSUME TypeOK, NEW d, HeldFind(d) # {}
  PROVE  LET i == CHOOSE i \in HeldFind(d) : \A j \in HeldFind(d) : i <= j
         IN  i \in DOMAIN held /\ held[i] = Key(d)
<1>1. HeldFind(d) \subseteq Nat
  BY DEF HeldFind, TypeOK
<1>2. \E i \in HeldFind(d) : \A j \in HeldFind(d) : i <= j
  BY <1>1, SmallestNat
<1> QED BY <1>2 DEF HeldFind

\* What logind answers and the state it goes to have their types.
LEMMA OutcomesType ==
  ASSUME NEW q \in Requests, NEW s \in SessionState(Device),
         NEW P \in SUBSET Device, NEW o \in Outcomes(q, s, P)
  PROVE  o.reply \in Rc \cup {"none"} /\ o.next \in SessionState(Device)
<1>1. /\ s.controller \in BOOLEAN /\ s.granted \in SUBSET Device /\ q.dev \in Device
      /\ Released \in SessionState(Device)
      /\ [s EXCEPT !.controller = TRUE] \in SessionState(Device)
      /\ [s EXCEPT !.granted = @ \cup {q.dev}] \in SessionState(Device)
      /\ [s EXCEPT !.granted = @ \ {q.dev}] \in SessionState(Device)
  BY DEF SessionState, Requests, Released
<1>2. CASE q.op \in {"gone", "get_session_path"}
  BY <1>1, <1>2 DEF Outcomes, Rc
<1>3a. CASE q.op = "take_control"
  <2>1. \/ o = [reply |-> "EIO", next |-> s]
        \/ o = [reply |-> "ok", next |-> [s EXCEPT !.controller = TRUE]]
    BY <1>3a DEF Outcomes
  <2>2. o.reply \in {"EIO", "ok"} /\ o.next \in {s, [s EXCEPT !.controller = TRUE]}
    BY <2>1
  <2>3. o.next \in SessionState(Device)
    BY <1>1, <2>2
  <2> QED BY <2>2, <2>3 DEF Rc
<1>3b. CASE q.op = "release_control"
  BY <1>1, <1>3b DEF Outcomes, Rc
<1>4. CASE q.op = "take_device"
  BY <1>1, <1>4 DEF Outcomes, Rc
<1>5. CASE q.op = "release_device"
  BY <1>1, <1>5 DEF Outcomes, Rc
<1> QED BY <1>2, <1>3a, <1>3b, <1>4, <1>5 DEF Requests

-----------------------------------------------------------------------------
(* Type correctness *)

LEMMA TypeInit == Init => TypeOK
<1> SUFFICES ASSUME Init PROVE TypeOK
  OBVIOUS
<1>1. NoCall \in CallRecords
  BY ConstantsOK DEF NoCall, NoDevice, Device, Stages, Rc, CallRecords
<1>2. Released \in SessionState(Device)
  BY DEF Released, SessionState
<1>3. <<>> \in Seq(Nat) /\ <<>> \in Seq(Requests) /\ Asked \cap Device \in SUBSET Device
  OBVIOUS
<1>4. /\ table \in SUBSET Slots /\ bus \in BOOLEAN /\ dead \in BOOLEAN /\ torn \in BOOLEAN
      /\ answer \in Rc \cup {"none"} /\ mine \in SUBSET Device
      /\ sock \in {"none", "open", "lost"}
  BY Zenon DEF Init
<1>5. control \in 0 .. 2
  BY DEF Init
<1> QED BY <1>1, <1>2, <1>3, <1>4, <1>5 DEF Init, TypeOK

\* Records built by the helpers are calls and requests.
LEMMA CallTypes ==
  ASSUME NEW c \in CallRecords, NEW st \in Stages, NEW r \in Rc
  PROVE  /\ NoCall \in CallRecords
         /\ Calling(c, st) \in CallRecords
         /\ AfterDrop(c) \in CallRecords
         /\ [c EXCEPT !.at = "close_bus"] \in CallRecords
         /\ [c EXCEPT !.at = "close_bus", !.io = "done"] \in CallRecords
         /\ [c EXCEPT !.io = "wait"] \in CallRecords
         /\ [c EXCEPT !.io = "done", !.rc = r] \in CallRecords
         /\ [NoCall EXCEPT !.fn = "release"] \in CallRecords
<1>1. NoDevice \in Device
  BY ConstantsOK DEF NoDevice, Device
<1>2. NoCall \in CallRecords /\ [NoCall EXCEPT !.fn = "release"] \in CallRecords
  BY <1>1 DEF NoCall, Stages, Rc, CallRecords
<1>3. /\ Calling(c, st) \in CallRecords
      /\ [c EXCEPT !.at = "close_bus"] \in CallRecords
      /\ [c EXCEPT !.at = "close_bus", !.io = "done"] \in CallRecords
  BY DEF Calling, Stages, Rc, CallRecords
<1>4. /\ [c EXCEPT !.io = "wait"] \in CallRecords
      /\ [c EXCEPT !.io = "done", !.rc = r] \in CallRecords
  BY DEF CallRecords
<1>5. AfterDrop(c) \in CallRecords
  BY <1>2, <1>3 DEF AfterDrop
<1> QED BY <1>2, <1>3, <1>4, <1>5

LEMMA BeginType ==
  ASSUME NEW d \in Device, NEW st \in Stages,
         NEW f \in {"init", "take", "release_device"}
  PROVE  Begin(f, d, st) \in CallRecords
<1>1. [NoCall EXCEPT !.fn = f, !.dev = d] \in CallRecords
  BY ConstantsOK DEF NoCall, NoDevice, Device, Stages, Rc, CallRecords
<1> QED BY <1>1, CallTypes DEF Begin, Rc

\* A request is written only from a stage that makes one.
LEMMA RequestType ==
  ASSUME NEW c \in CallRecords, c.at \notin {"open_system_bus", "close_bus"}
  PROVE  Request(c) \in Requests
BY ConstantsOK DEF Request, Requests, CallRecords, Stages, DeviceStages, NoDevice, Device

\* Giving control back keeps control and call in their types.
LEMMA DropControlType ==
  ASSUME TypeOK, NEW c \in CallRecords, DropControl(c)
  PROVE  control' \in 0 .. 2 /\ call' \in CallRecords
<1>1. AfterDrop(c) \in CallRecords /\ Calling(c, "release_control") \in CallRecords
  BY CallTypes DEF Stages, Rc
<1> QED BY <1>1 DEF DropControl, TypeOK

LEMMA TypeStep ==
  ASSUME TypeOK, CallShape, [Next]_vars
  PROVE  TypeOK'
<1> USE DEF TypeOK, local, link, outside
<1>0. "ok" \in Rc /\ "EIO" \in Rc /\ NoDevice \in Device
  BY ConstantsOK DEF Rc, NoDevice, Device
<1>1. CASE InitBegin
  <2>1. call' \in CallRecords
    BY <1>0, <1>1, BeginType DEF InitBegin, Stages
  <2>2. table' \in SUBSET Slots /\ held' \in Seq(Nat)
    BY <1>1, ConstantsOK DEF InitBegin
  <2> QED BY <1>1, <2>1, <2>2 DEF InitBegin
<1>2. CASE OpenSystemBus
  <2>1. call' \in CallRecords
    BY <1>0, <1>2, CallTypes DEF OpenSystemBus, Stages
  <2>2. bus' \in BOOLEAN /\ dead' \in BOOLEAN /\ torn' \in BOOLEAN
    BY <1>2 DEF OpenSystemBus
  <2>3. table' \in SUBSET Slots /\ sock' \in {"none", "open", "lost"}
    BY <1>2 DEF OpenSystemBus
  <2> QED BY <1>2, <2>1, <2>2, <2>3 DEF OpenSystemBus
<1>3. CASE SessionPathReturned
  <2>1. call' \in CallRecords
    BY <1>0, <1>3, CallTypes DEF SessionPathReturned, Stages
  <2> QED BY <1>3, <2>1 DEF SessionPathReturned
<1>4. CASE TakeControlReturned
  <2>1. call' \in CallRecords
    BY <1>0, <1>4, CallTypes DEF TakeControlReturned, Stages
  <2>2. control' \in 0 .. 2
    BY <1>4 DEF TakeControlReturned
  <2> QED BY <1>4, <2>1, <2>2 DEF TakeControlReturned
<1>5. CASE TakeDeviceGot
  <2>1. call' \in CallRecords
    BY <1>0, <1>5, CallTypes DEF TakeDeviceGot, Stages
  <2>2. call.dev \in Device
    BY DEF CallRecords
  <2>3. held' \in Seq(Nat) /\ mine' \in SUBSET Device
    BY <1>5, <2>2, KeyType DEF TakeDeviceGot
  <2> QED BY <1>5, <2>1, <2>3 DEF TakeDeviceGot
<1>6. CASE TakeDeviceFailed
  <2>1. Calling(call, "undo_take") \in CallRecords /\ NoCall \in CallRecords
    BY <1>0, CallTypes DEF Stages
  <2>2. control' \in 0 .. 2 /\ call' \in CallRecords
    BY <1>6, <2>1, DropControlType DEF TakeDeviceFailed
  <2> QED BY <1>6, <2>2 DEF TakeDeviceFailed
<1>7. CASE UndoTakeReturned
  <2>1. call' \in CallRecords
    BY <1>0, <1>7, CallTypes DEF UndoTakeReturned, Stages
  <2> QED BY <1>7, <2>1 DEF UndoTakeReturned
<1>8. CASE ReleaseDeviceReturned
  <2>1. control' \in 0 .. 2 /\ call' \in CallRecords
    BY <1>0, <1>8, DropControlType, CallTypes DEF ReleaseDeviceReturned, Stages
  <2>2. held' \in Seq(Nat)
    <3>1. CASE HeldFind(call.dev) = {}
      BY <1>8, <3>1 DEF ReleaseDeviceReturned
    <3>2. CASE HeldFind(call.dev) # {}
      <4>1. PICK i \in DOMAIN held : held' = HeldDel(held, i)
        BY <1>8, <3>2, HeldFindFirst DEF ReleaseDeviceReturned
      <4> QED BY <4>1, HeldDelKeeps
    <3> QED BY <3>1, <3>2
  <2> QED BY <1>8, <2>1, <2>2 DEF ReleaseDeviceReturned
<1>9. CASE ReleaseControlReturned
  <2>1. call' \in CallRecords
    BY <1>0, <1>9, CallTypes DEF ReleaseControlReturned, Stages
  <2>2. control' \in 0 .. 2
    BY <1>9 DEF ReleaseControlReturned
  <2> QED BY <1>9, <2>1, <2>2 DEF ReleaseControlReturned
<1>10. CASE CloseBus
  <2>1. call' \in CallRecords
    BY <1>0, <1>10, CallTypes DEF CloseBus, Stages
  <2>2. Gone \in Requests
    BY <1>0 DEF Gone, Requests
  <2>3. inbox' \in Seq(Requests)
    BY <1>10, <2>2 DEF CloseBus, InboxAfterClose
  <2>4. bus' \in BOOLEAN /\ table' \in SUBSET Slots
    BY <1>10 DEF CloseBus
  <2> QED BY <1>10, <2>1, <2>3, <2>4 DEF CloseBus
<1>11. CASE CallSent
  <2>1. call' \in CallRecords
    BY <1>0, <1>11, CallTypes DEF CallSent, Stages
  <2>2. Request(call) \in Requests
    BY <1>11, RequestType DEF CallSent, CallShape
  <2>3. inbox' \in Seq(Requests)
    BY <1>11, <2>2 DEF CallSent
  <2> QED BY <1>11, <2>1, <2>3 DEF CallSent
<1>12. CASE CallRefused
  <2>1. call' \in CallRecords
    BY <1>12, CallTypes DEF CallRefused, Return, Rc, Stages
  <2> QED BY <1>12, <2>1 DEF CallRefused
<1>13. CASE CallSendTimedOut
  <2>1. call' \in CallRecords
    BY <1>13, CallTypes DEF CallSendTimedOut, Return, Rc, Stages
  <2>2. dead' \in BOOLEAN
    BY <1>13 DEF CallSendTimedOut
  <2> QED BY <1>13, <2>1, <2>2 DEF CallSendTimedOut
<1>14. CASE CallLost
  <2>1. call' \in CallRecords
    BY <1>14, CallTypes DEF CallLost, Return, Rc, Stages
  <2>2. dead' \in BOOLEAN
    BY <1>14 DEF CallLost
  <2> QED BY <1>14, <2>1, <2>2 DEF CallLost
<1>15. CASE CallAnswered
  <2>1. call' \in CallRecords
    BY <1>15, CallTypes DEF CallAnswered, NoUsableFd, NoUsablePath, Return, Rc, Stages
  <2> QED BY <1>15, <2>1 DEF CallAnswered, NoUsableFd, NoUsablePath
<1>16. CASE CallTimedOut
  <2>1. call' \in CallRecords
    BY <1>16, CallTypes DEF CallTimedOut, Return, Rc, Stages
  <2> QED BY <1>16, <2>1 DEF CallTimedOut
<1>17. CASE CallTorn
  <2>1. call' \in CallRecords
    BY <1>17, CallTypes DEF CallTorn, Return, Rc, Stages
  <2>2. torn' \in BOOLEAN
    BY <1>17 DEF CallTorn
  <2> QED BY <1>17, <2>1, <2>2 DEF CallTorn
<1>18. CASE LogindHandles
  <2>1. Head(inbox) \in Requests /\ inbox' \in Seq(Requests)
    BY <1>18 DEF LogindHandles
  <2>2. PICK o \in Outcomes(Head(inbox), logind, present) :
          logind' = o.next /\ answer' \in {o.reply, answer}
    BY <1>18 DEF LogindHandles
  <2>3. o.reply \in Rc \cup {"none"} /\ o.next \in SessionState(Device)
    BY <2>1, OutcomesType
  <2> QED BY <1>18, <2>1, <2>2, <2>3 DEF LogindHandles
<1>19. CASE BusGoes
  <2>1. Gone \in Requests
    BY <1>0 DEF Gone, Requests
  <2>2. inbox' \in Seq(Requests)
    BY <1>19, <2>1 DEF BusGoes
  <2> QED BY <1>19, <2>2 DEF BusGoes
<1>20. ASSUME NEW d \in Asked, TakeDeviceBegin(d)
       PROVE  TypeOK'
  <2>1. d \in Device
    BY <1>20, ConstantsOK DEF TakeDeviceBegin, DevnumOk, Device
  <2>2. call' \in CallRecords
    BY <1>20, <2>1, BeginType DEF TakeDeviceBegin, Stages
  <2> QED BY <1>20, <2>2 DEF TakeDeviceBegin
<1>21. ASSUME NEW d \in Asked, ReleaseDeviceBegin(d)
       PROVE  TypeOK'
  <2>1. d \in Device
    BY <1>21, ConstantsOK DEF ReleaseDeviceBegin, DevnumOk, Device
  <2>2. call' \in CallRecords
    BY <1>21, <2>1, BeginType DEF ReleaseDeviceBegin, Stages
  <2> QED BY <1>21, <2>2 DEF ReleaseDeviceBegin
<1>22. CASE PumpSignals
  <2>1. dead' \in BOOLEAN /\ torn' \in BOOLEAN
    BY <1>22 DEF PumpSignals
  <2> QED BY <1>22, <2>1 DEF PumpSignals
<1>23. CASE ReleaseBegin
  <2>1. control' \in 0 .. 2 /\ call' \in CallRecords
    BY <1>0, <1>23, DropControlType, CallTypes DEF ReleaseBegin, Stages
  <2> QED BY <1>23, <2>1 DEF ReleaseBegin
<1>24. ASSUME NEW d \in Asked \cap Device, Unplug(d) \/ Plug(d)
       PROVE  TypeOK'
  <2>1. logind' \in SessionState(Device)
    BY <1>24 DEF Unplug, Plug, SessionState
  <2>2. present' \in SUBSET Device
    BY <1>24 DEF Unplug, Plug
  <2> QED BY <1>24, <2>1, <2>2 DEF Unplug, Plug
<1>25. CASE UNCHANGED vars
  BY <1>25 DEF vars
<1> QED BY <1>1, <1>2, <1>3, <1>4, <1>5, <1>6, <1>7, <1>8, <1>9, <1>10, <1>11,
           <1>12, <1>13, <1>14, <1>15, <1>16, <1>17, <1>18, <1>19, <1>20,
           <1>21, <1>22, <1>23, <1>24, <1>25
        DEF Next, Consumer, Running, Hardware

\* Giving control back either finishes the call or asks logind.
LEMMA DropControlCases ==
  ASSUME NEW c, DropControl(c)
  PROVE  \/ control' = 0 /\ call' = AfterDrop(c)
         \/ /\ control' = control /\ control # 0
            /\ call' = Calling(c, "release_control")
BY DEF DropControl

\* Entering a backend call keeps the public function and its device.
LEMMA CallingFields ==
  ASSUME TypeOK, NEW st
  PROVE  /\ Calling(call, st).fn = call.fn /\ Calling(call, st).at = st
         /\ Calling(call, st).dev = call.dev /\ Calling(call, st).io = "send"
BY DEF Calling, TypeOK, CallRecords

\* A backend call that returns changes how far the call is and nothing else.
LEMMA ReturnKeeps ==
  ASSUME TypeOK, NEW r, Return(r)
  PROVE  /\ call'.fn = call.fn /\ call'.at = call.at /\ call'.dev = call.dev
         /\ call'.io = "done" /\ call'.rc = r
BY DEF Return, TypeOK, CallRecords

\* Every step keeps the stages of a public function.
LEMMA ShapeStep ==
  ASSUME TypeOK, CallShape, [Next]_vars
  PROVE  CallShape'
<1> USE DEF CallShape, TypeOK, CallRecords, Stages, local, link, outside, NoCall, Idle, Returned
<1>1. CASE InitBegin
  BY <1>1 DEF InitBegin, Begin, Calling
<1>2. CASE OpenSystemBus
  <2>1. call.fn = "init" /\ call.io \in {"send", "wait", "done"}
    BY <1>2 DEF OpenSystemBus, TypeOK, CallRecords
  <2>2. CASE call' = NoCall /\ table' = {} /\ UNCHANGED <<sock, bus>>
    BY <1>2, <2>2 DEF OpenSystemBus
  <2>3. CASE call' # NoCall /\ UNCHANGED table
    <3>1. \/ call' = Calling(call, "get_session_path")
          \/ call' = [call EXCEPT !.at = "close_bus", !.io = "done"]
      BY <1>2, <2>3 DEF OpenSystemBus
    <3>2. LET c == [call EXCEPT !.at = "close_bus", !.io = "done"]
          IN  c.fn = call.fn /\ c.at = "close_bus" /\ c.io = "done"
      BY DEF TypeOK, CallRecords
    <3>3. /\ call'.fn = "init" /\ call'.at \in {"get_session_path", "close_bus"}
          /\ call'.at = "close_bus" => call'.io = "done"
      <4>1. CASE call' = Calling(call, "get_session_path")
        BY <2>1, <4>1, CallingFields
      <4>2. CASE call' = [call EXCEPT !.at = "close_bus", !.io = "done"]
        BY <2>1, <4>2, <3>2
      <4> QED BY <3>1, <4>1, <4>2
    <3> QED BY <1>2, <2>1, <2>3, <3>3 DEF OpenSystemBus
  <2> QED BY <1>2, <2>2, <2>3 DEF OpenSystemBus
<1>3. CASE SessionPathReturned
  BY <1>3 DEF SessionPathReturned
<1>4. CASE TakeControlReturned
  BY <1>4, CallingFields DEF TakeControlReturned
<1>5. CASE TakeDeviceGot
  BY <1>5 DEF TakeDeviceGot
<1>6. CASE TakeDeviceFailed
  <2>1. call.fn = "take"
    BY <1>6 DEF TakeDeviceFailed
  <2>2. CASE held = <<>>
    <3>1. \/ control' = 0 /\ call' = NoCall
          \/ /\ control' = control /\ control # 0
             /\ call' = Calling(call, "release_control")
      BY <1>6, <2>1, <2>2, DropControlCases DEF TakeDeviceFailed, AfterDrop
    <3>2. call' = NoCall \/ /\ call'.fn = "take" /\ call'.at = "release_control"
                            /\ call'.io = "send" /\ control' # 0
      BY <2>1, <3>1, CallingFields
    <3> QED BY <1>6, <2>1, <2>2, <3>2 DEF TakeDeviceFailed
  <2>3. CASE held # <<>>
    <3>1. /\ control' \in {2, control}
          /\ call' \in {NoCall, Calling(call, "undo_take")}
      BY <1>6, <2>3 DEF TakeDeviceFailed
    <3>2. call' = NoCall \/ (call'.fn = "take" /\ call'.at = "undo_take" /\ call'.io = "send")
      BY <2>1, <3>1, CallingFields
    <3> QED BY <1>6, <2>1, <2>3, <3>1, <3>2 DEF TakeDeviceFailed
  <2> QED BY <2>2, <2>3
<1>7. CASE UndoTakeReturned
  BY <1>7 DEF UndoTakeReturned
<1>8. CASE ReleaseDeviceReturned
  <2>0. call.fn = "release_device"
    BY <1>8 DEF ReleaseDeviceReturned
  <2>1. call' \in {NoCall, Calling(call, "release_control")}
    BY <1>8, <2>0, DropControlCases DEF ReleaseDeviceReturned, AfterDrop
  <2>2. call' = NoCall \/ /\ call'.fn = "release_device" /\ call'.at = "release_control"
                          /\ call'.io = "send"
    BY <2>0, <2>1, CallingFields
  <2> QED BY <2>2
<1>9. CASE ReleaseControlReturned
  BY <1>9 DEF ReleaseControlReturned, DropControl, AfterDrop
<1>10. CASE CloseBus
  BY <1>10 DEF CloseBus
<1>11. CASE CallSent
  BY <1>11 DEF CallSent
<1>12. CASE CallRefused
  BY <1>12 DEF CallRefused, Return
<1>13. CASE CallSendTimedOut
  BY <1>13 DEF CallSendTimedOut, Return
<1>14. CASE CallLost
  BY <1>14 DEF CallLost, Return
<1>15. CASE CallAnswered
  <2>1. PICK r : Return(r)
    BY <1>15 DEF CallAnswered, NoUsableFd, NoUsablePath
  <2>2. call.io = "wait"
    BY <1>15 DEF CallAnswered, NoUsableFd, NoUsablePath
  <2> QED BY <2>1, <2>2, ReturnKeeps
<1>16. CASE CallTimedOut
  BY <1>16 DEF CallTimedOut, Return
<1>17. CASE CallTorn
  BY <1>17 DEF CallTorn, Return
<1>18. CASE LogindHandles
  BY <1>18 DEF LogindHandles
<1>19. CASE BusGoes
  BY <1>19 DEF BusGoes
<1>20. CASE PumpSignals
  BY <1>20 DEF PumpSignals
<1>21. CASE ReleaseBegin
  <2> DEFINE c == [NoCall EXCEPT !.fn = "release"]
  <2>1. c.fn = "release" /\ c.at = "close_bus" /\ c.io = "done"
    BY DEF NoCall
  <2>2. DropControl(c)
    BY <1>21 DEF ReleaseBegin
  <2>3. AfterDrop(c).fn = "release" /\ AfterDrop(c).at = "close_bus" /\ AfterDrop(c).io = "done"
    BY <2>1 DEF AfterDrop, NoCall
  <2>4. /\ Calling(c, "release_control").fn = "release"
        /\ Calling(c, "release_control").at = "release_control"
        /\ Calling(c, "release_control").io = "send"
    BY DEF Calling, NoCall
  <2> HIDE DEF c
  <2>5. call' \in {AfterDrop(c), Calling(c, "release_control")}
    BY <2>2, DropControlCases
  <2> QED BY <2>3, <2>4, <2>5
<1>22. ASSUME NEW d \in Asked, TakeDeviceBegin(d)
      PROVE  CallShape'
  BY <1>22 DEF TakeDeviceBegin, Begin, Calling
<1>23. ASSUME NEW d \in Asked, ReleaseDeviceBegin(d)
      PROVE  CallShape'
  BY <1>23 DEF ReleaseDeviceBegin, Begin, Calling
<1>24. ASSUME NEW d \in Asked \cap Device, Unplug(d) \/ Plug(d)
      PROVE  CallShape'
  BY <1>24 DEF Unplug, Plug
<1>25. CASE UNCHANGED vars
  BY <1>25 DEF vars
<1> QED BY <1>1, <1>2, <1>3, <1>4, <1>5, <1>6, <1>7, <1>8, <1>9, <1>10,
           <1>11, <1>12, <1>13, <1>14, <1>15, <1>16, <1>17, <1>18, <1>19,
           <1>20, <1>21, <1>22, <1>23, <1>24, <1>25
        DEF Next, Consumer, Running, Hardware

\* Every step keeps control owed while a device is held.
LEMMA OwnsStep ==
  ASSUME TypeOK, CallShape, HeldOwesRelease, StageOwns, [Next]_vars
  PROVE  HeldOwesRelease' /\ StageOwns'
<1> USE DEF CallShape, HeldOwesRelease, StageOwns, local, link, outside, NoCall, Idle, Returned
<1>1. CASE InitBegin
  BY <1>1 DEF InitBegin, Begin, Calling
<1>2. CASE OpenSystemBus
  <2>1. call.fn = "init" /\ call.io \in {"send", "wait", "done"}
    BY <1>2 DEF OpenSystemBus, TypeOK, CallRecords
  <2>2. CASE call' = NoCall /\ table' = {} /\ UNCHANGED <<sock, bus>>
    BY <1>2, <2>2 DEF OpenSystemBus
  <2>3. CASE call' # NoCall /\ UNCHANGED table
    <3>1. \/ call' = Calling(call, "get_session_path")
          \/ call' = [call EXCEPT !.at = "close_bus", !.io = "done"]
      BY <1>2, <2>3 DEF OpenSystemBus
    <3>2. LET c == [call EXCEPT !.at = "close_bus", !.io = "done"]
          IN  c.fn = call.fn /\ c.at = "close_bus" /\ c.io = "done"
      BY DEF TypeOK, CallRecords
    <3>3. /\ call'.fn = "init" /\ call'.at \in {"get_session_path", "close_bus"}
          /\ call'.at = "close_bus" => call'.io = "done"
      <4>1. CASE call' = Calling(call, "get_session_path")
        BY <2>1, <4>1, CallingFields
      <4>2. CASE call' = [call EXCEPT !.at = "close_bus", !.io = "done"]
        BY <2>1, <4>2, <3>2
      <4> QED BY <3>1, <4>1, <4>2
    <3> QED BY <1>2, <2>1, <2>3, <3>3 DEF OpenSystemBus
  <2> QED BY <1>2, <2>2, <2>3 DEF OpenSystemBus
<1>3. CASE SessionPathReturned
  BY <1>3 DEF SessionPathReturned
<1>4. CASE TakeControlReturned
  BY <1>4, CallingFields DEF TakeControlReturned
<1>5. CASE TakeDeviceGot
  <2>1. control # 0 /\ call' = NoCall /\ control' = control /\ table' = table
    BY <1>5 DEF TakeDeviceGot
  <2>2. call.fn = "take" /\ table # {}
    BY <1>5 DEF TakeDeviceGot
  <2> QED BY <2>1, <2>2
<1>6. CASE TakeDeviceFailed
  <2>1. call.fn = "take"
    BY <1>6 DEF TakeDeviceFailed
  <2>2. CASE held = <<>>
    <3>1. \/ control' = 0 /\ call' = NoCall
          \/ /\ control' = control /\ control # 0
             /\ call' = Calling(call, "release_control")
      BY <1>6, <2>1, <2>2, DropControlCases DEF TakeDeviceFailed, AfterDrop
    <3>2. call' = NoCall \/ /\ call'.fn = "take" /\ call'.at = "release_control"
                            /\ call'.io = "send" /\ control' # 0
      BY <2>1, <3>1, CallingFields
    <3> QED BY <1>6, <2>1, <2>2, <3>2 DEF TakeDeviceFailed
  <2>3. CASE held # <<>>
    <3>1. /\ control' \in {2, control}
          /\ call' \in {NoCall, Calling(call, "undo_take")}
      BY <1>6, <2>3 DEF TakeDeviceFailed
    <3>2. call' = NoCall \/ (call'.fn = "take" /\ call'.at = "undo_take" /\ call'.io = "send")
      BY <2>1, <3>1, CallingFields
    <3> QED BY <1>6, <2>1, <2>3, <3>1, <3>2 DEF TakeDeviceFailed
  <2> QED BY <2>2, <2>3
<1>7. CASE UndoTakeReturned
  BY <1>7 DEF UndoTakeReturned
<1>8. CASE ReleaseDeviceReturned
  <2>1. \/ control' = 0 /\ call' = NoCall /\ held' = <<>>
        \/ /\ control' = control /\ control # 0 /\ held' = <<>>
           /\ call' = Calling(call, "release_control")
        \/ control' = control /\ call' = NoCall /\ held' # <<>>
    BY <1>8, DropControlCases DEF ReleaseDeviceReturned, AfterDrop
  <2>2. held' # <<>> => held # <<>>
    <3>1. CASE HeldFind(call.dev) = {}
      BY <1>8, <3>1 DEF ReleaseDeviceReturned
    <3>2. CASE HeldFind(call.dev) # {}
      <4>1. PICK i \in DOMAIN held : TRUE
        BY <3>2 DEF HeldFind
      <4> QED BY <4>1 DEF TypeOK
    <3> QED BY <3>1, <3>2
  <2>3. call.fn = "release_device"
    BY <1>8 DEF ReleaseDeviceReturned
  <2>4. call' = NoCall \/ (call'.fn = "release_device" /\ call'.at = "release_control")
    BY <2>1, <2>3, CallingFields
  <2> QED BY <1>8, <2>1, <2>2, <2>3, <2>4 DEF ReleaseDeviceReturned
<1>9. CASE ReleaseControlReturned
  BY <1>9 DEF ReleaseControlReturned, DropControl, AfterDrop
<1>10. CASE CloseBus
  BY <1>10 DEF CloseBus
<1>11. CASE CallSent
  BY <1>11 DEF CallSent
<1>12. CASE CallRefused
  BY <1>12 DEF CallRefused, Return
<1>13. CASE CallSendTimedOut
  BY <1>13 DEF CallSendTimedOut, Return
<1>14. CASE CallLost
  BY <1>14 DEF CallLost, Return
<1>15. CASE CallAnswered
  <2>1. PICK r : Return(r)
    BY <1>15 DEF CallAnswered, NoUsableFd, NoUsablePath
  <2>2. call.io = "wait"
    BY <1>15 DEF CallAnswered, NoUsableFd, NoUsablePath
  <2> QED BY <1>15, <2>1, <2>2, ReturnKeeps DEF CallAnswered, NoUsableFd, NoUsablePath
<1>16. CASE CallTimedOut
  BY <1>16 DEF CallTimedOut, Return
<1>17. CASE CallTorn
  BY <1>17 DEF CallTorn, Return
<1>18. CASE LogindHandles
  BY <1>18 DEF LogindHandles
<1>19. CASE BusGoes
  BY <1>19 DEF BusGoes
<1>20. CASE PumpSignals
  BY <1>20 DEF PumpSignals
<1>21. CASE ReleaseBegin
  BY <1>21 DEF ReleaseBegin, DropControl, AfterDrop, Calling
<1>22. ASSUME NEW d \in Asked, TakeDeviceBegin(d)
      PROVE  HeldOwesRelease' /\ StageOwns'
  BY <1>22 DEF TakeDeviceBegin, Begin, Calling
<1>23. ASSUME NEW d \in Asked, ReleaseDeviceBegin(d)
      PROVE  HeldOwesRelease' /\ StageOwns'
  BY <1>23 DEF ReleaseDeviceBegin, Begin, Calling
<1>24. ASSUME NEW d \in Asked \cap Device, Unplug(d) \/ Plug(d)
      PROVE  HeldOwesRelease' /\ StageOwns'
  BY <1>24 DEF Unplug, Plug
<1>25. CASE UNCHANGED vars
  BY <1>25 DEF vars
<1> QED BY <1>1, <1>2, <1>3, <1>4, <1>5, <1>6, <1>7, <1>8, <1>9, <1>10,
           <1>11, <1>12, <1>13, <1>14, <1>15, <1>16, <1>17, <1>18, <1>19,
           <1>20, <1>21, <1>22, <1>23, <1>24, <1>25
        DEF Next, Consumer, Running, Hardware

\* With nothing in the table nothing is in use.
LEMMA NothingHeld ==
  ASSUME MineIsHeld, held = <<>>
  PROVE  mine = {}
BY DEF MineIsHeld, Range

\* Every step keeps the devices in use in the table.
LEMMA MineStep ==
  ASSUME TypeOK, CallShape, StageOwns, MineIsHeld, [Next]_vars
  PROVE  MineIsHeld'
<1> USE DEF MineIsHeld, local, link, outside, NoCall, Idle, Returned
<1>1. CASE InitBegin
  <2>1. mine' = {}
    BY <1>1, NothingHeld DEF InitBegin, StageOwns
  <2> QED BY <1>1, <2>1 DEF InitBegin, Begin, Calling
<1>2. CASE OpenSystemBus
  <2>1. mine' = {}
    BY <1>2, NothingHeld DEF OpenSystemBus, StageOwns, CallShape
  <2> QED BY <1>2, <2>1 DEF OpenSystemBus
<1>3. CASE SessionPathReturned
  <2>1. mine' = {}
    BY <1>3, NothingHeld DEF SessionPathReturned, StageOwns, CallShape
  <2> QED BY <1>3, <2>1 DEF SessionPathReturned
<1>4. CASE TakeControlReturned
  <2>1. call' = NoCall \/ (call'.fn = "take" /\ call'.at = "take_device" /\ call'.dev = call.dev)
    BY <1>4, CallingFields DEF TakeControlReturned, CallShape
  <2> QED BY <1>4, <2>1 DEF TakeControlReturned
<1>5. CASE TakeDeviceGot
  <2>1. call.dev \in Device /\ Key(call.dev) \in Nat /\ held \in Seq(Nat)
    BY KeyType DEF TypeOK, CallRecords
  <2>2. held' = Append(held, Key(call.dev)) /\ mine' = mine \cup {call.dev} /\ call' = NoCall
    BY <1>5 DEF TakeDeviceGot
  <2>3. Range(held') = Range(held) \cup {Key(call.dev)}
    BY <2>1, <2>2 DEF Range
  <2> QED BY <2>2, <2>3
<1>6. CASE TakeDeviceFailed
  <2>1. /\ call.fn = "take" /\ UNCHANGED <<held, mine>>
        /\ call' \in {NoCall, Calling(call, "release_control"), Calling(call, "undo_take")}
    BY <1>6, DropControlCases DEF TakeDeviceFailed, CallShape, AfterDrop
  <2>2. call' = NoCall \/ (call'.fn = "take" /\ call'.dev = call.dev)
    BY <2>1, CallingFields
  <2>3. call.dev \notin mine
    BY <1>6 DEF TakeDeviceFailed
  <2>4. \A d \in mine' : Key(d) \in Range(held')
    BY <2>1
  <2>5. call'.fn # "release"
    BY <2>2
  <2>6. CASE call' = NoCall
    <3>1. call'.at = "close_bus"
      BY <2>6
    <3> QED BY <3>1, <2>4, <2>5
  <2>7. CASE call'.dev = call.dev
    <3>1. call'.dev \notin mine'
      BY <2>1, <2>3, <2>7
    <3> QED BY <3>1, <2>4, <2>5
  <2> QED BY <2>2, <2>6, <2>7
<1>7. CASE UndoTakeReturned
  BY <1>7 DEF UndoTakeReturned
<1>8. CASE ReleaseDeviceReturned
  <2>1. call' \in {NoCall, Calling(call, "release_control")} /\ call.fn = "release_device"
    BY <1>8, DropControlCases DEF ReleaseDeviceReturned, CallShape, AfterDrop
  <2>2. \/ call' = NoCall
        \/ call'.fn = "release_device" /\ call'.at = "release_control"
    BY <2>1, CallingFields
  <2>3. mine' = mine /\ call.dev \notin mine /\ call.dev \in Device /\ mine \subseteq Device
    BY <1>8 DEF ReleaseDeviceReturned, TypeOK, CallRecords
  <2>4. \A v \in Range(held) : v # Key(call.dev) => v \in Range(held')
    <3>1. CASE HeldFind(call.dev) = {}
      BY <1>8, <3>1 DEF ReleaseDeviceReturned
    <3>2. CASE HeldFind(call.dev) # {}
      <4>1. PICK i \in DOMAIN held : held' = HeldDel(held, i) /\ held[i] = Key(call.dev)
        BY <1>8, <3>2, HeldFindFirst DEF ReleaseDeviceReturned
      <4>2. held \in Seq(Nat)
        BY DEF TypeOK
      <4> QED BY <4>1, <4>2, HeldDelKeeps
    <3> QED BY <3>1, <3>2
  <2>5. \A d \in mine : Key(d) # Key(call.dev)
    BY <2>3, KeyInjective
  <2> QED BY <2>2, <2>3, <2>4, <2>5
<1>9. CASE ReleaseControlReturned
  <2>1. \/ call' = NoCall
        \/ call.fn = "release" /\ call'.at = "close_bus"
    BY <1>9 DEF ReleaseControlReturned, AfterDrop, TypeOK, CallRecords
  <2> QED BY <1>9, <2>1 DEF ReleaseControlReturned
<1>10. CASE CloseBus
  <2>1. mine = {}
    BY <1>10, NothingHeld DEF CloseBus, StageOwns, CallShape
  <2> QED BY <1>10, <2>1 DEF CloseBus
<1>11. CASE CallSent
  <2>1. call'.fn = call.fn /\ call'.at = call.at /\ call'.dev = call.dev
    BY <1>11 DEF CallSent, TypeOK, CallRecords
  <2> QED BY <1>11, <2>1 DEF CallSent
<1>12. CASE CallRefused
  BY <1>12, ReturnKeeps DEF CallRefused
<1>13. CASE CallSendTimedOut
  BY <1>13, ReturnKeeps DEF CallSendTimedOut
<1>14. CASE CallLost
  BY <1>14, ReturnKeeps DEF CallLost
<1>15. CASE CallAnswered
  <2>1. PICK r : Return(r)
    BY <1>15 DEF CallAnswered, NoUsableFd, NoUsablePath
  <2> QED BY <1>15, <2>1, ReturnKeeps DEF CallAnswered, NoUsableFd, NoUsablePath
<1>16. CASE CallTimedOut
  BY <1>16, ReturnKeeps DEF CallTimedOut
<1>17. CASE CallTorn
  BY <1>17, ReturnKeeps DEF CallTorn
<1>18. CASE LogindHandles
  BY <1>18 DEF LogindHandles
<1>19. CASE BusGoes
  BY <1>19 DEF BusGoes
<1>20. CASE PumpSignals
  BY <1>20 DEF PumpSignals
<1>21. CASE ReleaseBegin
  <2>1. mine' = {} /\ held' = held
    BY <1>21 DEF ReleaseBegin
  <2> QED BY <2>1
<1>22. ASSUME NEW d \in Asked, TakeDeviceBegin(d)
      PROVE  MineIsHeld'
  <2>1. Key(d) \notin Range(held) /\ UNCHANGED <<held, mine>>
    BY <1>22 DEF TakeDeviceBegin, HeldFind, Range
  <2>2. call'.fn = "take" /\ call'.dev = d
    BY <1>22 DEF TakeDeviceBegin, Begin, Calling
  <2> QED BY <2>1, <2>2
<1>23. ASSUME NEW d \in Asked, ReleaseDeviceBegin(d)
      PROVE  MineIsHeld'
  <2>1. UNCHANGED held /\ mine' = mine \ {d}
    BY <1>23 DEF ReleaseDeviceBegin
  <2>2. call'.fn = "release_device" /\ call'.dev = d
    BY <1>23 DEF ReleaseDeviceBegin, Begin, Calling
  <2> QED BY <2>1, <2>2
<1>24. ASSUME NEW d \in Asked \cap Device, Unplug(d) \/ Plug(d)
      PROVE  MineIsHeld'
  BY <1>24 DEF Unplug, Plug
<1>25. CASE UNCHANGED vars
  BY <1>25 DEF vars
<1> QED BY <1>1, <1>2, <1>3, <1>4, <1>5, <1>6, <1>7, <1>8, <1>9, <1>10,
           <1>11, <1>12, <1>13, <1>14, <1>15, <1>16, <1>17, <1>18, <1>19,
           <1>20, <1>21, <1>22, <1>23, <1>24, <1>25
        DEF Next, Consumer, Running, Hardware


\* A call that is not waiting, and has no device yet, says nothing of replies.
LEMMA QuietAnswer ==
  ASSUME call'.io # "wait",
         ~(call'.at = "take_device" /\ call'.io = "done" /\ call'.rc = "ok")
  PROVE  AnswerIsLast'
BY DEF AnswerIsLast

\* Between calls nothing waits.
LEMMA NoCallFields ==
  /\ NoCall.fn = "none" /\ NoCall.at = "close_bus" /\ NoCall.io = "done"
BY DEF NoCall

\* Every step keeps the reply the last thing logind does.
LEMMA AnswerStep ==
  ASSUME TypeOK, CallShape, AnswerIsLast, [Next]_vars
  PROVE  AnswerIsLast'
<1> USE DEF local, link, outside
<1>1. CASE InitBegin
  <2>1. call'.io # "wait" /\ ~(call'.at = "take_device" /\ call'.io = "done")
    BY <1>1, NoCallFields DEF InitBegin, Begin, Calling, NoCall
  <2> QED BY <2>1, QuietAnswer
<1>2. CASE OpenSystemBus
  <2>1. LET c == [call EXCEPT !.at = "close_bus", !.io = "done"]
        IN  c.at = "close_bus" /\ c.io = "done"
    BY DEF TypeOK, CallRecords
  <2>2. call' \in {NoCall, Calling(call, "get_session_path"),
                   [call EXCEPT !.at = "close_bus", !.io = "done"]}
    BY <1>2 DEF OpenSystemBus
  <2>3. call'.io # "wait" /\ call'.at # "take_device"
    <3>1. CASE call' = NoCall
      BY <3>1, NoCallFields
    <3>2. CASE call' = Calling(call, "get_session_path")
      BY <3>2, CallingFields
    <3>3. CASE call' = [call EXCEPT !.at = "close_bus", !.io = "done"]
      BY <3>3, <2>1
    <3> QED BY <2>2, <3>1, <3>2, <3>3
  <2> QED BY <2>3, QuietAnswer
<1>3. CASE SessionPathReturned
  <2>1. LET c == [call EXCEPT !.at = "close_bus"]
        IN  c.at = "close_bus" /\ c.io = call.io
    BY DEF TypeOK, CallRecords
  <2>2. call' \in {NoCall, [call EXCEPT !.at = "close_bus"]} /\ call.io = "done"
    BY <1>3 DEF SessionPathReturned, Returned
  <2>3. call'.io # "wait" /\ call'.at # "take_device"
    BY <2>1, <2>2, NoCallFields
  <2> QED BY <2>3, QuietAnswer
<1>4. CASE TakeControlReturned
  <2>1. call'.io # "wait" /\ ~(call'.at = "take_device" /\ call'.io = "done")
    BY <1>4, NoCallFields, CallingFields DEF TakeControlReturned
  <2> QED BY <2>1, QuietAnswer
<1>5. CASE TakeDeviceGot
  <2>1. call'.io # "wait" /\ ~(call'.at = "take_device" /\ call'.io = "done")
    BY <1>5, NoCallFields DEF TakeDeviceGot
  <2> QED BY <2>1, QuietAnswer
<1>6. CASE TakeDeviceFailed
  <2>1. call' \in {NoCall, Calling(call, "release_control"), Calling(call, "undo_take")}
    BY <1>6, DropControlCases DEF TakeDeviceFailed, Returned, CallShape, AfterDrop
  <2>2. call'.io # "wait" /\ call'.at # "take_device"
    BY <2>1, CallingFields, NoCallFields
  <2> QED BY <2>2, QuietAnswer
<1>7. CASE UndoTakeReturned
  <2>1. call'.io # "wait" /\ ~(call'.at = "take_device" /\ call'.io = "done")
    BY <1>7, NoCallFields DEF UndoTakeReturned
  <2> QED BY <2>1, QuietAnswer
<1>8. CASE ReleaseDeviceReturned
  <2>1. call' \in {NoCall, Calling(call, "release_control")}
    BY <1>8, DropControlCases DEF ReleaseDeviceReturned, Returned, CallShape, AfterDrop
  <2>2. call'.io # "wait" /\ call'.at # "take_device"
    BY <2>1, CallingFields, NoCallFields
  <2> QED BY <2>2, QuietAnswer
<1>9. CASE ReleaseControlReturned
  <2>1. LET c == [call EXCEPT !.at = "close_bus"]
        IN  c.at = "close_bus" /\ c.io = call.io
    BY DEF TypeOK, CallRecords
  <2>2. call' \in {NoCall, [call EXCEPT !.at = "close_bus"]} /\ call.io = "done"
    BY <1>9 DEF ReleaseControlReturned, AfterDrop, Returned
  <2>3. call'.io # "wait" /\ call'.at # "take_device"
    BY <2>1, <2>2, NoCallFields
  <2> QED BY <2>3, QuietAnswer
<1>10. CASE CloseBus
  <2>1. call'.io # "wait" /\ ~(call'.at = "take_device" /\ call'.io = "done")
    BY <1>10, NoCallFields DEF CloseBus
  <2> QED BY <2>1, QuietAnswer
<1>11. CASE CallSent
  <2>1. call'.io = "wait" /\ answer' = "none"
    BY <1>11 DEF CallSent, TypeOK, CallRecords
  <2> QED BY <2>1 DEF AnswerIsLast
<1>12. CASE CallRefused
  <2>1. call'.io = "done" /\ call'.rc # "ok"
    BY <1>12, ReturnKeeps DEF CallRefused
  <2> QED BY <2>1, QuietAnswer
<1>13. CASE CallSendTimedOut
  <2>1. call'.io = "done" /\ call'.rc # "ok"
    BY <1>13, ReturnKeeps DEF CallSendTimedOut
  <2> QED BY <2>1, QuietAnswer
<1>14. CASE CallLost
  <2>1. call'.io = "done" /\ call'.rc # "ok"
    BY <1>14, ReturnKeeps DEF CallLost
  <2> QED BY <2>1, QuietAnswer
<1>15. CASE CallAnswered
  <2>1. PICK r : Return(r)
    BY <1>15 DEF CallAnswered, NoUsableFd, NoUsablePath
  <2>2. call'.io = "done"
    BY <2>1, ReturnKeeps
  <2>3. sock = "lost" \/ inbox = <<>>
    BY <1>15 DEF CallAnswered, NoUsableFd, NoUsablePath, AnswerIsLast
  <2> QED BY <1>15, <2>2, <2>3 DEF CallAnswered, NoUsableFd, NoUsablePath, AnswerIsLast
<1>16. CASE CallTimedOut
  <2>1. call'.io = "done" /\ call'.rc # "ok"
    BY <1>16, ReturnKeeps DEF CallTimedOut
  <2> QED BY <2>1, QuietAnswer
<1>17. CASE CallTorn
  <2>1. call'.io = "done" /\ call'.rc # "ok"
    BY <1>17, ReturnKeeps DEF CallTorn
  <2> QED BY <2>1, QuietAnswer
<1>18. CASE LogindHandles
  <2>1. inbox \in Seq(Requests) /\ inbox # <<>>
    BY <1>18 DEF LogindHandles, TypeOK
  <2>2. CASE Len(inbox) = 1
    BY <1>18, <2>1, <2>2 DEF LogindHandles, AnswerIsLast
  <2>3. CASE Len(inbox) # 1
    BY <1>18, <2>1, <2>3 DEF LogindHandles, AnswerIsLast
  <2> QED BY <2>2, <2>3
<1>19. CASE BusGoes
  BY <1>19 DEF BusGoes, AnswerIsLast
<1>20. CASE PumpSignals
  BY <1>20 DEF PumpSignals, AnswerIsLast
<1>21. CASE ReleaseBegin
  <2> DEFINE c == [NoCall EXCEPT !.fn = "release"]
  <2>1. /\ AfterDrop(c).io = "done" /\ AfterDrop(c).at = "close_bus"
        /\ Calling(c, "release_control").io = "send"
    BY DEF AfterDrop, Calling, NoCall
  <2>2. call' \in {AfterDrop(c), Calling(c, "release_control")}
    BY <1>21, DropControlCases DEF ReleaseBegin
  <2>3. call'.io # "wait" /\ ~(call'.at = "take_device" /\ call'.io = "done")
    BY <2>1, <2>2
  <2> QED BY <2>3, QuietAnswer
<1>22. ASSUME NEW d \in Asked, TakeDeviceBegin(d)
      PROVE  AnswerIsLast'
  <2>1. call'.io = "send"
    BY <1>22 DEF TakeDeviceBegin, Begin, Calling, NoCall
  <2> QED BY <2>1, QuietAnswer
<1>23. ASSUME NEW d \in Asked, ReleaseDeviceBegin(d)
      PROVE  AnswerIsLast'
  <2>1. call'.io = "send"
    BY <1>23 DEF ReleaseDeviceBegin, Begin, Calling, NoCall
  <2> QED BY <2>1, QuietAnswer
<1>24. ASSUME NEW d \in Asked \cap Device, Unplug(d) \/ Plug(d)
      PROVE  AnswerIsLast'
  BY <1>24 DEF Unplug, Plug, AnswerIsLast
<1>25. CASE UNCHANGED vars
  BY <1>25 DEF vars, AnswerIsLast
<1> QED BY <1>1, <1>2, <1>3, <1>4, <1>5, <1>6, <1>7, <1>8, <1>9, <1>10,
           <1>11, <1>12, <1>13, <1>14, <1>15, <1>16, <1>17, <1>18, <1>19,
           <1>20, <1>21, <1>22, <1>23, <1>24, <1>25
        DEF Next, Consumer, Running, Hardware


\* With nothing in use nothing can be taken away.
LEMMA NothingToRevoke ==
  ASSUME mine' = {}
  PROVE  InboxHarmless'
BY DEF InboxHarmless

\* What is already on its way stays harmless when no device is added.
LEMMA InboxKept ==
  ASSUME InboxHarmless, mine' \subseteq mine, inbox' = inbox, sock' = sock
  PROVE  InboxHarmless'
BY DEF InboxHarmless

\* Every step keeps what is on its way to logind harmless.
LEMMA HarmlessStep ==
  ASSUME TypeOK, CallShape, StageOwns, MineIsHeld, AnswerIsLast, InboxHarmless, [Next]_vars
  PROVE  InboxHarmless'
<1> USE DEF local, link, outside
<1>1. CASE InitBegin
  BY <1>1, InboxKept DEF InitBegin
<1>2. CASE OpenSystemBus
  <2>1. call.fn = "init"
    BY <1>2, NoCallFields DEF OpenSystemBus, CallShape
  <2>2. mine' = {}
    BY <1>2, <2>1, NothingHeld DEF OpenSystemBus, StageOwns
  <2> QED BY <2>2, NothingToRevoke
<1>3. CASE SessionPathReturned
  BY <1>3, InboxKept DEF SessionPathReturned
<1>4. CASE TakeControlReturned
  BY <1>4, InboxKept DEF TakeControlReturned
<1>5. CASE TakeDeviceGot
  <2>1. sock = "lost" \/ inbox = <<>>
    BY <1>5 DEF TakeDeviceGot, Returned, AnswerIsLast
  <2> QED BY <1>5, <2>1 DEF TakeDeviceGot, InboxHarmless
<1>6. CASE TakeDeviceFailed
  BY <1>6, InboxKept DEF TakeDeviceFailed
<1>7. CASE UndoTakeReturned
  BY <1>7, InboxKept DEF UndoTakeReturned
<1>8. CASE ReleaseDeviceReturned
  BY <1>8, InboxKept DEF ReleaseDeviceReturned
<1>9. CASE ReleaseControlReturned
  BY <1>9, InboxKept DEF ReleaseControlReturned
<1>10. CASE CloseBus
  <2>1. mine = {}
    BY <1>10, NothingHeld DEF CloseBus, StageOwns, CallShape, MineIsHeld, Idle
  <2> QED BY <1>10, <2>1, NothingToRevoke DEF CloseBus
<1>11. CASE CallSent
  <2>1. /\ inbox' = Append(inbox, Request(call)) /\ sock = "open"
        /\ sock' = sock /\ mine' = mine /\ inbox \in Seq(Requests)
    BY <1>11 DEF CallSent, TypeOK
  <2>2. call.at = "release_control" => mine = {}
    <3>1. CASE call.fn = "release"
      BY <3>1 DEF MineIsHeld
    <3>2. CASE call.fn # "release"
      BY <3>2, NothingHeld DEF StageOwns
    <3> QED BY <3>1, <3>2
  <2>3. call.at \in {"undo_take", "release_device"} => call.dev \notin mine
    BY DEF MineIsHeld
  <2>4. /\ Request(call).op \in {"gone", "release_control"} => mine = {}
        /\ Request(call).op = "release_device" => Request(call).dev \notin mine
    <3>1. Request(call).op = "release_device" =>
            /\ call.at \in {"undo_take", "release_device"}
            /\ Request(call).dev = call.dev
      BY DEF Request, DeviceStages
    <3>2. Request(call).op = "release_control" => call.at = "release_control"
      BY DEF Request
    <3>3. Request(call).op # "gone"
      BY DEF Request, TypeOK, CallRecords, Stages
    <3> QED BY <3>1, <3>2, <3>3, <2>2, <2>3
  <2>5. ASSUME NEW i \in DOMAIN inbox'
        PROVE  inbox'[i] = Request(call) \/ (i \in DOMAIN inbox /\ inbox'[i] = inbox[i])
    <3>1. Request(call) \in Requests
      BY <1>11, RequestType DEF CallSent, CallShape, TypeOK
    <3>2. /\ DOMAIN inbox = 1 .. Len(inbox) /\ Len(inbox) \in Nat
          /\ DOMAIN inbox' = 1 .. Len(inbox) + 1
          /\ inbox'[Len(inbox) + 1] = Request(call)
          /\ \A j \in 1 .. Len(inbox) : inbox'[j] = inbox[j]
      BY <2>1, <3>1
    <3>3. i \in 1 .. Len(inbox) \/ i = Len(inbox) + 1
      BY <3>2
    <3> QED BY <3>2, <3>3
  <2> QED BY <2>1, <2>4, <2>5 DEF InboxHarmless
<1>12. CASE CallRefused
  BY <1>12, InboxKept DEF CallRefused
<1>13. CASE CallSendTimedOut
  BY <1>13, InboxKept DEF CallSendTimedOut
<1>14. CASE CallLost
  BY <1>14, InboxKept DEF CallLost
<1>15. CASE CallAnswered
  BY <1>15, InboxKept DEF CallAnswered, NoUsableFd, NoUsablePath
<1>16. CASE CallTimedOut
  BY <1>16, InboxKept DEF CallTimedOut
<1>17. CASE CallTorn
  BY <1>17, InboxKept DEF CallTorn
<1>18. CASE LogindHandles
  <2>1. /\ inbox \in Seq(Requests) /\ inbox # <<>> /\ inbox' = Tail(inbox)
        /\ sock' = sock /\ mine' = mine
    BY <1>18 DEF LogindHandles, TypeOK
  <2>2. \A i \in DOMAIN inbox' : i + 1 \in DOMAIN inbox /\ inbox'[i] = inbox[i + 1]
    BY <2>1
  <2> QED BY <2>1, <2>2 DEF InboxHarmless
<1>19. CASE BusGoes
  BY <1>19 DEF BusGoes, InboxHarmless
<1>20. CASE PumpSignals
  BY <1>20, InboxKept DEF PumpSignals
<1>21. CASE ReleaseBegin
  BY <1>21, InboxKept DEF ReleaseBegin
<1>22. ASSUME NEW d \in Asked, TakeDeviceBegin(d)
      PROVE  InboxHarmless'
  BY <1>22, InboxKept DEF TakeDeviceBegin
<1>23. ASSUME NEW d \in Asked, ReleaseDeviceBegin(d)
      PROVE  InboxHarmless'
  BY <1>23, InboxKept DEF ReleaseDeviceBegin
<1>24. ASSUME NEW d \in Asked \cap Device, Unplug(d) \/ Plug(d)
      PROVE  InboxHarmless'
  BY <1>24 DEF Unplug, Plug, InboxHarmless
<1>25. CASE UNCHANGED vars
  BY <1>25 DEF vars, InboxHarmless
<1> QED BY <1>1, <1>2, <1>3, <1>4, <1>5, <1>6, <1>7, <1>8, <1>9, <1>10,
           <1>11, <1>12, <1>13, <1>14, <1>15, <1>16, <1>17, <1>18, <1>19,
           <1>20, <1>21, <1>22, <1>23, <1>24, <1>25
        DEF Next, Consumer, Running, Hardware

\* An empty table is in order.
LEMMA EmptyTable ==
  ASSUME held' = <<>>, call'.fn # "take"
  PROVE  HeldTable'
BY ConstantsOK DEF HeldTable, IsInjective, Range

\* The table stays in order while a call goes on about the same device.
LEMMA SameTable ==
  ASSUME HeldTable, UNCHANGED <<held, mine>>, call'.dev = call.dev,
         call'.fn = call.fn, call.at = "release_device" => call'.at = "release_device"
  PROVE  HeldTable'
BY DEF HeldTable

\* It is in order between calls when it was in a call that gives up no device.
LEMMA TableLeft ==
  ASSUME HeldTable, UNCHANGED <<held, mine>>, call' = NoCall,
         call.at # "release_device", call.fn # "release"
  PROVE  HeldTable'
BY NoCallFields DEF HeldTable

\* Every step keeps the table in order.
LEMMA TableStep ==
  ASSUME TypeOK, CallShape, StageOwns, MineIsHeld, HeldTable, [Next]_vars
  PROVE  HeldTable'
<1> USE DEF local, link, outside
<1>1. CASE InitBegin
  <2>1. call'.fn = "init" /\ held' = <<>>
    BY <1>1 DEF InitBegin, Begin, Calling, NoCall
  <2> QED BY <2>1, EmptyTable
<1>2. CASE OpenSystemBus
  <2>1. call.fn = "init" /\ held' = <<>>
    BY <1>2, NoCallFields DEF OpenSystemBus, CallShape, StageOwns
  <2>2. LET c == [call EXCEPT !.at = "close_bus", !.io = "done"] IN c.fn = call.fn
    BY DEF TypeOK, CallRecords
  <2>3. call' \in {NoCall, Calling(call, "get_session_path"),
                   [call EXCEPT !.at = "close_bus", !.io = "done"]}
    BY <1>2 DEF OpenSystemBus
  <2>4. call'.fn # "take"
    <3>1. CASE call' = NoCall
      BY <3>1, NoCallFields
    <3>2. CASE call' = Calling(call, "get_session_path")
      BY <2>1, <3>2, CallingFields
    <3>3. CASE call' = [call EXCEPT !.at = "close_bus", !.io = "done"]
      BY <2>1, <2>2, <3>3
    <3> QED BY <2>3, <3>1, <3>2, <3>3
  <2> QED BY <2>1, <2>4, EmptyTable
<1>3. CASE SessionPathReturned
  <2>1. call.fn = "init" /\ held' = <<>>
    BY <1>3, NoCallFields DEF SessionPathReturned, Returned, CallShape, StageOwns
  <2>2. LET c == [call EXCEPT !.at = "close_bus"] IN c.fn = call.fn
    BY DEF TypeOK, CallRecords
  <2>3. call'.fn # "take"
    BY <1>3, <2>1, <2>2, NoCallFields DEF SessionPathReturned
  <2> QED BY <2>1, <2>3, EmptyTable
<1>4. CASE TakeControlReturned
  <2>1. call.at = "take_control" /\ call.fn = "take" /\ UNCHANGED <<held, mine>>
        /\ call' \in {NoCall, Calling(call, "take_device")}
    BY <1>4 DEF TakeControlReturned, Returned, CallShape
  <2> QED BY <2>1, TableLeft, SameTable, CallingFields
<1>5. CASE TakeDeviceGot
  <2>1. /\ held' = Append(held, Key(call.dev)) /\ mine' = mine \cup {call.dev}
        /\ call' = NoCall /\ call.fn = "take" /\ call.at = "take_device"
    BY <1>5 DEF TakeDeviceGot, Returned, CallShape
  <2>2. Key(call.dev) \in Nat /\ held \in Seq(Nat) /\ HeldCap \in Nat
    BY KeyType, ConstantsOK DEF TypeOK, CallRecords
  <2>3. /\ Len(held') = Len(held) + 1 /\ DOMAIN held' = 1 .. Len(held) + 1
        /\ held'[Len(held) + 1] = Key(call.dev)
        /\ DOMAIN held = 1 .. Len(held) /\ Len(held) \in Nat
        /\ \A i \in 1 .. Len(held) : held'[i] = held[i]
    BY <2>1, <2>2
  <2>4. \A i \in 1 .. Len(held) : held[i] # Key(call.dev)
    BY <2>1, <2>3 DEF HeldTable, Range
  <2>5. \A i, j \in 1 .. Len(held) : held[i] = held[j] => i = j
    BY <2>3 DEF HeldTable, IsInjective
  <2>6. IsInjective(held')
    <3> SUFFICES ASSUME NEW i \in 1 .. Len(held) + 1, NEW j \in 1 .. Len(held) + 1,
                        held'[i] = held'[j]
                 PROVE  i = j
      BY <2>3 DEF IsInjective
    <3>1. \A k \in 1 .. Len(held) + 1 : k \in 1 .. Len(held) \/ k = Len(held) + 1
      BY <2>3
    <3> QED BY <3>1, <2>3, <2>4, <2>5
  <2>7. Range(held') = Range(held) \cup {Key(call.dev)}
    <3>1. /\ DOMAIN held = 1 .. Len(held) /\ DOMAIN held' = 1 .. Len(held) + 1
          /\ Len(held) \in Nat
          /\ \A i \in 1 .. Len(held) : held'[i] = held[i]
          /\ held'[Len(held) + 1] = Key(call.dev)
      BY <2>1, <2>2, <2>3
    <3>2. \A i \in 1 .. Len(held) + 1 : i \in 1 .. Len(held) \/ i = Len(held) + 1
      BY <3>1
    <3>3. \A i \in 1 .. Len(held) : i \in 1 .. Len(held) + 1
      BY <3>1
    <3> QED BY <3>1, <3>2, <3>3 DEF Range
  <2>8. \A v \in Range(held') : \E d \in mine' : v = Key(d)
    BY <2>1, <2>7 DEF HeldTable
  <2>9. Len(held') <= HeldCap
    BY <2>1, <2>2, <2>3 DEF HeldTable
  <2> QED BY <2>1, <2>6, <2>8, <2>9, NoCallFields DEF HeldTable
<1>6. CASE TakeDeviceFailed
  <2>1. /\ call.fn = "take" /\ call.at = "take_device" /\ UNCHANGED <<held, mine>>
        /\ call' \in {NoCall, Calling(call, "release_control"), Calling(call, "undo_take")}
    BY <1>6, DropControlCases DEF TakeDeviceFailed, Returned, CallShape, AfterDrop
  <2> QED BY <2>1, TableLeft, SameTable, CallingFields
<1>7. CASE UndoTakeReturned
  BY <1>7, TableLeft DEF UndoTakeReturned, Returned, CallShape
<1>8. CASE ReleaseDeviceReturned
  <2>1. /\ call.fn = "release_device" /\ call.at = "release_device" /\ mine' = mine
        /\ call' \in {NoCall, Calling(call, "release_control")}
    BY <1>8, DropControlCases DEF ReleaseDeviceReturned, Returned, CallShape, AfterDrop
  <2>2. call'.fn \in {"none", "release_device"}
    BY <2>1, CallingFields, NoCallFields
  <2>3. held \in Seq(Nat) /\ HeldCap \in Nat /\ Len(held) \in Nat
    BY ConstantsOK DEF TypeOK
  <2>4. /\ IsInjective(held') /\ Len(held') <= HeldCap
        /\ \A v \in Range(held') : v \in Range(held) /\ v # Key(call.dev)
    <3>1. CASE HeldFind(call.dev) = {}
      BY <1>8, <3>1 DEF ReleaseDeviceReturned, HeldTable, HeldFind, Range
    <3>2. CASE HeldFind(call.dev) # {}
      <4>1. PICK i \in DOMAIN held : held' = HeldDel(held, i) /\ held[i] = Key(call.dev)
        BY <1>8, <3>2, HeldFindFirst DEF ReleaseDeviceReturned
      <4>2. /\ Len(held') = Len(held) - 1 /\ IsInjective(held')
            /\ \A v \in Range(held') : v \in Range(held) /\ v # held[i]
        BY <4>1, <2>3, HeldDelRemoves DEF HeldTable
      <4> QED BY <4>1, <4>2, <2>3 DEF HeldTable
    <3> QED BY <3>1, <3>2
  <2>5. \A v \in Range(held') : \E d \in mine' : v = Key(d)
    BY <2>1, <2>4 DEF HeldTable
  <2> QED BY <2>2, <2>4, <2>5 DEF HeldTable
<1>9. CASE ReleaseControlReturned
  <2>1. UNCHANGED <<held, mine>> /\ call.at = "release_control"
    BY <1>9 DEF ReleaseControlReturned, Returned
  <2>2. CASE call.fn = "release"
    <3>1. call'.fn = "release"
      BY <1>9, <2>2 DEF ReleaseControlReturned, AfterDrop, TypeOK, CallRecords
    <3> QED BY <2>1, <2>2, <3>1 DEF HeldTable
  <2>3. CASE call.fn # "release"
    <3>1. call' = NoCall
      BY <1>9, <2>3 DEF ReleaseControlReturned, AfterDrop
    <3> QED BY <2>1, <2>3, <3>1, TableLeft
  <2> QED BY <2>2, <2>3
<1>10. CASE CloseBus
  BY <1>10, EmptyTable, NoCallFields DEF CloseBus
<1>11. CASE CallSent
  <2>1. call'.fn = call.fn /\ call'.at = call.at /\ call'.dev = call.dev
    BY <1>11 DEF CallSent, TypeOK, CallRecords
  <2> QED BY <1>11, <2>1, SameTable DEF CallSent
<1>12. CASE CallRefused
  BY <1>12, ReturnKeeps, SameTable DEF CallRefused
<1>13. CASE CallSendTimedOut
  BY <1>13, ReturnKeeps, SameTable DEF CallSendTimedOut
<1>14. CASE CallLost
  BY <1>14, ReturnKeeps, SameTable DEF CallLost
<1>15. CASE CallAnswered
  <2>1. PICK r : Return(r)
    BY <1>15 DEF CallAnswered, NoUsableFd, NoUsablePath
  <2> QED BY <1>15, <2>1, ReturnKeeps, SameTable DEF CallAnswered, NoUsableFd, NoUsablePath
<1>16. CASE CallTimedOut
  BY <1>16, ReturnKeeps, SameTable DEF CallTimedOut
<1>17. CASE CallTorn
  BY <1>17, ReturnKeeps, SameTable DEF CallTorn
<1>18. CASE LogindHandles
  BY <1>18, SameTable DEF LogindHandles
<1>19. CASE BusGoes
  BY <1>19, SameTable DEF BusGoes
<1>20. CASE PumpSignals
  BY <1>20, SameTable DEF PumpSignals
<1>21. CASE ReleaseBegin
  <2> DEFINE c == [NoCall EXCEPT !.fn = "release"]
  <2>1. AfterDrop(c).fn = "release" /\ Calling(c, "release_control").fn = "release"
    BY DEF AfterDrop, Calling, NoCall
  <2>2. call'.fn = "release" /\ held' = held
    BY <1>21, <2>1, DropControlCases DEF ReleaseBegin
  <2> QED BY <2>2 DEF HeldTable
<1>22. ASSUME NEW d \in Asked, TakeDeviceBegin(d)
      PROVE  HeldTable'
  <2>1. call'.fn = "take" /\ call'.dev = d
    BY <1>22 DEF TakeDeviceBegin, Begin, Calling, NoCall
  <2>2. /\ Key(d) \notin Range(held) /\ Len(held) < HeldCap /\ UNCHANGED <<held, mine>>
        /\ call = NoCall
    BY <1>22 DEF TakeDeviceBegin, HeldFind, Range, Idle
  <2> QED BY <2>1, <2>2, NoCallFields DEF HeldTable
<1>23. ASSUME NEW d \in Asked, ReleaseDeviceBegin(d)
      PROVE  HeldTable'
  <2>1. call'.fn = "release_device" /\ call'.at = "release_device" /\ call'.dev = d
    BY <1>23 DEF ReleaseDeviceBegin, Begin, Calling, NoCall
  <2>2. held' = held /\ mine' = mine \ {d} /\ call = NoCall
    BY <1>23 DEF ReleaseDeviceBegin, Idle
  <2>3. \A v \in Range(held) : \E e \in mine : v = Key(e)
    BY <2>2, NoCallFields DEF HeldTable
  <2> QED BY <2>1, <2>2, <2>3 DEF HeldTable
<1>24. ASSUME NEW d \in Asked \cap Device, Unplug(d) \/ Plug(d)
      PROVE  HeldTable'
  BY <1>24, SameTable DEF Unplug, Plug
<1>25. CASE UNCHANGED vars
  BY <1>25, SameTable DEF vars
<1> QED BY <1>1, <1>2, <1>3, <1>4, <1>5, <1>6, <1>7, <1>8, <1>9, <1>10,
           <1>11, <1>12, <1>13, <1>14, <1>15, <1>16, <1>17, <1>18, <1>19,
           <1>20, <1>21, <1>22, <1>23, <1>24, <1>25
        DEF Next, Consumer, Running, Hardware

-----------------------------------------------------------------------------
(* The theorems *)

\* The invariant holds at first.
LEMMA InitIInv == Init => IInv
<1> SUFFICES ASSUME Init PROVE IInv
  OBVIOUS
<1>1. TypeOK
  BY TypeInit
<1>2. CallShape /\ HeldOwesRelease /\ StageOwns
  BY DEF Init, NoCall, CallShape, HeldOwesRelease, StageOwns
<1>3. MineIsHeld /\ AnswerIsLast /\ InboxHarmless
  BY DEF Init, NoCall, MineIsHeld, AnswerIsLast, InboxHarmless
<1>4. HeldTable
  BY ConstantsOK DEF Init, NoCall, HeldTable, IsInjective, Range
<1> QED BY <1>1, <1>2, <1>3, <1>4 DEF IInv

\* Every step keeps it.
LEMMA StepIInv == IInv /\ [Next]_vars => IInv'
BY TypeStep, ShapeStep, OwnsStep, MineStep, TableStep, AnswerStep, HarmlessStep DEF IInv

LEMMA Invariant == Spec => []IInv
BY InitIInv, StepIInv, PTL DEF Spec

\* Every reachable state is well typed: in particular no device number out
\* of range ever gets into a request (samvada.cyr:88-92).
THEOREM TypeCorrect == Spec => []TypeOK
<1>1. IInv => TypeOK
  BY DEF IInv
<1> QED BY <1>1, Invariant, PTL

\* While a device is held a ReleaseControl is owed, whatever logind, the bus
\* and the deadline did (samvada.cyr:44-46, :399).
THEOREM ReleaseOwed == Spec => []HeldOwesRelease
<1>1. IInv => HeldOwesRelease
  BY DEF IInv
<1> QED BY <1>1, Invariant, PTL

\* A failed samvada_init and samvada_release leave nothing behind
\* (samvada.cyr:135-213, :421-447).
THEOREM NothingLeft == Spec => []NoTableNoBus
<1>1. IInv => NoTableNoBus
  BY DEF IInv, StageOwns, NoTableNoBus
<1> QED BY <1>1, Invariant, PTL

\* Between calls the table lists exactly the devices in use, each once and
\* no more than its array holds: the swap-with-last delete, the packed keys
\* and every early return keep it a set (samvada.cyr:94-118, :287-405).
THEOREM TableIsMine == Spec => []HeldIsMine
<1>1. IInv => HeldIsMine
  <2> SUFFICES ASSUME IInv, Idle PROVE HeldIsMine
    BY DEF HeldIsMine
  <2>1. \A v \in Range(held) : \E d \in mine : v = Key(d)
    BY NoCallFields DEF IInv, HeldTable, Idle
  <2>2. \A d \in mine : Key(d) \in Range(held)
    BY DEF IInv, MineIsHeld
  <2>3. Range(held) = { Key(d) : d \in mine }
    BY <2>1, <2>2
  <2> QED BY <2>3 DEF IInv, HeldTable, HeldIsMine
<1> QED BY <1>1, Invariant, PTL

\* What logind drops, it drops for the request it handles.
LEMMA DroppedFor ==
  ASSUME NEW q \in Requests, NEW s \in SessionState(Device),
         NEW o \in Outcomes(q, s, present), NEW d \in s.granted, d \notin o.next.granted
  PROVE  \/ q.op \in {"gone", "release_control"}
         \/ q.op = "release_device" /\ q.dev = d
<1> SUFFICES ASSUME q.op \notin {"gone", "release_control"}
             PROVE  q.op = "release_device" /\ q.dev = d
  OBVIOUS
<1>1. CASE q.op = "get_session_path"
  BY <1>1 DEF Outcomes
<1>2. CASE q.op = "take_control"
  <2>0. \/ o = [reply |-> "EIO", next |-> s]
        \/ o = [reply |-> "ok", next |-> [s EXCEPT !.controller = TRUE]]
    BY <1>2 DEF Outcomes
  <2>1. o.next = s \/ o.next = [s EXCEPT !.controller = TRUE]
    <3>1. CASE o = [reply |-> "EIO", next |-> s]
      BY <3>1
    <3>2. CASE o = [reply |-> "ok", next |-> [s EXCEPT !.controller = TRUE]]
      BY <3>2, Zenon
    <3> QED BY <2>0, <3>1, <3>2
  <2>2. [s EXCEPT !.controller = TRUE].granted = s.granted
    BY DEF SessionState
  <2> QED BY <2>1, <2>2
<1>3. CASE q.op = "take_device"
  <2>1. o.next = s \/ o.next = [s EXCEPT !.granted = @ \cup {q.dev}]
    BY <1>3 DEF Outcomes
  <2>2. [s EXCEPT !.granted = @ \cup {q.dev}].granted = s.granted \cup {q.dev}
    BY DEF SessionState
  <2> QED BY <2>1, <2>2
<1>4. CASE q.op = "release_device"
  <2>1. o.next = s \/ o.next = [s EXCEPT !.granted = @ \ {q.dev}]
    BY <1>4 DEF Outcomes
  <2>2. [s EXCEPT !.granted = @ \ {q.dev}].granted = s.granted \ {q.dev}
    BY DEF SessionState
  <2> QED BY <1>4, <2>1, <2>2
<1> QED BY <1>1, <1>2, <1>3, <1>4 DEF Requests

\* Nothing samvada writes, however late logind handles it, takes away a
\* device in use: only a lost connection or an unplugged device does
\* (samvada.cyr:47-52, :331-337).
THEOREM DevicesStay == Spec => NeverRevoked
<1> DEFINE Kept == \A d \in mine : d \in logind.granted /\ d \notin logind'.granted
                      => d \notin present' \/ sock = "lost"
<1>1. ASSUME IInv, [Next]_vars
      PROVE  [Kept]_vars
  <2> SUFFICES ASSUME NEW d \in mine, d \in logind.granted, d \notin logind'.granted,
                      sock # "lost"
               PROVE  d \notin present'
    OBVIOUS
  <2>0. logind' # logind
    OBVIOUS
  <2>1. \/ LogindHandles
        \/ \E e \in Asked \cap Device : Unplug(e)
    BY <1>1, <2>0 DEF Next, Consumer, Running, Hardware, vars, local, link, outside,
      InitBegin, OpenSystemBus, SessionPathReturned, TakeControlReturned, TakeDeviceGot,
      TakeDeviceFailed, UndoTakeReturned, ReleaseDeviceReturned, ReleaseControlReturned,
      CloseBus, CallSent, CallRefused, CallSendTimedOut, CallLost, CallAnswered,
      CallTimedOut, CallTorn, BusGoes, PumpSignals, ReleaseBegin, TakeDeviceBegin,
      ReleaseDeviceBegin, Plug
  <2>2. CASE LogindHandles
    <3>1. /\ inbox \in Seq(Requests) /\ inbox # <<>>
          /\ logind \in SessionState(Device)
      BY <1>1, <2>2 DEF IInv, TypeOK, LogindHandles
    <3>2. PICK o \in Outcomes(Head(inbox), logind, present) : logind' = o.next
      BY <2>2 DEF LogindHandles
    <3>3. Head(inbox) \in Requests /\ 1 \in DOMAIN inbox /\ Head(inbox) = inbox[1]
      BY <3>1
    <3>4. \/ inbox[1].op \in {"gone", "release_control"}
          \/ inbox[1].op = "release_device" /\ inbox[1].dev = d
      BY <3>1, <3>2, <3>3, DroppedFor
    <3> QED BY <1>1, <3>3, <3>4 DEF IInv, InboxHarmless
  <2>3. CASE \E e \in Asked \cap Device : Unplug(e)
    <3>1. PICK e \in Asked \cap Device : Unplug(e)
      BY <2>3
    <3>2. [logind EXCEPT !.granted = @ \ {e}].granted = logind.granted \ {e}
      BY <1>1 DEF IInv, TypeOK, SessionState
    <3>3. d = e
      BY <3>1, <3>2 DEF Unplug
    <3> QED BY <3>1, <3>3 DEF Unplug
  <2> QED BY <2>1, <2>2, <2>3
<1> QED BY <1>1, Invariant, PTL DEF Spec, NeverRevoked
=============================================================================

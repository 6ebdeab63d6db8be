# samvada in TLA+

samvada lets a display server that is not root open its GPU and input devices:
it asks systemd-logind, over the system D-Bus, for control of the session and
for one file descriptor per device. Control mutes the VT, so a mistake in who
owes whom a `ReleaseControl` leaves the user with a dead console, and a
descriptor attributed to the wrong message opens the wrong device. The
repository also carries the tools its CI trusts: a scanner for the two languages
it is written in, gates over the public surface and the build's inputs, a
generator for its state document, a relay that captures D-Bus traffic and a
decoder for the captures. These modules model the library's logic, in
`src/src/*.cyr`, and the tools', in `src/tools/*.py`. (Paths below are relative to
`src/src/`, a tool's to `src/tools/`.)

## The system and its parts

| part | code | state it keeps | operations | what makes it correct |
|---|---|---|---|---|
| public layer | `samvada.cyr` | table, bus, control (0 not held, 1 held, 2 may be held), the held devices | `samvada_init`, `_session_take_device`, `_session_release_device`, `_pump_signals`, `_release` | a muted VT is always owed a `ReleaseControl`; no request revokes a device in use; nothing is left after release or a failed init |
| fn-table | `samvada_ffi.cyr` | slots of a backend | set, get | a null slot is refused before any effect |
| native backend, call cycle | `dbus_session.cyr` | serial, closed latch, unique name, timeout | `dbus_session_call`, `_dbs_recv`, `_dbs_write` | a call gets its own reply or an error, by its deadline |
| native backend, methods | `dbus_session.cyr` | scratch only | Hello, GetSessionByPID, Take/ReleaseControl, Take/ReleaseDevice, pump, close | a descriptor is handed out only if the reply names it and it is the device asked for |
| framer | `dbus_frame.cyr` | receive buffer, cursor, stream position, drain counter, descriptor queue | `dbus_frame_init/next/advance/want/prepare/commit/push_fd/claim_fd/close_fds` | messages whole, once, in order; descriptors belong to the message they came with |
| receive | `dbus_sys.cyr` | the last receive's descriptors | `dbus_sys_recv`, `dbus_sys_parse_rights` | every descriptor received is reported or closed |
| SASL | `dbus_auth.cyr` | saw OK, saw AGREE | `dbus_auth_drain_lines` | success only after OK, then AGREE_UNIX_FD |
| socket | `dbus_socket.cyr` | none | connect, timeouts, move off stdio | |
| unmarshaller | `dbus_unmarshal.cyr` | one read limit, a body cursor | validate, find a field, walk a body | no read beyond a length that was checked; a field is found whatever precedes it |
| marshaller | `dbus_marshal.cyr` | one output buffer with an overflow latch | build a message | nothing is sent that overflowed |
| C shim | `deps/samvada_main.c` | none of its own | the same slots over sd-bus | same contract |
| tap | `dbus_tap.py` | connections, captures | the selector loop: accept, relay, hang up | transparent; everything relayed is recorded; nothing leaks or starves |
| state sync | `state_sync.py` | `docs/development/state.md` | regenerate, check | the exit status is true; what people wrote stays |
| scanner | `cyr_scan.py` | none | strip Cyrius and C to code, parse declarations | code and text are told apart where the compilers tell them apart |
| gates | `surface_check.py`, `boundary_check.py` | none | compare the bundle with the manifest | a consumer reaches what the manifest says |
| security scan | `security_scan.py` | none | scan every file a build reads | no build input goes unread |
| decoder | `dbus_decode.py` | none | decode a capture | what was encoded comes out |

The consumer calls the public layer; the public layer calls the backend through
the table; the backend writes a request, then reads through framer and receive
layer until the reply. All of this is one thread. The concurrency is outside:
logind handles requests when it gets to them, the bus goes away, devices are
unplugged, deadlines pass, and bytes arrive in pieces of any size. So the hard
behaviours are late answers, lost answers, requests that are written by halves,
connections that die between two steps of one public call, and descriptors that
arrive with the wrong message. The tools run on their own, against files that
people edit meanwhile (`state_sync.py`), against processes that close whenever they
like (`dbus_tap.py`), or against text that a compiler must read the same way (the
scanner and the gates). `PROJECT.json` lists each hazard at its line.

## Modules

`Logind` (external). What one request does to logind's state for our session and
what it answers, as a set of outcomes. Any request may also be refused without
effect. `TakeControl` repeated by the controller succeeds; `ReleaseControl` and
the loss of the connection drop every device. The facts are those quoted in
`samvada.cyr` and `dbus_session.cyr`.

`Samvada`. The public layer over the native backend and `Logind`. A public
function is cut at each backend call: `call` says which function is running
(`fn`), at which backend call (`at`), and how far that one is (`io`: about to
send, waiting, returned with `rc`). `table`, `bus`, `control` and `held` are the
code's variables; `dead` is `_dbs_closed`; `torn` says that the framer's head can
never be framed; `inbox` holds the requests written and not handled yet, in
order; `mine` is a history variable, the devices the consumer took and did not
give back. `CallSent` to `CallTorn` are the ways `dbus_session_call` goes on;
`LogindHandles`, `BusGoes`, `Unplug` and `Plug` are the world. Errnos are kept as
the classes the public layer tells apart.

`DbusFrame`. The framer and `_dbs_recv`. A byte is its position in the stream, a
stream is the list of message boundaries with the number of descriptors of each
message and whether its header can be read. The framer's variables are the
code's; `open` and `given` are the process's descriptors. `Recv(n)` is a receive
of any size up to the limit the framer sets, `RecvEof` the peer closing after any
byte; descriptors may be lost to truncation, to the queue's limit, or to a failed
move off a stdio number.

`MessageStream`. What the framer promises, without buffer or bytes: the next
message is yielded, or discarded if it is larger than the buffer, and a
descriptor is handed out only from the message at hand.

`DbusSession`. `dbus_session_call`, `_dbs_write` and `dbus_native_pump_signals` over a
stream of messages, each two units long (header, rest), so that a message can have
begun to arrive when a request is written. `call` holds the locals of the function
that is running and where it is (`pc`); `last` what the last one returned and, as
history, which request the message it accepted was sent for. Serials, latch and name
are the code's. The bus answers requests in any order, late or never, sends other
traffic, and closes after any unit. Time passes in ticks while the process is
blocked; a reading of the clock may fail at any time.

`DbusAuth`. The SASL reader and its receive loop as a function of what a server
sends, where it is cut into receives, and how many connections it is tried on. A
token stands for the start of a line, a GUID or a character.

`DbusUnmarshal` (over `DbusDecode`'s encoding). The field walk, the validation and the
body cursor as functions of a message's bytes; each result carries the offsets that
were read. The reference is the D-Bus encoding of a list of fields.

`DbusSys`. The walk over a receive's control messages, in 32-bit words, with what is
held, closed and read.

`DbusTap`. The relay's one thread (`batch`, `pc`, the data and descriptors in hand)
with the clients and the bus, and the kernel's queues between them as sequences of
writes. `RecvMsg`, `CaptureWrite` and `Send` are steps of their own, so an end may close,
or Ctrl-C come, between any two.

`StateSync`. `run()` cut where it reads or writes a file or runs a suite, with people
editing tree and document, kills and failing writes. A document is a sequence of
lines by kind; a line may end in CR LF, which `read()` turns into LF (`AsRead`) before
anything looks at the text. `blocks`, `sync`, `render` and `parse_tally` are operators.

`Text` gives each reader of text every input up to a length, phrase by phrase.
`CyrScan` and `CScan` are the scanner's walks over Cyrius and C; beside each stands
what the compiler does with the same text (`Cycc`, `Gcc`), external, after what the
tools' own comments measured of cycc 6.7.18 and what the C standard says.
`DbusDecode` is the decoder with the D-Bus encoding. `Gates` has the declaration parser
and the two surface gates, with the units cycc makes of a bundle (`Unit`, `Reached`).
`BuildScan` has the manifest's and the tree's walk of the security scan, with what the
builds read (`BuildReads`).

How they fit: `DbusFrame` reads no further than the head message, which
`DbusSession` assumes of the stream (`InStep`). `DbusAuth` shows where the binary
stream begins that `DbusFrame` starts from, `DbusSys` which descriptors `Recv` gets, and
`DbusUnmarshal` what reading a valid message means. `Samvada` assumes of
a backend call what `DbusSession` shows: an answer is the answer to this request
(`OwnReply`), a call ends by itself (`CallsEnd`, `EndsInTime`), and after a request cut
off part-way nothing reaches logind on that connection (`HalfIsLast`).

The `MC` modules give the small instances. `SamvadaProofs`, `SamvadaControlProofs`,
`DbusSessionProofs`, `DbusFrameProofs`, `DbusTapProofs`, `ReaderProofs` and
`DbusUnmarshalProofs` hold the theorems; `SeqFacts` has the lemmas about sequences and
recursive functions that the last three need.

## What the runs show

| run | properties | bounds |
|---|---|---|
| `samvada` | `TypeOK`, `HeldIsMine`, `HeldOwesRelease`, `ControlAccounted`, `FailedTakeUndone`, `NoTableNoBus`, `NeverRevoked` | numbers of one bit (three devices and one pair out of range whose key collides), two held, logind up to two requests behind when a call starts; a full table, one without `take_control`, one without `get_session_path` |
| `samvada_live` | `CallsReturn`, `ConsoleRestored` | two devices, one request behind |
| `samvada_zero`, `samvada_gone` | the two findings on the public layer | the same |
| `frame` | `InStep`, `FdsAreHeads`, `FdsAccounted`, `DescriptorIsNamed`, `MovedBounded`, `StreamFollowed`, `ImplementsStream` | every stream of three messages of twelve kinds: header-only to buffer-sized with no descriptor or one more than the queue holds, two over-cap sizes, one unreadable, one that declares too much; two of them behind SASL lines that filled the buffer; header 2, buffer 4, one queue place |
| `session` | `OwnReply`, `EndsInTime`, `NeverSkipsOwn`, `HalfIsLast`, `QuietIsAlive`, `CallsEnd` | two serials, two connections, four requests and two messages on each, a deadline of two ticks, two reads without a clock, pump caps of two messages and three receives |
| `tap` | `Transparent`, `RecordedFirst`, `NoSilentLoss`, `NoLeak`, `Served` | one connection with three bytes one way and one the other, or two with one each; queues and receives of two bytes, one descriptor a write |
| `state_sync` | `StatusIsTrue`, `HandKept` | thirteen lines, two or three suites, the edits, outcomes and cuts of `MCStateSync` |
| `state_sync_edit` | the first finding on `state_sync.py` | the same, with an edit during a run |
| `state_sync_cr` | `CrRefused`, the second | the same, every suite passing; lines are ended in CR LF |
| `readers` | `CReadAsCompiled`, `LinesKept`, `DecodesCapture`, `SaslAsSent`, `FieldsFound`, `RightsCollected` | every text of up to four phrases of C, five of raw strings (with a delimiter, without, and with a quote in it; what stands in one and behind it), five of comments of both kinds around quotes, six of C line ends; two messages and every cut; four SASL phrases in a buffer of eight tokens, cut in one place, around one token or everywhere; four phrases of raw header bytes under five claimed lengths; three header fields; four control words, four control messages, room for three descriptors |
| `gates` | `ReadAsCompiled`, `ScannedApart`, `SurfaceFrozen`, `BoundaryHolds`, `BuildScanned` | every text of up to five phrases of Cyrius quotes, five of quotes in and behind a region that the preprocessor skips, four of line starts; every bundle of three lines of some sixty forms against every manifest of up to three of five functions; every tree and manifest of three phrases |

Why the bounds are enough: two held devices are the least for which a failed take
takes the undo path, a full table refuses, and swap-with-last moves an entry;
`MaxInbox` only stops *new* public calls, a call adds up to three requests of its
own, so a TakeControl, a TakeDevice and a release of the past can all be pending
while another call runs. With header 2 and buffer 4 a message can end anywhere,
fill the buffer, straddle its end, and need one or several receives to drain; three
messages let an over-cap one stand before, between and after messages that
fit. In `DbusSession` Hello takes the first serial and is always answered, so four
requests with two serials are the least with which a late reply can carry the serial of
a later request. The theorems need none of these bounds.

In `DbusTap` three bytes against queues and receives of two are the least for which one
receive gathers two writes, splits a write, and one send is cut by a full queue; two
connections are needed for one to block or starve the other and for an event to be
stale. In `readers` and in the texts of `gates` what can go wrong is a place where reading changes (a quote, an
escape, a line start, a length), and each alphabet holds every such token and one
neutral one; five quotes put a construct inside another, leave it open, and close it
again behind a neutral one, and four line starts nest a false region or a macro body with
something in it and something after. Raw strings and comments have alphabets of their
own, in which an opening with its delimiter is one phrase: five phrases then hold an
opening, a false end or a quote, the true end, and code or a quote that shows where the
reader believes it is. In a skipped region an apostrophe is read by the preprocessor alone
(`cyr_scan.py:182-194`), so that alphabet has a lone one with a quote behind it. A byte is below 128 and a u32 what TLC's integers hold.
Three header fields put one that is skipped before and one behind the one that is
looked for. In the bundles of `gates` three lines allow something open in the first, a marker in the
second and a declaration in the third; three phrases of a tree allow an includer, what it
names, and the manifest entry that decides on it.

Fairness. `CallsReturn` assumes only that the process itself keeps running
(`WF(Running)`): a wait ends at its deadline at the latest because every wait is a
poll for the time left (`dbus_session.cyr:893-909`). No help from logind is
assumed. `CallTorn` is not under fairness: the header need not come.
`ConsoleRestored` also assumes that logind gets to each request
(`WF(LogindHandles)`); a logind that stops for ever keeps the VT, whatever samvada
does. `StreamFollowed` assumes a reader that keeps reading and that bytes that were
sent arrive, strongly, because a poll may report nothing to read again and again
before they do (`RecvNothing`).

`CallsEnd` assumes that the process runs and, strongly, that time passes while it is
blocked, however often it is woken for nothing. A send that is interrupted is retried at
once and changes nothing; that it is not interrupted for ever is part of that assumption.

Assumptions about the world in `DbusSession`: by the time a serial comes round again,
four billion requests later, the old request has been answered with a reply that has at
least begun to arrive (`SerialFree`); that "begun" is enough is due to the watermark, and
`OwnReply` fails without it. The bus answers Hello with a message of its own that is valid
and fits, and sends nothing before that answer.

`Served` assumes that the relay's loop runs and that every end reads what arrives while
it is open. Without the second it does not hold: `sendmsg` blocks, and one peer that
stops reading stops every connection (`dbus_tap.py:185`). An end that closes closes both directions;
`shutdown` of one is not modelled. A send fails only when the receiver is gone, and a
blocking `sendmsg` sends all that it was given; `dbus_tap.py:167-170` swallows any other
error too, and does not look at the count that `sendmsg` returns, so what the kernel has no memory
for, or a stray signal cuts off, would be missing.

Assumptions about people and compilers: nobody puts the narrative marker inside a
generated block (`MarkerInBlock = FALSE`), where `state_sync.py:333` would honour it and
the rewrite then remove it. In C, a digit separator behind GNU range dots, a raw
string across a spliced line and a raw string whose delimiter holds a quote (which gcc
takes and `cyr_scan.py:238` reads as an ordinary string, so that there the two do differ)
are excluded, which no source of the repository has, and a
bundle declares no name twice, which cycc refuses.

Assumptions about the world in `DbusFrame`: the broker sends nothing after the
SASL lines until it is sent Hello, so no message byte is in the buffer when SASL
ends; a sender attaches a message's descriptors to the write with its first byte;
and the kernel ends a receive after a write that carried descriptors.

### Findings

* `samvada_zero`: "0: control is not held" (`samvada.cyr:44`) does not hold after a
  `TakeControl` whose reply stands behind a header that cannot be framed. The call
  returns `-71` or `-105`, control stays 0, and logind may have muted the VT.
  `samvada_release` still restores it, by closing the connection
  (`ConsoleRestored` holds).
* `samvada_gone`: "the connection's close released it" (`samvada.cyr:246-247`) does
  not hold when the `-107` comes from the latch that a partly written request sets
  (`_dbs_cut`): the socket is still open. Again `samvada_release` restores the VT.

* `state_sync_edit`: `state_sync.py` reads `state.md` before it runs every suite and writes
  the regenerated text of then (`state_sync.py:357-361`); a Covers cell written meanwhile is
  lost, against "written by hand and kept across regenerations" (`:16-17`). Between runs
  nothing is lost (`HandKept` in `state_sync`).
* `state_sync_cr`: the check for CR (`state_sync.py:331`) cannot meet one, because `read()`
  (`:80-83`) opens the file in text mode. A document with CR LF lines is not "an error"
  (`:450`) of a run: it exits 0 or 1, and when stale it is rewritten with LF. Nothing else
  that was written by hand changes then (`HandKept`).

`ControlAccounted` is what does hold: on a connection that is neither latched nor
torn, 0 means that control is not held and no `TakeControl` is still under way.

## What is proved

`SamvadaProofs`, for every `UintMax`, `HeldCap`, `MaxInbox`, set of asked pairs and
set of tables that meet `ConstantsOK` (each table has `close_bus`, asked pairs are
integers, in range or not):

* `TypeCorrect`: `Spec => []TypeOK`. In particular no number out of range reaches a request.
* `ReleaseOwed`: `Spec => []HeldOwesRelease`.
* `NothingLeft`: `Spec => []NoTableNoBus`.
* `DevicesStay`: `Spec => NeverRevoked`, the main one.
* `TableIsMine`: `Spec => []HeldIsMine`.
* `KeyInjective`: the packed key identifies a device in range.

None of the properties is inductive. `IInv` adds: `CallShape`, which stages a
public function can be in; `StageOwns`, what is true of control, bus and table at
each stage; `MineIsHeld`, a device in use is in the table, and the one a call is
about is not in use; `AnswerIsLast`, when a call has its answer logind's inbox is
empty, because the awaited request was the last one written; and
`InboxHarmless`, no request under way names a device in use, nor is there a
`ReleaseControl` under way while any device is. The argument for `NeverRevoked` is
then short: a device becomes `mine` only when its TakeDevice was answered, at
which point (`AnswerIsLast`) everything older has been handled; a later
`release_device` or `release_control` is written only when the device is not, or
nothing is, in use. Each action's preservation of each part is a step of its own.
`TableIsMine` needs, beside `MineIsHeld`, that no entry is in the table twice and that
every entry between calls is of a device in use: swap-with-last keeps the first, and the
stages of a take or a release say which one entry may be missing or too many.

`SamvadaControlProofs`, under the same assumptions:

* `ControlIsAccounted`: `Spec => []ControlAccounted`.
* `FailedTakesUndone`: `Spec => []FailedTakeUndone`.

The invariant, `CInv`, adds what samvada may conclude of logind. `RequestIsLast` is what
both rest on: while a call waits, its request is the last one on its way, so that its answer
means that everything before it was handled. `UndoSettled` and `GrantsNeedControl` then
give the second theorem, whether a `ReleaseDevice` or, with nothing else held, a
`ReleaseControl` undid the take. `ControlAccounted` speaks of idle states only;
`ZeroIsSettled` says it of every stage but the one that takes control, `TakingKnown` what is
true there (the request that is waited for is the only one that matters), `ReleaseKnown`
what an answered `ReleaseControl` shows, and `LostIsSettled` that the close of a lost
connection comes after every request written on it.

`DbusSessionProofs`, for every `MaxSerial`, timeout, backstop, cap and bound of `DbusSession`
(`SessionConstants` asks only that they are positive):

* `OwnAnswer`: `Spec => []OwnReply`, the main one.
* `OwnAnswerKept`: `Spec => NeverSkipsOwn`.
* `DeadlineKept`: `Spec => []EndsInTime`.
* `NothingAfterHalf`: `Spec => HalfIsLast`.
* `QuietMeansAlive`: `Spec => QuietIsAlive`.

`OwnReply` and `NeverSkipsOwn` follow from one invariant, `AInv`, whose heart is `Later`:
of the answers in the stream and of the requests the bus still has, exactly those of the
request in progress have its serial and lie at or behind the watermark. `Fresh` says
why that is so when the watermark is taken: a request begins with a serial that nothing
unanswered has and that no answer still to arrive carries. That is the assumption on the bus
(`SerialFree`) that the guard of `MethodBegin` states: a serial comes round after 2^32 - 1
requests. Nothing else is assumed of late answers, so an answer to a call that timed out may
arrive at any time before. `HelloFirst` covers the one call in which the name is not known,
so that a message for someone else would be taken: nothing precedes Hello's answer in the
stream. `Kind`, `Names` and `Stream` say which call may be where, when the name is
known, and how positions lie in the stream. `EndsInTime` follows from `Clock` (time spent and
time left never exceed the timeout, and a call with a clock never blocks in a
receive), `HalfIsLast` from `HInv` (half a request latches the connection, and no call is
writing on it).

`QuietIsAlive` from `QInv`: while a pump
receives, the framer has asked for more, so that the stream has neither ended nor is cut.

`DbusFrameProofs`, for every header size, buffer, largest message, queue length and set of
well-formed streams (`FrameConstants`: a header fits the buffer, and the buffer is smaller
than what a header may declare):

* `StaysInStep`: `Spec => []InStep`, the main one.
* `QueueIsHeads`, `DescriptorsAccounted`, `NamedIsGiven`: `Spec => []FdsAreHeads`,
  `[]FdsAccounted`, `[]DescriptorIsNamed`.
* `MovesAreBounded`: `Spec => []MovedBounded`.
* `FramerImplementsStream`: `Spec => ImplementsStream`, the refinement of `MessageStream`
  without its fairness.

The invariant, `FInv`, says that some message boundary is where the framer is (`HeadAt(k)`):
the head of the buffer, plus what is left to discard of an over-cap message, is where
message `k` begins, and nothing behind that message has been received. `InStep`
alone is not inductive: it does not know that a message that was yielded is whole in the
buffer, nor that what is being discarded is one over-cap message. `QueueOf(k)` gives the descriptors: all of message `k`,
none before its first byte, and each in its own place as long as as many arrived as
the message carries. That is what the comparison of the two counts buys, and
why the named descriptor is the right one although others may have been lost. `MovedBefore` is
the linear bound: bytes that were moved belong to messages that are done with, until the buffer
has been slid down for the head message, which happens once for each message. In the
refinement the abstract stream's position is `k`, so that each step of the framer
yields, discards or stutters.

`DbusTapProofs`, for every number of connections, plan of writes, queue length, receive
size and number of descriptors (`TapConstants`: the sizes are positive):

* `RelayIsTransparent`: `Spec => []Transparent`, the main one.
* `RecordedBeforeSent`: `Spec => []RecordedFirst`.
* `NothingLeaks`: `Spec => []NoLeak`.
* `DescriptorsArrive`: `Spec => []NoSilentLoss`.

`Relays` follows the bytes of a connection in each direction on their own
(`Flows`): what the capture has, what was received and not yet recorded, and what waits
in the kernel make, in this order, what was written; what was read on the other side or
waits there, and what is still to be sent, make what the capture has. `Busy`,
`Waiting` and `Owned` say which end the relay is working for and whose descriptors it holds. A
connection that was taken down leaves the first of these equations and keeps a prefix,
which is all that `Transparent` then asks. `Follows` finds a
descriptor by the byte it came with: it travels in the write that has that byte, so where the
byte is decides where the descriptor is, unless a receive dropped it and the capture
says so.

`ReaderProofs` has the proofs about two readers. The control-message walk, for every
alphabet of control messages (`CtrlPhrases`: a word is an integer; a message has a
level, a type and at most `ScmMaxFd` descriptors), any number of them, and any room for
descriptors (`FdMaxConstant`):

* `RightsAreCollected`: `TextSpec => []RightsCollected`. Whatever lengths the messages
  claim, nothing outside what was filled is read and the walk ends; of what a kernel
  writes, each descriptor that was passed is held, in order, or closed when there is no
  room, and the other descriptors are closed, each once.

The walk is a loop, and the proof goes turn by turn. `HeldOf` is its invariant: of the
descriptors met so far, the held ones are those passed, in order, as far as there is
room, and the closed ones are exactly the others. `Split` cuts what the kernel wrote
into its messages and `Reached` says where the walk stands in it: at the start of a
message, with those before it taken. A turn goes to the next message (`TurnReaches`),
and the turn after the last one ends the walk (`TurnEnds`).

The security scan, for every tree and manifest and every list of allowed and of denied
modules, of which `TreePhrases` assumes that the repository tracks nothing in `lib/` (it
is in `.gitignore`) and that what is in `dist/` is the bundle, in Cyrius; `ExtraAllowed`
says that the one module allowed without being listed, `bench`, is not among the denied:

* `BuildsAreScanned`: `TextSpec => []BuildScanned`. When the scan is clean, everything
  that the builds read, however long the chain of includes, has been scanned, as the
  language it is compiled as; each library module that comes in is allowed; no table or
  entry pulls in anything else.

`Seen` is what is kept along the includes: a file was walked, or is the bundle, it is a
regular file, and its own includes were judged as the language it is compiled as
(`IncludesSeen`). That what an include names exists is not enough: it could be behind a
link to a directory, and only the finding on every such link (`Linked`) excludes it
(`WalkedSeen`).

`DbusUnmarshalProofs`, for every alphabet of bytes and of header fields (`WirePhrases`:
a byte is 0 to 255; a field has any code, one of the seven signatures that `Value` can
write, and a value of that type), and so for header fields of any number and length:

* `FieldsAreFound`: `TextSpec => []FieldsFound`. Of any bytes, nothing beyond the
  message is read, and in what was accepted every sought field can be read. A list of
  fields that was encoded is accepted exactly if it is as the D-Bus specification asks,
  and then each defined field is found with the value it was sent with.

The first half is about any bytes. A step of the walk reads inside the message and fails
or goes strictly further (`FieldStepped`), so the distance to the end is a measure along
which both walks are functions, of where they stand and, in the validation, of the codes
seen (`FindWalks`, `ValidateWalks`); a walk that accepts from here accepts from the next
field too, which gives `AcceptedReadable`. The second half is about what the encoding
wrote: `EncodedFieldIs` gives a field's bytes with the padding before them,
`FieldsStand` says that the walk, field by field, gets to where each one stands, and
`WrittenRead` and `ValueOkIs` that what is read there is the field that was sent.
`AcceptedIfRight` and `FoundWhere` then take the walks from the last field back to the
first.

`SeqFacts` has what these proofs and those about the relay share: facts about
`FlattenSeq`, sums of lengths and recursive functions. The library's induction theorems
are out of the prover's reach, as they take an operator. Here an induction is stated
with a set: the naturals at which a fact fails would have a least one (`LeastNat`),
which gives `UpTo` and `Descent`. `Recursion` says that a function defined along a
measure exists and satisfies its definition, `Iteration` the same of a step taken n
times. An induction over data is done in this way once for each recursive function, with
its measure.

## What is only model-checked

* The liveness properties: `CallsReturn`, `ConsoleRestored`, `CallsEnd`,
  `StreamFollowed`, `Served`. Fairness is stated with `ENABLED`, which the prover does
  not handle.
* The other readers and gates (`CyrScan`, `CScan`, `DbusDecode`, `Gates`, `DbusAuth`).
  All but `DbusDecode` use `RECURSIVE` operators, for which the prover loses its SMT
  solver. `DbusUnmarshalProofs` has the lemmas on the encoding that `DbusDecode`
  decodes, but not what the decoder makes of it (`DecodesCapture`).
* `StatusIsTrue` and `HandKept` of `StateSync`: what a document says is a fold over its lines.

## What is not modelled, and why

* In `Samvada`: a send, receive or poll that fails with an errno that is neither a
  disconnect, `EINTR` nor `EAGAIN` (out of memory in the kernel), and a clock that
  fails. `DbusSession` has both. In `Samvada` such an errno
  after a TakeControl was written would leave control at 0 in the way `samvada_zero` shows
  for a framing fault. Failed allocations, which refuse before any effect.
* The marshaller: straight-line writes into one buffer with one latch; a test of each
  builder reaches all of it, and there is no order of calls to get wrong. Only the width of
  the serial is modelled (`OnWire`).
* The errno table (`dbus_session_map_error`): pairs of names and numbers, compared with
  sd-bus's by the repository's own fixture. The layers tell classes of errnos apart.
* The characters of a session path, and the bodies of the five requests.
* CR in Cyrius and in the bundle: the gates open these files in text mode
  (`surface_check.py:88`), so CR LF and CR are LF in what they read, and cycc gets the bytes.
* What `security_scan.py` looks for inside one file: regular expressions over single
  lines, each pinned by its self-test. `BuildScan` takes a file as clean, with a finding,
  or failing.
* How often a send is interrupted by a signal (`dbus_session.cyr:713`): a retry changes
  no state, and only fairness bounds it.
* The C shim: each slot is a wrapper around sd-bus, whose code is not here. The
  bundle in `dist/` is generated from `src/`.

## Plan

Done: `Logind`, `Samvada`, `SamvadaProofs`, `SamvadaControlProofs`, `MessageStream`, `DbusFrame`,
`DbusFrameProofs`, `DbusSession`, `DbusSessionProofs`, `DbusAuth`, `DbusUnmarshal`, `DbusSys`,
`DbusTap`, `SeqFacts`, `DbusTapProofs`, `StateSync`, `Text`, `CyrScan`, `CScan`, `DbusDecode`,
`Gates`, `BuildScan`, `ReaderProofs`, `DbusUnmarshalProofs`. Next, in this order:

1. Proofs: `DecodesCapture` of `DbusDecode` the way of `DbusUnmarshalProofs`, for messages with
   at most a last field of a type that the decoder does not read (it does not skip the value, so a
   field behind it would be read out of place); `SaslAsSent` of
   `DbusAuth`, first rewritten with recursive functions; `StatusIsTrue` of `StateSync`, with
   what its folds preserve.
2. An abstract specification of one backend call that `DbusSession` implements and
   `Samvada` is written against.

## Running

    tlc -workers 2 -config MCSamvada.cfg MCSamvada
    tlc -workers 2 -config MCDbusFrame.cfg MCDbusFrame
    tlc -workers 2 -config MCDbusSession.cfg MCDbusSession
    tlc -workers 2 -config MCDbusTap.cfg MCDbusTap
    tlc -workers 2 -config MCStateSync.cfg MCStateSync
    tlc -workers 2 -config MCReaders.cfg MCReaders
    tlc -workers 2 -config MCGates.cfg MCGates
    tlapm SamvadaProofs.tla
    tlapm SamvadaControlProofs.tla
    tlapm DbusSessionProofs.tla
    tlapm DbusFrameProofs.tla
    tlapm SeqFacts.tla
    tlapm DbusTapProofs.tla
    tlapm ReaderProofs.tla
    tlapm DbusUnmarshalProofs.tla

The mutated definitions (comment "Mutant:") are used by no specification. Each is
the plausible mistake that one property is there to catch; `PROJECT.json` pairs
them.

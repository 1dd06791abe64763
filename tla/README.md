# A TLA+ model of the VTP/1 reference implementation

VTP/1 carries GPS, CAN, IMU and OBD data from a vehicle to a client over
Bluetooth LE. This directory holds TLA+ modules that model the stateful parts of
the reference implementation (`src/reference/peripheral`) and of its conformance
harness (`src/harness`), TLC configurations that check them on small instances,
and TLAPS proofs, for every value of the constants, of what the transport, the
CAN table, the stream batches, the OBD transmitter, the aiding transfer, the
control client and the conformance run promise. Line numbers below refer to the sources under `src/`.

## 1. The system

| Part | State it keeps | Operations | Talks to |
| --- | --- | --- | --- |
| Transport, `serve.py` | link tracker, control queue, deferred answer, one held payload per stream, `_ready`/`_blocked_since`, rotation, observed MTU | GATT callbacks (read, control/aiding/monitor write, ready, subscribe), the pump's tick | the Bluetooth stack (callbacks on its thread), the device (calls) |
| Fake backend, `gattsim.py` | link, subscriptions, full transmit queue | connect, drop, (un)subscribe, stall, ready | drives the transport in its selftest |
| Device: sequence and loss, `vtp_device.py` | `_seq`, `_dropped` | stamp, commit, record_refused, link edges | called by the transport |
| Device: streams and batching | pending CAN and IMU batches, their base times, flush timer, deferred batches | `poll`, flushes, rate changes | transport takes what `poll` returns |
| Device: CAN subscriptions | table by (id, mask), per-identifier mode state | subscribe, mask, unsubscribe, reset, admission | control plane, bus frames |
| Device: OBD transmitter | poll set, cursor, pending and outstanding request, stamps, suspension, probe result, deferred answer | the poll loop, OBD_POLL_SET, OBD_INFO, CAN_RESET, link edges | the bus; the transport polls the deferred answer |
| Device: aiding | the open transfer, last token, MTU | BEGIN, chunk, COMMIT, link edges | control plane, aiding writes, the receiver |
| Device: monitor | values with write times, sequence | whole-snapshot write, expiry on read | monitor writes, display |
| Device: Info, power, time, rates | declared constants, a reading | reads, rate requests | control plane |
| Harness session, `session.py` | pending requests by tag, orphans, logs, what is believed installed | send, await, time out, reconnect | a transport |
| Harness runner and checks | results, the session's notes | phases of checks, collection, reconnection | a session |
| Harness transports, `transport.py` | loopback: the device, responses owed, one seeded defect; Bleak: a library's client | connect, read, write, deliver | the device, the session's callbacks |
| Codecs, `reference/python`, `reference/c` | none (the C producer keeps a batch) | encode, decode | everything |
| Schema, generator, vectors, tools | none at run time | build and checking | - |

What is hard here: two threads share the transport with no lock (the pump on the
asyncio thread, CoreBluetooth's delegate on its own); the link has no real edge
on the pinned backend, where `is_connected()` means *somebody is subscribed*;
the stack may refuse any notification and need not call back; an OBD probe
defers its answer while the pump runs; a car answers late, several times or not
at all, and falls asleep with a frame pending; aiding chunks are written without
an answer and may be overtaken or lost; a response may arrive after its caller
gave up, under a tag that has come round; a hundred checks share one device, one
connection and one log, and reprogram the device's table under each other.

What makes each part correct: the transport answers every request it applied,
once, to the link that asked, loses no item it does not count, numbers what is
delivered contiguously and never stops; the OBD role has one request on the bus,
respects every spacing, starves no group and touches a sleeping bus only at the
floors; aiding applies one transfer whole or not at all and gets a persistent
client to an end; the table forwards a frame once by its governing subscription;
batches span what `dt` can say, and `dropped` says what was lost; a control
client never takes a late answer for another request's; a conformance run fails
no conforming device and passes no defective one.

## 2. Modules

| Module | Models |
| --- | --- |
| `Peripheral` | `serve.py`: the pump's tick, statement group by statement group, the GATT callbacks, the link, the stack, and the device's sequence numbers and loss counters |
| `ControlChannel` | what a client may rely on of the control plane: abstract specification, implemented by `Peripheral` |
| `Peripheral_proofs`, `Peripheral_channel_proofs` | theorems about `Peripheral`: each step's bookkeeping, then what it promises its clients and that it implements `ControlChannel` |
| `CanTable` | the subscription table and the admission of frames, `vtp_device.py` |
| `CanGate` | what SPEC.md 6.8, 9.1, 9.2 and 15.7 promise of it, what it must forward as well as what it may: abstract specification, implemented by `CanTable` |
| `CanTable_proofs` | theorems about `CanTable`: its types, and that it implements `CanGate` |
| `DeviceStreams` | CAN and IMU batches, deferred flushes, the loss counter, MTU and link edges, `vtp_device.py` |
| `DeviceStreams_proofs` | theorems about `DeviceStreams` |
| `ObdTransmitter` | the OBD role of `vtp_device.py`: poll loop, poll set, probe, suspension, over a bus that sleeps, talks or is gatewayed |
| `ObdTransmitter_proofs` | theorems about `ObdTransmitter`: the wire and the probe, then the schedule |
| `Aiding` | the aiding transfer, the client's side of it, and the link edges and MTU it depends on |
| `Aiding_proofs` | theorems about `Aiding` |
| `ControlClient` | `ControlClient` of the harness's `session.py`, before a device that answers in its own time |
| `ControlClient_proofs` | theorems about `ControlClient` |
| `DeviceRoles`, `Loopback` | the device a conformance run meets, request by request, with one of `FAULTS` seeded or none (`vtp_device.py` behind `LoopbackTransport`) |
| `ControlChecks`, `StreamChecks`, `ObdChecks`, `ClientChecks`, `ProfileChecks` | the harness's checks as operators, by file |
| `HarnessRun` | one conformance run: `Runner.run`, the registry, the reconnection |
| `HarnessRun_proofs` | theorems about `HarnessRun` |
| `MC...` | instances for TLC |

`DeviceRoles <- Loopback <- ControlChecks <- StreamChecks, ObdChecks,
ClientChecks, ProfileChecks <- HarnessRun` extend one another.

### Peripheral

`pc` is the statement group `Peripheral.run` executes next and `cb` where a
callback is. A tick is `PumpRead` (the awaited `is_connected()`), `PumpEdge`
(tracker and edge handlers), `PumpSubs`, `PumpDue`/`PumpTake`/`PumpHold` (the
deferred answer), `PumpRetry`/`PumpElapsed` (the two readings of
`_blocked_since`), `PumpControl`/`PumpPop` (the queue), `PumpPoll` (what
`device.poll` produced, as counted items), `PumpGate`, `PumpOffer`, `PumpCommit`
and `PumpTickEnd` (the rotation over streams; `PumpCommit` is the number's commit
and the `del` of the payload, which a callback may have cleared by then) and
`PumpRefused`. Four places of a tick end the pump: the deferred answer, the retry
timer, the head of the queue or the payload gone when it is used. A control write is
`WriteArrives` (edge), `WriteAdmit` (the queue's verdict), `WriteEnd` (the
response is held or noted); the ready hook is two assignments, `ReadyHook` and
`ReadyHookEnd`.

`Preempt` names the statement groups inside which the other thread may run, so
each race is admitted by name: `poll` (between the awaited answer and its use),
`tick` (between groups), `due` (while the deferred answer changes hands),
`send` (between `update_value` and `popleft`), `streams` (inside the stream
pass), `write` (a callback is suspended while the pump runs), `hook` (the ready
hook against a refusal), `link` (the link itself changes inside a tick). With
`Preempt = {}` a tick is atomic, as in the transport's own selftest.

A request is a number with its link, its kind (quick or probe) and the verdict
it got; a payload is the count of its items, the `dropped` count in its header
and the link it was built for. `debt`, `heard`, `answered` and `gone` are
history. `LossAccounted` is kept for what `record_refused` is told of: a payload
thrown away because its stream is no longer subscribed takes its header's count with
it, which the history leaves out and `DiscardsStayCounted` (section 5) reports. `Swift` lets a link or an
outage be shorter than a poll: on the pinned
backend a central that drops and resubscribes between two polls is invisible by
the platform's design (`ConnectionTracker` explains it), so the passing runs keep
it off. `Fills` lets any value the stack takes fill its queue.

### CanTable and CanGate

An identifier is the set of its bits, a mask likewise, so that the stripping of
bits outside `CAN_MATCH_BITS`, the folding of an identifier under its mask,
matching and specificity are the code's own. `subscriptions` is the dictionary,
with per-identifier schedules in the entry that governed; a poll runs the ECUs'
frames and then the generator's, whose own rationing (`last`) is modelled beside
the rule's. A stop of the OBD polling (`PollStop`) judges what has arrived under the
old set before it clears it, and so moves the schedules of the table and lets the
fallback deliver; a link edge or CAN_RESET throws it away. `CanGate` knows none of
the bookkeeping: which rule each pair has, which pairs were installed before which,
when each identifier was last forwarded under each, what has arrived and what the
bus shows. A poll, and a stop, judge exactly the frames that are there: what they
owe goes, what they do not owe stays back. The refinement mapping reads "before" off
the order numbers. Only `out`, the frames of the last step, is history.

### DeviceStreams

`can` and `imu` are the pending batches with the arrival or acquisition time of
each record; a payload carries them, its base, and the `dropped` it reports.
`Poll` is one whole `poll()`: what requests deferred, the IMU backlog and samples,
the admitted frames in order of arrival, the timer. `StopPolling` accepts what the ECUs
have sent and flushes. The transport is reduced to
one held payload per stream that is taken or superseded, whose credit is
`record_refused`. GPS has no batch and no backlog and is not modelled. `unpaid`
(what was lost and not reported by a delivered header) and `clamped` are history.

### ObdTransmitter

One unit of time is the probe's 50 ms window. A poll is `PollBegin` (what was
heard; arrivals; snapshot of the set), `PollSettle` (outstanding and pending
requests, suspension), `PollNext` (one entry of `_obd_next_group` per step) and
`PollHand` (the request reaches the controller). Control writes fall between
polls, or inside one when `Concurrent`. An ECU's answer is the time it arrives
and the PID it echoes. All ECUs of the model are few enough to be reported, mask
responses echo PID 0 and each ECU answers each window, capability gates are
taken as declared, and an OBD_POLL_SET the parse refuses leaves the set alone and
is not a step. Delivery of the frames to the client is `CanTable`'s. `wire`,
`sent`, `adrift`, `waits` and `offers` are history.

### Aiding

A control request and its answer are one step (the channel is `Peripheral`'s).
A chunk in flight is a token, an index, a length and the serial number of the
transfer it was written for; data is right when serial, index and length are, and
a CRC distinguishes whatever differs. A refused format is refused like a refused
size. `ShortLag` bounds what may be overtaken: no chunk is held back while as
many transfers are opened as there are tokens; the code could not tell such a chunk
from the new transfer's. The receiver may refuse (`apply_aiding` is overridable and the harness
overrides it). `hooked` says whether the backend reports the MTU. The pump's poll
is one step here; its race is in `Peripheral`.

### ControlClient

A request is written (`Send`), reaches the device (`Reach`: taken, refused as
busy, or discarded when two are owed), is answered (`SendAnswer`), and its
callback runs (`Indication`) before or after the write comes back (`Written`).
A caller may give up (`TimeOut`) or have its write refused (`Refused`). A check
may pipeline one pair. Each event advances the clock, so that any two host
timestamps differ. `Losses + 1 < Tags`: no answer is so late that every tag has
come round; without that the code cannot tell either.

### The conformance run

A device is a record: what it declares, what SPEC.md leaves it free to do
(whether it sheds for load, how many schedules it can keep and so what it reclaims and
sheds at that bound, whether it offers discrete rates, answers a request whose answer
cannot leave, and when it answers), its car, its state, and `fault`, one name of
`FAULTS` or none. A request is answered whole (`Exchange`), a check is an operator
from the world (device, session, verdict so far) to the world, most often a
`Script` of requests (`Must`, `Should`, `May`, `MustNot`: what a refusal means) and
of windows in which the client listens (a device that sheds forwards fewer frames in
them, and says so), and `OneCheck` runs
the next one of the registry: the order, the capabilities a check requires, what
it notes in the session, what its `finally` writes, and what the next check finds
on the device are the code's. `Collect` is the observation window; `Drop`,
`Reopen` and `ReopenFails` the reconnect phase; `LinkLost` any transport failure.

Operators like these show little when they are merely plausible, so the model was
compared with the program: for each seeded defect, the set of checks that fail in
the model against the set that fails when the harness itself runs on the same
seeded device. They agree except for `no_tag_echo` (the model does not follow the
orphaned `busy` that later checks see) and the two advertisement defects (which
the loopback transport of the real run does not scan).

## 3. Runs

| Run | Question | Bounds |
| --- | --- | --- |
| `PeripheralStreams` | a real link edge, stalls and superseded payloads, callbacks between statement groups, the ready hook inside a refusal | 2 links, 1 request, 3 items, 1 stall, sequence numbers modulo 2; groups `tick hook` |
| `PeripheralControl` | the pinned backend, writes, payloads and link changes racing the pump | 2 links, 2 requests, 1 item; groups `tick send write link` |
| `PeripheralLive` | streams and responses leave under fairness | 1 link, 1 request, 2 streams, 1 item of each at a time, any value may fill the queue |
| `PeripheralStalePoll` | violated: the awaited `is_connected()` is stale | section 5 |
| `CanSubscriptions` | the table and the admission implement `CanGate` | 2 slots, 3 keys, 2 rules, 1 broadcast and 1 ECU identifier, 1 ECU frame waiting, 3 installations, 3 units of time |
| `DeviceStreams` | batches, counters and timer | batches of 1 to 3, window 1, timer 2, `dropped` saturates at 2, 4 units, 2 requests, 1 loss |
| `ImuGap` | violated: a batch over a skipped backlog | section 5 |
| `ObdPolling` | pacing, intervals, rotation, floors, probe | 12 units, 3 writes, 2 ignition switches, 2 ECUs, latencies 1 and 3 against a timeout of 2 |
| `AidingTransfer` | superseded, overtaken, lost and faulty transfers, MTU and edges | 2 links, 3 transfers, 2 chunks in flight, 1 loss, 1 fault, 2 tokens |
| `ClientRequests` | correlation under late answers | 5 requests, 3 tags, 1 pipelined pair, 1 caller that gives up or is refused |
| `HarnessRun` | the whole run against conforming and defective devices | 264 conforming devices, 99 defects with tables of 2 to 4 slots each, 5 command lines |
| `HarnessFalseAlarm` | violated: `--can-id` | section 5 |

Two links are enough for what leaks from one link to the next, and two requests
for one overtaking another, as no state of the transport remembers more than the
previous link and the control queue's verdicts depend on `Depth` and one deferred
answer. Three items let a payload be superseded twice, so a count a header
carried is carried again. Three keys, two that match the
same identifiers and a more specific one, in two slots: governance by specificity, by
order, displacement and `table_full` all happen; the second rule's argument is
longer than one interval of the bus and shorter than the run. Four units hold two
flush periods, a backlog longer than a batch, and a link edge after it. One of
the OBD latencies is below and one above the timeout, and twelve units hold a
suspension with both kinds of re-offer, or a probe and several rounds of the
schedule. Two tokens make the third transfer reuse the first's; five requests
over three tags make a tag come round under a late answer. Re-offer floors are
scaled to 1, 4 and 3 units: different, and not in order, so one cannot stand for
another. In `HarnessRun` the 64 slots above which a check does not fill the table
(`FillLimit`), the 40 requests of the busy check (`Rounds`) and the chunk limit
(`ChunkCap`) are small, and a device with more slots than `FillLimit` is among
the conforming ones. Their bounds on schedules lie below, at and above the number of
identifiers on the bus.

Each passing property has a seeded change of the model (definitions commented
"Mutant of") under which TLC finds it violated.

What the properties say, besides the type invariants:

- `LossAccounted`, `SeqContiguous`: what is produced is held, counted, delivered
  or reported; numbers are contiguous from 0 on each link.
- `RetryKept`, `HeldResponseFirst`: only the second assignment of a ready hook, when a
  refusal came in the middle of it, leaves a refused pump without its timer; no stream
  passes a response.
- `NothingForgotten`, `OneOutstanding`, `OwnLinkOnly`, `PumpSurvives`,
  `ChannelSpec`: the control plane against races, and as an implementation of
  `ControlChannel`.
- `ResponseDelivered`, `StreamsMove`: liveness of the transport; the second with two
  streams, of which one or another moves as long as any holds a payload. That each of
  them does is `StreamsFlow`, and false (section 5).
- `GatePromise`: the table refines `CanGate`: every frame that arrived is judged once,
  by its governor's rule, and goes out exactly if that rule, or an OBD poll that nothing
    governs, owes it, also when the poll set stops with frames waiting; and an update, a displacement or a
  removal owes what
  the specification says and nothing else.
- `BatchesHonest`, `RecordsLeaveInTime`: records are timed by the base they go
  out under; none stays past the timer while the stream can be delivered.
  `LossExact`: nothing is reported that was not lost and nothing lost is forgotten
  unless a report saturated.
- `OneOnTheBus`, `MinIntervalKeptInSet`, `NoMissedTurn`, `NoGroupStarved`,
  `ReofferFloors`, `InfoWhenComplete`: the OBD role. `OneOnTheBus` excuses what
  SPEC.md 15.4 does: a straggler that echoes a PID asked again.
- `OwnChunksOnly`, `AppliedWhole`, `ChunkWritable`, `TransferKept`,
  `OwnTransferOnly`, `TransferEnds`: aiding.
- `OwnAnswer`, `NoFalseAccusation`, `AnswerArrives`: a caller is handed the
  answer to its own request; the busy check accuses no device while no caller gave
  up; a taken request has its caller back.
- `NoOrdinaryFalseAlarm`, `DefectCaught`: the harness's own claim
  (`harness/selftest.py`) in both directions: without `--can-id`, a conforming device
  that is `Ordinary` is failed by no check, and each defect is caught by every check
  `CAUGHT_BY` names. `Ordinary` names the conforming devices that a run fails, one
  conjunct each (section 5): one OBD slot, fewer CAN slots than a silent car has ECUs,
  more slots than are filled with no masks, and a bound on schedules that the bus meets
  exactly. `NotesMatchSmallTable`: between two checks, what the session
  believes installed is installed.

### Fairness

`PeripheralLive` assumes that the pump keeps ticking (it is a loop with a bounded
sleep), that a callback which began returns, that time passes (the retry timer
elapses), a probe completes and a full transmit queue drains eventually. It
assumes nothing of the client and does not assume the ready callback: the retry
timer exists because that callback may not come. `TransferEnds` assumes a client
that writes what it still owes and commits, and a link that carries what is in
flight; chunk writing is strongly fair only because `MaxFlight` bounds the set
in flight. Losses are bounded by `MaxLost`. `AnswerArrives` assumes a device that
sends what it owes, a host that runs callbacks and a write that reaches the device
or is refused, and returns; no caller is assumed to give up.

### Interleavings the passing runs leave out

Of the names of `Preempt`, `PeripheralStreams` admits `tick` and `hook`,
`PeripheralControl` `tick`, `send`, `write` and `link`. What the others break, as found
by TLC, is in section 5: `poll` (run `PeripheralStalePoll`), `due`, `streams`, and `link`
on a backend with a real edge. With `hook`, in `PeripheralStreams`, the pump may end
between its two readings of `_blocked_since`; that run therefore does not check
deadlock, and leaves `PumpSurvives` to the other.

`ObdPolling` keeps `Concurrent` off: control writes fall between polls. The
device models other than `Peripheral` have no delegate thread: a write during
`poll()` is a race of the same kind as those above, and only the OBD one
(section 5) was followed.

## 4. Proofs

Every theorem is checked by TLAPS to the last leaf, for all constants that satisfy
the named assumptions of its module: every depth of the queue, number of links,
slots, tokens, tags, poll set, latency and floor, and every length of run (the
theorems hold under the bounds of the model for each value of those bounds).
A theorem that needs a group of statements to run undisturbed says so in an
`ASSUME` on `Preempt`, `Swift` or `Concurrent`, and section 3 says what happens
without it.

| Theorem | States | Assumes |
| --- | --- | --- |
| `Peripheral_proofs` | | |
| `TypeCorrect` | `[]TypeOK` | |
| `LossAlwaysAccounted` | `[]LossAccounted` | |
| `OnlyTheHookDisarms` | `RetryKept` | |
| `QueueStaysBounded` | `[]QueueBounded`: at most `Depth + 2` queued | no `due` |
| `OneRequestOutstanding` | `[]OneOutstanding` | `Depth = 1`, no `due` |
| `Peripheral_channel_proofs` | | |
| `NothingIsForgotten` | `[]NothingForgotten` | neither `poll` nor `due`; `Swift` only without `send` |
| `PumpAlwaysSurvives` | `[]PumpSurvives`: none of the four dead ends | the same, no `hook`, and not `streams` with `link` or `Swift` |
| `LinksDoNotMix` | `OwnLinkOnly` | `~Swift`, neither `poll` nor `due` |
| `NumbersFollow` | `SeqContiguous` | `~Swift`; no `poll`, `due` or `link` |
| `ImplementsControlChannel` | `ChannelSpec` | `Depth = 1`, neither `poll` nor `due`; `Swift` only without `send` |
| `CanTable_proofs` | | |
| `TypeCorrect` | `[]TypeOK` | |
| `ImplementsGate` | `GatePromise` | |
| `DeviceStreams_proofs` | | |
| `TypeCorrect` | `[]TypeOK` | |
| `BatchesAlwaysHonest` | `[]BatchesHonest` | |
| `LossAlwaysExact` | `[]LossExact` | |
| `RecordsLeave` | `RecordsLeaveInTime` | |
| `ObdTransmitter_proofs` | | |
| `TypeCorrect` | `[]TypeOK` | |
| `FloorsAreKept` | `[]ReofferFloors` | |
| `OneRequestOnTheBus` | `[]OneOnTheBus` | `~Concurrent` |
| `InfoWaitsForTheProbe` | `InfoWhenComplete` | `~Concurrent` |
| `TurnsAreTaken` | `NoMissedTurn` | `~Concurrent` |
| `GroupsHaveTheirTurn` | `[]NoGroupStarved` | `~Concurrent` |
| `IntervalsAreKept` | `MinIntervalKeptInSet` | `~Concurrent` |
| `Aiding_proofs` | | |
| `TypeCorrect` | `[]TypeOK` | |
| `ChunksAreOwn` | `[]OwnChunksOnly` | |
| `ChunksCanBeWritten` | `[]ChunkWritable` | |
| `TransferIsKept` | `[]TransferKept` | |
| `TransfersAreOwn` | `OwnTransferOnly` | |
| `OnlyWholeIsApplied` | `AppliedWhole` | |
| `ControlClient_proofs` | | |
| `TypeCorrect` | `[]TypeOK` | |
| `AnswersFindTheirRequest` | `[]OwnAnswer` | |
| `BusyNeverUnprovoked` | `[]NoFalseAccusation` | |
| `HarnessRun_proofs` | | |
| `TypeCorrect` | `[]TypeOK`: the verdicts are those of the checks behind, the table within its slots | |
| `NotesMatch` | `[]NotesMatchSmallTable` | |

### Along which argument

**Transport, bookkeeping.** `LossAccounted` is inductive with `TypeOK` alone: the
work is in `PollStream`, where a superseded payload's own count and its header's
both return to `dropped`. `RetryKept` assumes nothing about interleavings: every step but
one either leaves the timer and the flag alone or has the pump in `refused`, on its way
to arming it, and the one left is named by what it does. The queue bound is not inductive by itself: a slot
is also taken by
an answer in the pump's hand, by a callback between verdict and hold and by the
deferred answer, so `SlotsInv` bounds their sum, and `HandInv` says when the pump's
hand is full. `OneInv` strengthens "two are not owed" to all the places an applied
request can be (queue, deferred, in hand, between verdict and hold): at most one
place, and no admission while one is taken.

**Transport, promises.** A link edge clears what the transport holds, so nothing
about one client follows from the queue alone: one must know which client the
tracker has on record. `LinkInv` says that a client is on record as soon as one
request of its own took effect; `HoldInv` that what is held is held for the one on
record or for one whose outage the next poll reports; `ChanInv` and `OwnInv` that no
request is in two places and each is of the link it names. `StreamInv` and
`CountInv` say the same of held payloads and of their numbers: until the tracker
has caught up with the link no payload is offered, and afterwards the device's
counter is one ahead of what was heard. The refinement maps the places a request
may be in to what `ControlChannel` owes; each action is a step of it or a stutter.

**CAN table.** Order numbers are distinct and below the next one, so that of the
entries a frame matches exactly one governs it (`OneGoverns`), before and after any
frame of the same poll. A poll, or a stop, is an iteration over its frames; each step adds one
identifier to those passed, and the state after it is a closed form of the set that
has passed, in which neither the order of the frames nor a repeated one matters.
That is what `CanGate` says of a poll at once. Each other action is an action of
`CanGate`: an installation puts the pair last and forgets its history, a mask or an
unsubscription keeps the rest in order, time and `table_full` change nothing in the
table, an answer nothing at all.

**Streams.** A poll is three folds: over the samples due, over the frames admitted
and over the payloads they filled. A fold is a function whose value at `n` is one
step from its value at `n - 1`, so that what every step keeps, from one set of
states to the next, the whole poll keeps (`SampledStays`, `AcceptedStays`,
`OfferedAllStays`). `Sound` is what the steps keep of the buffers: the pending CAN
records are in order of arrival, inside the window of their base and none later
than the poll; the pending IMU samples are a period apart, and the next one is a
period after the last, unless a backlog was skipped under them. `BatchesHonest` is
that, carried over into the payload a flush makes. `LossExact` needs two accounts.
`Balance`: a flush moves a counter into a header, so counters and headers together
never say more than was lost, and say less only when some header is full (`DropMax`).
`Owed`: a payload superseded by the next returns what its header said and the records
it carried. For `RecordsLeaveInTime`, `TimerInv` ties the timer to the oldest pending
record: it fires no later than a flush period after that record arrived.

**OBD transmitter.** `TypeInv` places every instant with respect to the clock;
`FloorInv` ties the deadline of the next try on a silent bus to the tries made.
`PaceInv` is about the loop: in which states of a poll the clock, the set and the
cursor cannot have changed. `WireInv` says that a loop which does not wait faces a
free bus: an answer still to come is to the request outstanding, or a straggler
whose PID was asked again. The schedule works with the cursor as the number of
advances since the set was installed: `ScanInv` says which entries this scan has
passed and that none of them was due; `TurnInv` that a due group left waiting was
overtaken by one at most as often as there are entries between it and the cursor;
`MinInv` that a stamp is the time its group was last on the bus, unless the set was
replaced with that frame pending (`adrift`).

**Aiding.** `AidInv` says how the device's MTU follows the link's, that an open
transfer belongs to the central on record and to the last BEGIN, and that a chunk's
token is as many steps behind the last one as its transfer is: with fewer
transfers in between than there are tokens (`ShortLag`, section 2), a chunk can only
match its own.

**Control client.** Only the last two requests can be open; a response on its way
answers a request younger than any answered; so all between it and the last two
were given up or refused, too few for the tags to have come round
(`ClientAssumption`). `BusyInv` carries the host times that show what overlapped a
busy answer.

**Conformance run.** A check is a sequential program over one device, so what must
be shown of it is what it hands to the next: `Fine`, that it only asked the device
(whose table then stays finite and within its slots, whatever defect rewrites the
requests: `ExchangeKeeps`) and that the session still has what a check reads. Each of
the 94 checks is shown to hand on a `Fine` world, by lemmas on how checks are built
(`FineScript`, `FineCourse`, `FineIf`); where the code tries a list of requests in turn,
the model is a recursive function whose value at `n` is one request from its value
at `n - 1`. `TypeInv` carries this along the registry, which is a concatenation of the
phases: the lengths of the phases give the place of each (`Stages`, `Placement`), and
only seven checks change what is noted as installed (`Disturbing`).

`NotesMatchSmallTable` is not inductive: a check that resets the table and forgets
the notes keeps the two together whatever they were, but one that resets the table
and keeps its notes (`can.transmission_bits_ignored`, `can.identity_is_the_pair`) does
so only if nothing was noted. `NotesInv` therefore says where in the
registry what can be noted (`Stock`): from the first subscription to the check that
fills the table at most the probe, and nothing from there until the observation. It also says
that what is noted can be asked for again, without which the checks of the streams
could not put the table back (`RestoredMatches`), and that the table has as many slots as
Info said, at most: above `FillLimit` the filling checks skip, the notes stay, and the
property fails (section 5). At a conforming device an exchange is `handle_control`
alone (`Conforms`), and a subscription already in the table is never refused
(`Subscribing`). The assumptions are about what a run begins with
(`DeviceAssumption`, `OptionAssumption`: a device nobody has asked anything, a command
line of finitely many exact identifiers) and `FillAssumption`, that the limits are numbers.

### Only model-checked

Liveness under fairness (`ResponseDelivered`, `StreamsMove`, `TransferEnds`,
`AnswerArrives`): the installed provers have neither ENABLED nor induction over
data. `HeldResponseFirst`: what is left of it without the interleavings that break it
follows from the gate alone. `NoOrdinaryFalseAlarm` and `DefectCaught` of `HarnessRun`:
claims about given checks against given devices, a table to enumerate. And the runs that expect a violation.

## 5. Disagreements found

Three are runs of one property that TLC violates.

1. `PeripheralStalePoll`: the rising edge taken by a control write while the pump
   awaits `is_connected()` is undone by the stale answer; an applied request loses
   its answer. In the same window the next central's subscribe hook may already
   have set the MTU, and the false disconnect puts it back to the ceiling.
2. `ImuGap`: the IMU backlog of a device not polled for long is skipped under a
   pending batch (`vtp_device.py:992`); SPEC.md:950 ends the batch there.
3. `HarnessFalseAlarm`: with `--can-id`, `can.matches_subscription`
   (`checks/streams.py:769`) judges frames that earlier phases asked for, and fails
   a conforming device.

TLC finds the others in the same way. The properties stay in the modules, and no run
carries them: to see one, take the configuration of the column, make the change, and
check the one property.

| Property | From | Change | Where, and what it contradicts |
| --- | --- | --- | --- |
| `RetryArmed` | `PeripheralStreams` | none | `serve.py:868`: the ready hook's second assignment comes after a refusal and clears the timer just armed; "Try again without waiting for a callback that may not come" (1057) |
| `PumpSurvives` | `PeripheralStreams` | none | `serve.py:1070`: `_blocked_since` is set to `None` between its two readings and the pump subtracts it |
| `PumpSurvives` | `PeripheralStreams` | `Preempt = {"tick", "streams", "link"}` | `serve.py:1125`: a callback takes the edge of a new link and clears the payload that is about to be deleted; the tracker's comment (1031) has either side handle an edge |
| `SeqContiguous` | `PeripheralStreams` | `Preempt = {"tick", "link"}` | `serve.py:1040`: a link replaced inside a tick gets the numbers of the one before, which "the connection edge is handled BEFORE" (1024) is to prevent |
| `OneOutstanding` | `PeripheralControl` | `Preempt = {"due"}` | `serve.py:1050`: between the taking of the deferred answer and its queueing nothing is outstanding, and a second request is applied, against SPEC.md:1114 |
| `HeldResponseFirst` | `PeripheralStreams` | `Preempt = {"streams"}` | `serve.py:1116`: a response queued during the stream pass is overtaken, against SPEC.md:1323 |
| `StreamsFlow` | `PeripheralLive` | `MaxReqs = 0` | `serve.py:1117`: the rotation advances on refused passes too, so with room for one value at a time one of two streams can be the refused one for ever, which the rotation is there to end (1107) |
| `DiscardsStayCounted` | `PeripheralStreams` | `Preempt = {}` | `serve.py:1097`: the payload of a stream no longer subscribed is thrown away with the loss count in its header, against SPEC.md:1076 |
| `QueueHoldsTwo` | `PeripheralControl` | `MaxReqs = 3` | `serve.py:1055`: two busy refusals and the deferred answer, which is not admitted, are three; "this queue holds TWO" (240) |
| `LoopSurvives` | `ObdPolling` | `Concurrent = TRUE` | `vtp_device.py:1514`: the poll set is emptied between the two reads of `_obd_next_group`, which the snapshot's comment (1014) is about |
| `MinIntervalKept` | `ObdPolling` | `PollSets <- Minimum` | `vtp_device.py:1294`: a frame pending over a replacement stamps an entry of the old list, so its group goes again before its minimum (SPEC.md:2808, comment at 2082); `MinIntervalKeptInSet` is what holds |
| `SuspendedOnOwnRequest` | `ObdPolling` | none | `vtp_device.py:2106`: a frame of the old set goes unacknowledged and suspends the new one, none of whose requests was offered, although "the loop offers a request under the new set at once" |
| `BatchLatencyBounded` | `DeviceStreams` | `Window = 3`, `MaxTime = 6` | `vtp_device.py:1892`: CAN_UNSUBSCRIBE of the last entry leaves frames pending that neither the timer nor the span flushes, against SPEC.md:722 |
| `NeverFalselyAccused` | `ClientRequests` | none | `checks/control.py:606`: the answer of a caller that gave up is not in the history when the `busy` it caused is judged, although "Exclusion is therefore sound" (587). The harness does this on its own loopback device with `control_latency=3.3` |
| `NotesMatchTable` | `HarnessRun` | none | a device with more than 64 slots: `can.transmission_bits_ignored` resets the table without clearing the notes, which no restoring check then rewrites; `reconnect.subscriptions_cleared` can pass with nothing installed |

Conforming devices that a run fails, against `harness/selftest.py:7` ("A tool that fails
a conforming device is worse than no tool"). Each violates `NoFalseAlarm` in
`HarnessFalseAlarm` with `Options <- MCPlainOptions` and the `Devices` named, and each
was confirmed on the harness itself with its loopback device:

| `Devices` | The check that fails it |
| --- | --- |
| `MCOneObdSlot` | `obd.grouping_refusals`, `obd.grouping_is_one_request`, `obd.group_minimum_is_honoured` (`checks/obd.py:757`) ask a device of one OBD slot for two PIDs |
| `MCQuietCar` | `obd.poll_and_flag` (`checks/obd.py:429`) subscribes every ECU of a silent car and fails the device that has no slot for the second; `transport.py:390` calls that silence legal, "which no check may Fail" |
| `MCUnmasked` | `can.matches_subscription` (`checks/streams.py:772`), without `--adversarial`: with no masks and 65 slots the probe's entry alone is on record, and the frames of the OBD fallback are judged against it |
| `MCAtBound` | `can.displaced_schedule_survives` (`checks/streams.py:1401`): a bound on schedules equal to the number of identifiers under the broad mask reclaims the displaced one, which SPEC.md:857 calls conformant and the check's comment (1342) takes to be left to a bound of two |

Two more were seen and not modelled: an MTU lowered over a pending batch makes the next
flush longer than a notification (`vtp_device.py:1752`), and IMU_SET_RATE with the rate
there is restarts the sample clock, against SPEC.md 9.6.

## 6. Not modelled, and why

Of the device: GPS fixes, stored monitor values and their
expiry, the parse and encoding of every record (stateless: layouts and ranges that
the conformance vectors enumerate), the bytes of Info, frames and ISO-TP, the
readings of TIME_SYNC, the simulated circuit. Of the transport: its start-up
(advertising, attribute permissions), the pump's deadline arithmetic, the screen
and logging.

Of the harness: `BleakTransport` and `macos.py` (a library wrapper and a system
lookup), pairing and the checks that need it, the report's text, and 27 of the
121 checks: `adv.name`, `dis.present`, `gatt.service`, `gatt.info`,
`gatt.family`, `info.reserved_fields`, `info.can_payload`, `info.identity`,
`info.stable`, `reconnect.info_reread`, `link.att_mtu`, `security.posture`,
`power.source_defined`, `monitor.channels`, `monitor.freshness`, `aiding.format`,
`obd.transmit_instant`, the reserved bits of GPS, CAN headers and IMU,
`gps.fix_types`, `gps.num_sv_scope`, `imu.saturation`, `seq.gaps`, `loss.dropped`,
`stream.rates` and `transport.unverifiable`. They read a value and compare it, or
report one, and nothing later depends on them. Left out with them: the property bits
of characteristics, a device that refuses to be opened, the deferral of OBD_INFO
(one exchange here; `Peripheral` and `ObdTransmitter` have it). Members of `FAULTS`
that are freedoms of a conforming device (`answers_before_the_next_write`,
`host_callback_lands_late`, `pool_full_holds_response`) are the device's `timing`
and `unanswerable`, and not defects.

The codecs, the generator, the tools, the vectors and the display have no
protocol state. The components of `PROJECT.json` name each.

## 7. Plan

Done: the transport and its proofs; the OBD transmitter; aiding; the CAN table
and its abstract specification; streams and loss; the control client; the
conformance run.

What is proved and what is left: every safety property that a passing run checks
has its theorem, but `HeldResponseFirst`, `NoOrdinaryFalseAlarm` and `DefectCaught`
(section 4, "Only model-checked").
Worth proving next are weaker hypotheses: which part of each promise of the transport
and of the OBD loop survives the interleavings that section 4 assumes away, beyond
the theorems that assume nothing already.

Worth modelling when it is needed: a delegate thread over `DeviceStreams`, and
the expiry of monitor values with the display that reads them.

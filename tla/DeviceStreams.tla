---------------------------- MODULE DeviceStreams ----------------------------
(***************************************************************************)
(* The telemetry the reference device builds (reference/peripheral/        *)
(* vtp_device.py): CAN records batched by capacity, by the window dt can   *)
(* express and by a timer; IMU samples batched by capacity and period, a   *)
(* backlog skipped; flushes deferred by control requests; `dropped` as it  *)
(* is counted, reported and saturated; the link edges and the MTU.  The    *)
(* transport (serve.py) is what it does to a payload: one is held for each *)
(* stream, taken or superseded (module Peripheral has the rest).  Which    *)
(* frame is admitted is CanTable's.                                        *)
(***************************************************************************)
EXTENDS Integers, Sequences, FiniteSets, SequencesExt

CONSTANTS
    Window,          \* the largest dt, 0xFFFF
    FlushEvery,      \* the timer of partial CAN batches
    DropMax,         \* 0xFFFF: what `dropped` says at most
    Ceiling,         \* capacities at the --mtu argument: [can, imu]
    Links,           \* capacities at the MTUs links negotiate
    Period,          \* [rates that are not 0 -> sample interval]
    Profiles,        \* the streams a device may declare
    Busy,            \* how many frames a poll admits at most
    MaxTime, MaxControl, MaxLoss       \* bounds of the model

ASSUME ProfileAssumption == Profiles \subseteq SUBSET {"can", "imu"}
ASSUME StreamBounds == {Window, FlushEvery, DropMax, Busy, MaxTime, MaxControl, MaxLoss} \subseteq Nat
ASSUME CapacityAssumption ==
    \A c \in Links \cup {Ceiling} : c.can \in Nat \ {0} /\ c.imu \in Nat \ {0}
ASSUME PeriodAssumption == \A hz \in DOMAIN Period : hz # 0 /\ Period[hz] \in Nat \ {0}

VARIABLES
    caps,            \* the streams this device declares
    now, polled,     \* the clock, and what it said at the last poll
    up,              \* the device is between on_connect and on_disconnect
    capacity,        \* _can_capacity() and _imu_capacity() at the current mtu
    subs,            \* _subscriptions or _obd_poll is non-empty
    can,             \* _can_pending's bus-arrival times and _can_batch_t0
    imu,             \* _imu_pending's acquisition times and _imu_batch_t0
    imu_hz,
    next_imu, next_flush,    \* _next_imu_us, _next_can_flush_us
    deferred,        \* _deferred
    dropped,         \* _dropped
    held,            \* Peripheral._pending: one payload of each stream or none
    requests, losses,        \* counted by the bounds
    unpaid,          \* items discarded and not reported by a delivered header (history)
    clamped          \* a report said "at least" (history)

counters == <<requests, losses>>
history  == <<unpaid, clamped>>
buffers  == <<can, imu, next_imu, next_flush, deferred, dropped>>
vars == <<caps, now, polled, up, capacity, subs, imu_hz, buffers, held, counters, history>>

Streams == {"can", "imu"}
None    == -1
Empty   == [t0 |-> None, times |-> <<>>, torn |-> FALSE]
Nothing == [stream |-> "none", t0 |-> None, times |-> <<>>, period |-> 0, dropped |-> 0,
            torn |-> FALSE]
Pending == {p \in {held[s] : s \in Streams} \cup ToSet(deferred) : p # Nothing}

Batches == [t0 : {None} \cup 0..MaxTime, times : Seq(0..MaxTime), torn : BOOLEAN]

\* A batch has a base as long as it has records, at most one payload of a stream is held,
\* and what is reported fits its sixteen bits.
TypeOK ==
    /\ caps \in Profiles
    /\ now \in 0..MaxTime /\ polled \in None..now /\ up \in BOOLEAN /\ subs \in BOOLEAN
    /\ capacity \in Links \cup {Ceiling}
    /\ can \in Batches /\ imu \in Batches
    /\ (can.t0 = None) <=> (can.times = <<>>)
    /\ (imu.t0 = None) <=> (imu.times = <<>>)
    /\ imu_hz \in DOMAIN Period \cup {0}
    /\ next_imu \in Nat /\ next_flush \in Nat
    /\ \A p \in Pending : p.stream \in Streams /\ p.dropped \in 0..DropMax
    /\ dropped \in [Streams -> Nat]
    /\ requests \in 0..MaxControl /\ losses \in 0..MaxLoss

Init ==
    /\ caps \in Profiles
    /\ now = 0 /\ polled = None /\ up = FALSE /\ capacity = Ceiling /\ subs = FALSE
    /\ can = Empty /\ imu = Empty
    /\ imu_hz \in IF "imu" \in caps THEN DOMAIN Period ELSE {0}
    /\ next_imu = 0 /\ next_flush = 0
    /\ deferred = <<>> /\ dropped = [s \in Streams |-> 0]
    /\ held = [s \in Streams |-> Nothing]
    /\ requests = 0 /\ losses = 0
    /\ unpaid = [s \in Streams |-> 0] /\ clamped = FALSE

-----------------------------------------------------------------------------
(* Building a batch.  w is what a poll changes: [can, imu, next, dropped, out]. *)

Smaller(a, b) == IF a < b THEN a ELSE b
Larger(a, b)  == IF a > b THEN a ELSE b

Payload(s, b, d) ==
    [stream |-> s, t0 |-> b.t0, times |-> b.times, dropped |-> Smaller(d, DropMax),
     period |-> IF s = "imu" THEN Period[imu_hz] ELSE 0, torn |-> b.torn]

\* _flush_can, _flush_imu and _take_dropped: nothing to send sends nothing.
Flush(w, s) ==
    IF w[s].times = <<>> THEN w
    ELSE [w EXCEPT ![s] = Empty, !.dropped[s] = 0,
                   !.out = Append(@, Payload(s, w[s], w.dropped[s]))]

\* Mutant of Put: the base is left to whoever flushed last.
PutUnbased(b, t) == [b EXCEPT !.times = Append(@, t)]
Put(b, t) ==
    [t0 |-> IF b.t0 = None THEN t ELSE b.t0, times |-> Append(b.times, t), torn |-> b.torn]

\* Mutant of Overflows: the window is not looked at.
OverflowsFull(b, t) == Len(b.times) >= capacity.can
Overflows(b, t) ==
    \/ b.t0 # None /\ t - b.t0 > Window
    \/ Len(b.times) >= capacity.can

Accept(w, t) ==
    IF Overflows(w.can, t) THEN LET f == Flush(w, "can") IN [f EXCEPT !.can = Put(Empty, t)]
    ELSE [w EXCEPT !.can = Put(@, t)]

\* Samples the device was not polled for, beyond one capacity, are not replayed.
Behind == IF now > next_imu THEN (now - next_imu) \div Period[imu_hz] ELSE 0

Skipped == Larger(0, Behind - capacity.imu)

Skip(w) ==
    [can |-> w.can, next |-> w.next + Skipped * Period[imu_hz], out |-> w.out,
     dropped |-> [w.dropped EXCEPT !.imu = @ + Skipped],
     imu |-> [t0 |-> w.imu.t0, times |-> w.imu.times,
              torn |-> w.imu.torn \/ (Skipped > 0 /\ w.imu.times # <<>>)]]

Sample(w, t) ==
    LET full == [w EXCEPT !.imu = Put(w.imu, t), !.next = t + Period[imu_hz]]
    IN  IF Len(full.imu.times) >= capacity.imu THEN Flush(full, "imu") ELSE full

SampleTimes(w) ==
    [n \in 1..(IF now < w.next THEN 0 ELSE (now - w.next) \div Period[imu_hz] + 1) |->
        w.next + (n - 1) * Period[imu_hz]]

\* Folds are recursive functions, which the proofs can unfold.
Sampled(w, times) ==
    LET after[n \in 0..Len(times)] == IF n = 0 THEN w ELSE Sample(after[n - 1], times[n])
    IN  after[Len(times)]

ImuPart(w) ==
    IF imu_hz = 0 THEN w
    ELSE LET s == Skip(w) IN Sampled(s, SampleTimes(s))

\* The timer of partial batches, and the stream it leaves to the transport.
TimerDue == subs /\ held["can"] = Nothing /\ now >= next_flush

\* Mutant of NextFlush: a flush held back restarts the timer all the same.
NextFlushHeld == IF subs /\ now >= next_flush THEN now + FlushEvery ELSE next_flush
NextFlush == IF TimerDue THEN now + FlushEvery ELSE next_flush

Accepted(w, frames) ==
    LET after[n \in 0..Len(frames)] == IF n = 0 THEN w ELSE Accept(after[n - 1], frames[n])
    IN  after[Len(frames)]

Buffers == [can |-> can, imu |-> imu, next |-> next_imu, dropped |-> dropped, out |-> deferred]

\* poll(): what control requests deferred, the IMU, the admitted frames in the
\* order of their arrival, the timer.
Polled(frames) == Accepted(ImuPart(Buffers), frames)

\* Frames admitted in one step, in order: they have arrived since the last poll.
Arrivals ==
    {f \in UNION {[1..n -> {t \in 0..now : polled < t /\ now - 1 <= t}] : n \in 0..Busy} :
        \A m \in DOMAIN f : m > 1 => f[m - 1] <= f[m]}

-----------------------------------------------------------------------------
(* What the transport does with payloads *)

\* Mutant of Credit: record_refused counts the items and forgets the report.
CreditItems(p) == Len(p.times)
Credit(p) == IF p = Nothing THEN 0 ELSE Len(p.times) + p.dropped

Offered(h, p) ==
    [held |-> [h.held EXCEPT ![p.stream] = p],
     dropped |-> [h.dropped EXCEPT ![p.stream] = @ + Credit(h.held[p.stream])],
     unpaid |-> [h.unpaid EXCEPT ![p.stream] = @ + Len(h.held[p.stream].times)]]

OfferedAll(h, payloads) ==
    LET after[n \in 0..Len(payloads)] == IF n = 0 THEN h ELSE Offered(after[n - 1], payloads[n])
    IN  after[Len(payloads)]

Poll ==
    /\ polled < now                  \* a unit of time is at least a pump's tick
    /\ \E frames \in IF subs THEN Arrivals ELSE {<<>>} :
           LET w == Polled(frames)
               f == IF TimerDue THEN Flush(w, "can") ELSE w
               h == OfferedAll(
                        [held |-> held, dropped |-> f.dropped,
                         unpaid |-> [unpaid EXCEPT !.imu = @ + IF imu_hz = 0 THEN 0 ELSE Skipped]],
                        f.out)
           IN  /\ can' = f.can /\ imu' = f.imu /\ next_imu' = f.next
               /\ next_flush' = NextFlush
               /\ deferred' = <<>>
               /\ held' = h.held /\ dropped' = h.dropped /\ unpaid' = h.unpaid
               /\ clamped' = (clamped \/ \E n \in DOMAIN f.out : f.out[n].dropped = DropMax)
               /\ polled' = now
               /\ UNCHANGED <<caps, now, up, capacity, subs, imu_hz, counters>>

Take(s) ==
    /\ up /\ held[s] # Nothing
    /\ held' = [held EXCEPT ![s] = Nothing]
    /\ unpaid' = [unpaid EXCEPT ![s] = @ - held[s].dropped]
    /\ UNCHANGED <<caps, now, polled, up, capacity, subs, imu_hz, buffers, counters, clamped>>

-----------------------------------------------------------------------------
(* Control requests and link edges *)

Request == up /\ requests < MaxControl /\ requests' = requests + 1

ResetDropped == [dropped EXCEPT !.can = Smaller(DropMax, @ + Len(can.times))]

CanReset ==
    /\ "can" \in caps /\ Request
    /\ subs' = FALSE /\ can' = Empty /\ dropped' = ResetDropped
    /\ unpaid' = [unpaid EXCEPT !.can = @ + Len(can.times)]
    /\ clamped' = (clamped \/ ResetDropped.can = DropMax)
    /\ UNCHANGED <<caps, now, polled, up, capacity, imu, imu_hz, next_imu, next_flush, deferred, held,
                   losses>>

\* A subscription or a poll set where there was none.
Arm ==
    /\ "can" \in caps /\ up /\ ~subs /\ subs' = TRUE
    /\ UNCHANGED <<caps, now, polled, up, capacity, imu_hz, buffers, held, counters, history>>

\* A batch that w holds goes before what the request changes.
Deferring(w0, s) ==
    LET w == Flush(w0, s)
    IN  /\ deferred' = w.out /\ dropped' = w.dropped /\ can' = w.can /\ imu' = w.imu
        /\ clamped' = (clamped \/ \E n \in DOMAIN w.out : w.out[n].dropped = DropMax)

\* The poll set cleared by _obd_stop with flush: the ECU frames that have come are
\* accepted under it, and all it accepted is flushed.
StopPolling ==
    /\ "can" \in caps /\ Request /\ subs' \in {subs, FALSE}
    /\ \E frames \in IF subs THEN Arrivals ELSE {<<>>} :
           Deferring(Accepted(Buffers, frames), "can")
    /\ UNCHANGED <<caps, now, polled, up, capacity, imu_hz, next_imu, next_flush, held, losses, unpaid>>

\* CAN_UNSUBSCRIBE of the last entry.
Unsubscribe ==
    /\ "can" \in caps /\ Request /\ subs /\ subs' = FALSE
    /\ UNCHANGED <<caps, now, polled, up, capacity, imu_hz, buffers, held, losses, history>>

RateFlush == Deferring(Buffers, "imu")

ImuSetRate(hz) ==
    /\ "imu" \in caps /\ Request /\ RateFlush
    /\ imu_hz' = hz /\ next_imu' = now
    /\ UNCHANGED <<caps, now, polled, up, capacity, subs, next_flush, held, losses, unpaid>>

\* set_negotiated_mtu, from the subscribe hook.
NegotiatedMtu ==
    /\ up /\ capacity' \in Links
    /\ UNCHANGED <<caps, now, polled, up, subs, imu_hz, buffers, held, counters, history>>

\* on_connect, and the transport's reset with it.
OnConnect ==
    /\ ~up /\ up' = TRUE
    /\ dropped' = [s \in Streams |-> 0] /\ subs' = FALSE
    /\ can' = Empty /\ imu' = Empty /\ deferred' = <<>>
    /\ held' = [s \in Streams |-> Nothing]
    /\ unpaid' = [s \in Streams |-> 0] /\ clamped' = FALSE
    /\ UNCHANGED <<caps, now, polled, capacity, imu_hz, next_imu, next_flush, counters>>

OnDisconnect ==
    /\ up /\ up' = FALSE
    /\ subs' = FALSE /\ can' = Empty /\ capacity' = Ceiling
    /\ held' = [s \in Streams |-> Nothing]
    /\ UNCHANGED <<caps, now, polled, imu, imu_hz, next_imu, next_flush, deferred, dropped, counters, history>>

SimulateLoss(s) ==
    /\ up /\ s \in caps /\ losses < MaxLoss /\ losses' = losses + 1
    /\ dropped' = [dropped EXCEPT ![s] = @ + 1] /\ unpaid' = [unpaid EXCEPT ![s] = @ + 1]
    /\ UNCHANGED <<caps, now, polled, up, capacity, subs, imu_hz, can, imu, next_imu, next_flush, deferred,
                   held, requests, clamped>>

Tick ==
    /\ now < MaxTime /\ now' = now + 1
    /\ UNCHANGED <<caps, polled, up, capacity, subs, imu_hz, buffers, held, counters, history>>

Next ==
    \/ Poll \/ Tick
    \/ CanReset \/ Arm \/ StopPolling \/ Unsubscribe
    \/ \E hz \in DOMAIN Period \cup {0} : ImuSetRate(hz)
    \/ NegotiatedMtu \/ OnConnect \/ OnDisconnect
    \/ \E s \in Streams : Take(s) \/ SimulateLoss(s)

Spec == Init /\ [][Next]_vars

-----------------------------------------------------------------------------
(* Properties *)

Even(p) == \A n \in DOMAIN p.times : p.times[n] = p.t0 + (n - 1) * p.period

\* A batch's records are timed by its own t_base: a CAN record from the base on,
\* inside the window, in the order of arrival; an IMU sample where its index puts it,
\* unless a backlog was skipped under the batch.
BatchesHonest ==
    \A p \in Pending :
        /\ p.times # <<>> /\ p.t0 = p.times[1]
        /\ p.stream = "can" =>
             /\ \A n \in 2..Len(p.times) : p.times[n - 1] <= p.times[n]
             /\ p.times[Len(p.times)] - p.t0 <= Window
        /\ p.stream = "imu" /\ ~p.torn => Even(p)

\* SPEC.md 7: every sample in one batch is evenly spaced by its period, and a
\* batch ends at a discontinuity.
SamplesEvenlySpaced == \A p \in Pending : p.stream = "imu" => Even(p)

\* What the headers of some payloads say of a stream, and what `dropped` will say of it, in
\* counters and in headers not yet delivered.
Said(s, payloads) ==
    LET sum[n \in 0..Len(payloads)] ==
            IF n = 0 THEN 0
            ELSE sum[n - 1] + IF payloads[n].stream = s THEN payloads[n].dropped ELSE 0
    IN  sum[Len(payloads)]
Unreported(s) == dropped[s] + held[s].dropped + Said(s, deferred)

\* SPEC.md 8.3: nothing is reported that was not lost, and nothing lost is
\* forgotten unless a report said "at least" (_take_dropped, record_refused, CAN_RESET).
LossExact ==
    up => \A s \in Streams :
        /\ Unreported(s) <= unpaid[s]
        /\ ~clamped => Unreported(s) = unpaid[s]

\* What poll() leaves pending while the stream can be delivered is younger than one
\* flush period: the timer in poll() catches every record no other flush does.
RecordsLeaveInTime ==
    [][Poll /\ subs /\ held["can"] = Nothing =>
         \A n \in DOMAIN can'.times : now - can'.times[n] < FlushEvery]_vars

\* SPEC.md 6.1: no record waits in a batch for longer than the window of a dt, whatever is
\* subscribed by then.
BatchLatencyBounded ==
    [][Poll /\ held["can"] = Nothing =>
         \A n \in DOMAIN can'.times : now - can'.times[n] <= Window]_vars

=============================================================================

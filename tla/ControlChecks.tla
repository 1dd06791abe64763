---------------------------- MODULE ControlChecks ----------------------------
(***************************************************************************)
(* The checks of harness/vtp1_harness/checks/control.py as operators.  A    *)
(* check takes the world of a run, w: the device, the session's notes and   *)
(* the verdict, and asks one request after the other; the first Fail, Skip  *)
(* or Observe ends it, and only what its `finally` does still happens.      *)
(***************************************************************************)
EXTENDS Loopback

CONSTANTS
    FillLimit,       \* the 64 slots above which a check does not fill the table
    Rounds           \* the 40 requests of no_busy_for_conforming_client

ASSUME FillAssumption == FillLimit \in Nat /\ Rounds \in Nat \ {0}

Probe     == Exact(<<"probe", 0>>)
BusyProbe == Exact(<<"busy_probe", 0>>)
Identity  == <<"identity", 0>>
Sibling   == <<"identity", 1>>

-----------------------------------------------------------------------------
(* How a check proceeds *)

Over(w) == w.verdict # "running"
End(w, v)    == IF Over(w) THEN w ELSE [w EXCEPT !.verdict = v]
FailIf(w, c) == IF c THEN End(w, "fail") ELSE w
WarnIf(w, c) == IF c THEN End(w, "warn") ELSE w
SkipIf(w, c) == IF c THEN End(w, "skip") ELSE w
ObserveIf(w, c) == IF c THEN End(w, "observe") ELSE w

\* What a check notes in the session, when it gets that far.
Noted(w, session) == IF Over(w) THEN w ELSE [w EXCEPT !.session = session]

Listed(w, k) == {j \in w.session.installed : j.id # k.id} \cup {k}
Install(w, k) == Noted(w, [w.session EXCEPT !.installed = Listed(w, k)])

\* ControlClient.request; a write refused at ATT is a finding of its own.
Told(w, a) ==
    [w EXCEPT !.device = a.device, !.status = a.status, !.detail = a.detail,
              !.session.unprovoked = @ \/ a.status = "busy",
              !.session.heard = @ \cup (IF w.device.brisk THEN Flowing(a.device) ELSE {}),
              !.verdict = IF a.status = "att" THEN "fail" ELSE @]
Try(w, q) == IF Over(w) THEN w ELSE Told(w, Exchange(w.device, q))

\* asyncio.sleep with the link open: the bus goes on, and the log with it.
Listen(w) ==
    IF Over(w) THEN w
    ELSE [w EXCEPT !.session.heard = @ \cup Flowing(w.device), !.device = Watched(@)]

\* One step of a check: a request with the statuses allowed to it, or a window with the
\* number of an identifier's frames allowed to it, and the verdict on any other.
Asking(q, allowed, otherwise) ==
    [id |-> <<"zero", 0>>, ask |-> <<q>>, allowed |-> allowed, otherwise |-> otherwise]
Window(id, allowed, otherwise) ==
    [id |-> id, ask |-> <<>>, allowed |-> allowed, otherwise |-> otherwise]
May(q)    == Asking(q, {}, "running")
Must(q)   == Asking(q, {"ok"}, "fail")
Should(q) == Asking(q, {"ok"}, "skip")

\* ControlTimeout fails like a status that is not allowed, unless the check catches it.
Catch(q) == Asking(q, {"none"}, "running")
Timely(w, step) == FailIf(w, w.status = "none" /\ "none" \notin step.allowed)
Judge(w, outcome, step) == IF outcome \in step.allowed THEN w ELSE End(w, step.otherwise)
Replied(w, step) == Judge(w, w.status, step)
Take(w, step) ==
    IF step.ask = <<>> THEN Judge(Listen(w), Forwarded(w.device, step.id), step)
    ELSE Replied(Timely(Try(w, Head(step.ask)), step), step)

\* The worlds a check goes through; folds are recursive functions, which the proofs can
\* unfold.
Course(w, steps) ==
    LET after[n \in 0..Len(steps)] == IF n = 0 THEN w ELSE Take(after[n - 1], steps[n])
    IN  after
Script(w, steps) == Course(w, steps)[Len(steps)]

\* The request is answered, and not with `ok`.
Refusals == {"unsupported", "bad_params", "table_full", "unknown_subscription", "rate_exceeded", "busy"}
MustNot(q) == Asking(q, Refusals, "fail")

Ask(w, q)       == Script(w, <<May(q)>>)
Expect(w, q, S) == Script(w, <<Asking(q, S, "fail")>>)

\* Mutant of Forgotten: the notes outlive the table they describe.
ForgottenNot(w) == w
Forgotten(w) == [w EXCEPT !.session.installed = {}, !.session.probe_installed = FALSE]

\* The requests of a `finally`, written whatever the verdict, and the notes "kept" or
\* "forgotten" after them; a finding of its own supersedes the check's (_with_superseded).
Left(w, verdict, notes) ==
    IF Over(w) THEN w
    ELSE [IF notes = "forgotten" THEN Forgotten(w) ELSE w EXCEPT !.verdict = verdict]
Finally(w, qs, notes) ==
    Left(Script([w EXCEPT !.verdict = "running"], [i \in DOMAIN qs |-> May(qs[i])]), w.verdict, notes)

Count(n) == [i \in 1..n |-> i]

-----------------------------------------------------------------------------
(* The envelope *)

Remembered(w) ==
    FailIf(Noted(w, [w.session EXCEPT !.probe_response = [status |-> w.status, detail |-> w.detail]]),
           w.status # "unsupported")
UnsupportedOpcode(w) == Remembered(Ask(w, Bare(NoOpcode)))

\* _raw: written past the correlation, so only what comes back under the tag counts.
EchoesRequest(w) == Ask(w, Bare(NoOpcode))

DetailOnlyOnOk(w) ==
    FailIf(SkipIf(w, w.session.probe_response.status = "none"), w.session.probe_response.detail)

\* Wrong-length parameters for each of ops: the worlds in which they were answered.
Picked(ops) ==
    LET at == {i \in DOMAIN Opcodes : Opcodes[i] \in ops}
    IN  [n \in 1..Cardinality(at) |->
            Opcodes[CHOOSE i \in at : Cardinality({j \in at : j < i}) = n - 1]]
Malformed(w, ops) ==
    LET each == Picked(ops)
    IN  Course(w, [n \in DOMAIN each |-> Catch([Bare(each[n]) EXCEPT !.malformed = TRUE])])
Owned(w) == {op \in Range(Opcodes) : Owns(w.session, op)}

MalformedParams(w) ==
    LET told == Malformed(w, Owned(w))
        n == Len(Picked(Owned(w)))
    IN  FailIf(told[n], \E i \in 1..n :
            \/ told[i].status \in {"none", "ok"}
            \/ told[i].status # "unsupported" /\ told[i].detail)

OpcodeCapability(w) ==
    LET absent == Range(Opcodes) \ Owned(w)
        told == Malformed(w, absent)
        n == Len(Picked(absent))
    IN  IF absent = {} THEN End(w, "skip")
        ELSE FailIf(told[n], \E i \in 1..n : told[i].status # "unsupported")

-----------------------------------------------------------------------------
(* Two requests outstanding *)

\* The second request of a pipelined pair, and what it earns with nothing owed.
Pipelined(w) == IF "can" \in w.session.caps THEN Subscribe(BusyProbe) ELSE Bare(NoOpcode)
Deserved(w)  == IF "can" \in w.session.caps THEN "ok" ELSE "unsupported"

\* Both are written before an answer is awaited.  The device may still owe the first
\* answer when the second request reaches it (owing), have sent it while the host has
\* not seen it (sent), or have been seen to answer (arrived): overlap_excluded.
Second(w, d) ==
    IF w.device.timing = "owing" THEN WhileOwed(d, Pipelined(w)) ELSE Exchange(d, Pipelined(w))

\* _remove_busy_probe: a removal that is refused is noted and not a finding.
RemoveBusyProbe(w) == Ask(w, Unsubscribe(BusyProbe))

\* Mutant of Verdict: `busy` is required of every device.
VerdictStrict(w, first, second, excluded) ==
    IF "none" \in {first, second.status} \/ second.status # "busy" THEN "fail" ELSE "running"
Verdict(w, first, second, excluded) ==
    IF "none" \in {first, second.status} THEN "fail"
    ELSE IF excluded THEN "observe"
    ELSE IF second.status = "busy" THEN "running"
    ELSE IF second.status # Deserved(w) \/ second.detail THEN "fail"
    ELSE "observe"

\* What the answers one and two of the pair come to.
Paired(w, one, two) ==
    LET excluded == w.device.timing = "arrived"
        done == [w EXCEPT !.device = two.device,
                          !.session.unprovoked = @ \/ (two.status = "busy" /\ excluded),
                          !.session.busy_probe = IF "none" \in {one.status, two.status} THEN @
                              ELSE [excluded |-> excluded, status |-> two.status]]
        tidy == IF "can" \in w.session.caps /\ two.status \in {"none", "ok"}
                THEN RemoveBusyProbe(done) ELSE done
        v    == Verdict(w, one.status, two, excluded)
    IN  IF v = "running" THEN tidy ELSE End(tidy, v)
Overlapped(w, one) == Paired(w, one, Second(w, one.device))
BusyWhenOutstanding(w) == Overlapped(w, Exchange(w.device, Bare(NoOpcode)))

BusyNotApplied(w) ==
    LET p == w.session.busy_probe
        ready == SkipIf(w, p.status = "none" \/ p.excluded \/ p.status # "busy")
        removed(a) == SkipIf(FailIf(a, a.status = "ok"), a.status # "unknown_subscription")
    IN  removed(Ask(ready, Unsubscribe(BusyProbe)))

\* Any answer but `busy`.  The first tells whether TIME_SYNC is there to be asked.
Unrefused(op) == Asking(Bare(op), {"ok"} \cup (Refusals \ {"busy"}), "fail")
NoBusyForConformingClient(w) ==
    LET again(a) == Unrefused(IF a.status = "unsupported" THEN NoOpcode ELSE "TIME_SYNC")
        rest(a) == Script(a, [i \in 1..(Rounds - 1) |-> again(a)])
    IN  rest(Script(w, <<Unrefused("TIME_SYNC")>>))

\* Read back from the whole history: w.session.unprovoked.
NoUnprovokedBusy(w) == FailIf(w, w.session.unprovoked)

-----------------------------------------------------------------------------
(* CAN subscriptions *)

Probing(w) ==
    Install(Noted(FailIf(w, w.detail), [w.session EXCEPT !.probe_installed = TRUE]), Probe)
SubscribeOk(w) == Probing(Script(w, <<Must(Subscribe(Probe))>>))

Dropped(w) == [w EXCEPT !.session.probe_installed = FALSE,
                        !.session.installed = {j \in @ : j.id # Probe.id}]

\* The second removal has to find nothing; then the probe goes back.
Reinstated(w) == IF ~Over(w) /\ w.status # "ok" THEN End(Dropped(w), "skip") ELSE w
Emptied(w) ==
    IF Over(w) THEN w
    ELSE IF w.status = "ok" THEN End(Dropped(w), "fail")
    ELSE Reinstated(Ask(w, Subscribe(Probe)))
SubscribeIdempotent(w) ==
    Emptied(Script(SkipIf(w, ~w.session.probe_installed),
        <<Must(Subscribe(Probe)), Must(Unsubscribe(Probe)), May(Unsubscribe(Probe))>>))

UnknownSubscription(w) ==
    Expect(w, Unsubscribe([Probe EXCEPT !.mask = "other"]), {"unknown_subscription"})

\* Fill the table one by one: how many entries the device should now hold, and
\* its first refusal.
Filling(x, a) ==
    IF a.status = "ok" THEN [x EXCEPT !.w = a, !.held = @ + 1]
    ELSE [x EXCEPT !.w = a, !.refusal = IF @ = "none" THEN a.status ELSE @]
FillStep(x, n, i) ==
    IF Over(x.w) \/ x.held > n THEN x ELSE Filling(x, Ask(x.w, Subscribe(Exact(<<"fill", i>>))))
Fill(w, held, n) ==
    LET after[i \in 0..(n + 1)] ==
            IF i = 0 THEN [w |-> w, held |-> held, refusal |-> "none"]
            ELSE FillStep(after[i - 1], n, i)
    IN  after[n + 1]

TableFull(w) ==
    LET n == w.session.capacity.can
        filled(x) == FailIf(x.w, x.refusal # "table_full" \/ x.held # n)
    IN  IF n > FillLimit THEN End(w, "skip")
        ELSE Finally(filled(Fill(w, Cardinality(w.session.installed), n)), <<Reset>>, "forgotten")

\* n entries whose answers say whether the table takes them.
Refill(n, name) == [i \in 1..n |-> Should(Subscribe(Exact(<<name, i>>)))]

UpdateInPlaceWhenFull(w) ==
    LET n == w.session.capacity.can
        steps == <<May(Reset)>> \o Refill(n, "refill") \o <<Must(Subscribe(Exact(<<"refill", 1>>)))>>
    IN  IF n > FillLimit THEN End(w, "skip") ELSE Finally(Script(w, steps), <<Reset>>, "forgotten")

Decorated(q) == [q EXCEPT !.decorated = TRUE]

TransmissionBitsIgnored(w) ==
    LET k == Exact(Identity)
    IN  Finally(Script(w, <<Must(Decorated(Subscribe(k))), Must(Unsubscribe(k)),
                            Should(Subscribe(k)), Must(Decorated(Unsubscribe(k)))>>),
                <<Reset>>, "kept")

\* Both entries go, whatever the first removal was answered.
BothGone(a, b) == FailIf(b, "ok" # a.status \/ "ok" # b.status)
Removed(a, q) == BothGone(a, Ask(a, q))
IdentityIsThePair(w) ==
    LET grouped(id) == [id |-> id, mask |-> "group"]
        n == w.session.capacity.can
        pair == <<Should(Subscribe(grouped(Identity))), Must(Subscribe(grouped(Sibling)))>>
        more == IF n > FillLimit THEN <<>>
                ELSE Refill(n - 2, "rest")
                     \o <<MustNot(Subscribe(Exact(<<"rest", n>>)))>>
    IN  IF n < 2 THEN End(w, "skip")
        ELSE Finally(Removed(Ask(Script(w, pair \o more), Unsubscribe(grouped(Identity))),
                             Unsubscribe(grouped(Sibling))),
                     <<Reset>>, "kept")

\* A subscription made for a mode that does not exist is removed again, and has to be
\* unknown by then.
Refusing(a, k) ==
    FailIf(IF a.status = "ok" THEN Ask(a, Unsubscribe(k)) ELSE a, a.status # "bad_params")
Unknowing(a, k) ==
    FailIf(IF a.status = "unknown_subscription" THEN a ELSE Ask(a, Unsubscribe(k)),
           a.status # "unknown_subscription")
UnknownModeRefused(w) ==
    LET asked(x, k) == Refusing(Ask(x, [Subscribe(k) EXCEPT !.mode = "unknown"]), k)
        step(x, i) == LET k == Exact(<<"mode", i>>)
                      IN  IF Over(x) THEN x ELSE Unknowing(Ask(asked(x, k), Unsubscribe(k)), k)
    IN  step(step(step(w, 1), 2), 3)

NoRateAdmission(w) ==
    Finally(Script(w, <<May(Reset), Must(Subscribe(Catchall))>>),
            <<Unsubscribe(Catchall), Reset>>, "forgotten")

\* A CAN_RESET written with indications disabled: ignored, refused at ATT, or held
\* by the device until they return.
Unindicated(a) ==
    IF Over(a) \/ a.device.unanswerable # "held" THEN a
    ELSE [a EXCEPT !.device = Handle(@, Reset).device]

\* c: the removal that tells, after the world a in which the probe was installed.
Remaining(a, c) ==
    LET d == Noted(c, [c.session EXCEPT !.installed =
                 IF c.status = "ok" THEN {j \in @ : j.id # Probe.id} ELSE {}])
        e == ObserveIf(d, a.device.unanswerable = "refused")
    IN  IF c.status = "ok" THEN e ELSE FailIf(ObserveIf(e, a.device.unanswerable = "held"), TRUE)
AppliesOnlyIfAnswerable(w) ==
    LET told(a) == Remaining(a, Ask(Unindicated(a), Unsubscribe(Probe)))
    IN  told(Install(Script(w, <<Should(Subscribe(Probe))>>), Probe))

-----------------------------------------------------------------------------
(* Rates and the clock *)

Rated(w) == {op \in {"GPS_SET_RATE", "IMU_SET_RATE"} : Owner[op] \in w.session.caps}

\* A rate past the ceiling, then the one the device had.
PastCeiling(x, op, was, a) ==
    IF a.status = "unsupported" THEN [x EXCEPT !.w = a]
    ELSE [w |-> Ask(a, SetRate(op, was)), bad |-> x.bad \/ a.status # "rate_exceeded", tried |-> TRUE]

\* The highest rate, read back from Info, then the one the device had.
AtCeiling(x, op, was, top, a) ==
    IF a.status \in {"unsupported", "bad_params"} THEN [x EXCEPT !.w = a]
    ELSE IF a.status # "ok" THEN [x EXCEPT !.w = a, !.bad = TRUE]
    ELSE [w |-> Ask(a, SetRate(op, was)), bad |-> x.bad \/ a.device.rate[Owner[op]] # top,
          tried |-> TRUE]

RatesTried(w, x) ==
    IF Rated(w) = {} THEN End(w, "skip") ELSE SkipIf(FailIf(x.w, x.bad), ~x.tried)
Untried(w) == [w |-> w, bad |-> FALSE, tried |-> FALSE]

\* A ceiling of 0xFFFF leaves no rate above it to try.
RateTop == 65535
RateCeiling(w) ==
    LET top(op) == w.session.capacity[Owner[op]]
        was(op) == w.session.rate[Owner[op]]
        step(x, op) == IF op \notin Rated(w) \/ top(op) >= RateTop THEN x
                       ELSE PastCeiling(x, op, was(op), Ask(x.w, SetRate(op, top(op) + 1)))
    IN  RatesTried(w, step(step(Untried(w), "GPS_SET_RATE"), "IMU_SET_RATE"))

RateReadback(w) ==
    LET top(op) == w.session.capacity[Owner[op]]
        was(op) == w.session.rate[Owner[op]]
        step(x, op) == IF op \notin Rated(w) \/ top(op) \in {was(op), 0} THEN x
                       ELSE AtCeiling(x, op, was(op), top(op), Ask(x.w, SetRate(op, top(op))))
    IN  RatesTried(w, step(step(Untried(w), "GPS_SET_RATE"), "IMU_SET_RATE"))

\* Seven readings, the first of which may say that there is no clock to read.
Synced(w) ==
    FailIf(Noted(w, [w.session EXCEPT !.time_sync = TRUE]), Has(w.device, "timesync_single_reading"))
TimeSync(w) ==
    LET first == Asking(Bare("TIME_SYNC"), {"ok"} \cup (Refusals \ {"unsupported"}), "fail")
    IN  Synced(Script(w, <<first>> \o [i \in 1..6 |-> Must(Bare("TIME_SYNC"))]))

TimeSyncOffset(w) == ObserveIf(SkipIf(w, ~w.session.time_sync), TRUE)

-----------------------------------------------------------------------------
(* The registry, in the order of the phases, and the dispatch *)

Check(id, requires, adversarial) == [id |-> id, requires |-> requires, adversarial |-> adversarial]
Control == {"control"}
Can     == {"control", "can"}
Masked  == {"control", "can", "masked_subscriptions"}

ControlRegistry ==
    <<Check("control.unsupported_opcode", Control, FALSE),
      Check("control.echoes_request", Control, FALSE),
      Check("control.detail_only_on_ok", Control, TRUE),
      Check("control.malformed_params", Control, TRUE),
      Check("control.opcode_capability", Control, TRUE),
      Check("control.busy_when_outstanding", Control, TRUE),
      Check("control.busy_not_applied", Can, TRUE),
      Check("control.no_busy_for_conforming_client", Control, FALSE),
      Check("can.subscribe_ok", Can, FALSE),
      Check("can.subscribe_idempotent", Can, FALSE),
      Check("can.unknown_subscription", Can, TRUE),
      Check("can.table_full", Can, TRUE),
      Check("can.update_in_place_when_full", Can, FALSE),
      Check("can.transmission_bits_ignored", Can, FALSE),
      Check("can.identity_is_the_pair", Masked, FALSE),
      Check("can.unknown_mode_refused", Can, TRUE),
      Check("can.no_rate_admission", Masked, FALSE),
      Check("control.applies_only_if_answerable", Can, TRUE),
      Check("control.rate_ceiling", Control, TRUE),
      Check("control.rate_readback", Control, FALSE),
      Check("control.time_sync", Control, FALSE),
      Check("control.time_sync_offset", Control, FALSE)>>

ControlCheck(id, w) ==
    CASE id = "control.unsupported_opcode" -> UnsupportedOpcode(w)
      [] id = "control.echoes_request" -> EchoesRequest(w)
      [] id = "control.detail_only_on_ok" -> DetailOnlyOnOk(w)
      [] id = "control.malformed_params" -> MalformedParams(w)
      [] id = "control.opcode_capability" -> OpcodeCapability(w)
      [] id = "control.busy_when_outstanding" -> BusyWhenOutstanding(w)
      [] id = "control.busy_not_applied" -> BusyNotApplied(w)
      [] id = "control.no_busy_for_conforming_client" -> NoBusyForConformingClient(w)
      [] id = "can.subscribe_ok" -> SubscribeOk(w)
      [] id = "can.subscribe_idempotent" -> SubscribeIdempotent(w)
      [] id = "can.unknown_subscription" -> UnknownSubscription(w)
      [] id = "can.table_full" -> TableFull(w)
      [] id = "can.update_in_place_when_full" -> UpdateInPlaceWhenFull(w)
      [] id = "can.transmission_bits_ignored" -> TransmissionBitsIgnored(w)
      [] id = "can.identity_is_the_pair" -> IdentityIsThePair(w)
      [] id = "can.unknown_mode_refused" -> UnknownModeRefused(w)
      [] id = "can.no_rate_admission" -> NoRateAdmission(w)
      [] id = "control.applies_only_if_answerable" -> AppliesOnlyIfAnswerable(w)
      [] id = "control.rate_ceiling" -> RateCeiling(w)
      [] id = "control.rate_readback" -> RateReadback(w)
      [] id = "control.time_sync" -> TimeSync(w)
      [] id = "control.time_sync_offset" -> TimeSyncOffset(w)
=============================================================================

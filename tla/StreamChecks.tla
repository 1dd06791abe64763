----------------------------- MODULE StreamChecks -----------------------------
(***************************************************************************)
(* The checks of harness/vtp1_harness/checks/streams.py.  What the device   *)
(* puts on the bus and on the streams is in the device record: the          *)
(* identifiers alive on the bus, and what a seeded defect does to sequence  *)
(* numbers, clocks and payloads.                                            *)
(***************************************************************************)
EXTENDS ControlChecks

Streams == {"gps", "can", "imu"}
Present(w) == (w.session.caps \cap Streams \cap Table(w.device))
              \ (IF w.session.heard = {} THEN {"can"} ELSE {})

-----------------------------------------------------------------------------
(* Asking for traffic *)

SilentUntilAsked(w) == FailIf(w, w.session.heard # {})

\* Each identifier the operator named, one after the other: what was answered `ok` is
\* installed, and nothing is noted until every answer is in.
NamedAll(w, named) ==
    LET told == Course(w, [i \in DOMAIN named |-> May(Subscribe(named[i]))])
        last == told[Len(named)]
        taken == {named[i] : i \in {i \in DOMAIN named : told[i].status = "ok"}}
    IN  WarnIf(Noted(last, [last.session EXCEPT !.installed = taken, !.catch_all = FALSE]),
               taken = {})
ObserveNamed(w) == NamedAll(w, SetToSeq(w.session.can_ids))

ObserveAll(w) ==
    LET ready == SkipIf(w, "masked_subscriptions" \notin w.session.caps)
        noted(x) == Noted(x, [x.session EXCEPT !.installed = {Catchall}, !.catch_all = TRUE])
    IN  noted(Script(ready, <<Asking(Subscribe(Catchall), {"ok"}, "warn")>>))

Observation(w) ==
    ObserveIf(IF w.session.can_ids # {} THEN ObserveNamed(w) ELSE ObserveAll(w), TRUE)

-----------------------------------------------------------------------------
(* Payloads, sequence numbers and clocks, read back from the logs *)

Decodes(w, stream) ==
    ObserveIf(FailIf(SkipIf(w, stream \notin Present(w)),
                     stream = "gps" /\ Has(w.device, "stream_truncated")), TRUE)

AbsentFieldsZero(w) == FailIf(w, Has(w.device, "absent_field_nonzero"))

\* A fix names its kind and the groups it declares valid.
Fix(d) == IF Has(d, "gps_scope_bits_ignored")
          THEN [type |-> "time_only", valid |-> {"num_sv", "p_dop", "position"}]
          ELSE [type |-> "fix_3d", valid |-> {"num_sv", "p_dop", "position"}]
SolutionScopedBits(w) ==
    LET f == Fix(w.device)
    IN  FailIf(w, \/ "p_dop" \in f.valid /\ "position" \notin f.valid
                  \/ "position" \in f.valid /\ f.type \in {"none", "time_only"}
                  \/ "num_sv" \in f.valid /\ f.type = "none")

\* The sequence numbers of the first notifications on a connection.
Numbered(w) ==
    LET d == w.device
        first == CASE Has(d, "seq_starts_at_one") -> 1
                   [] Has(d, "seq_survives_reconnect") /\ w.session.reconnected -> 100
                   [] OTHER -> 0
    IN  [i \in 1..3 |-> IF Has(d, "seq_repeats") THEN 0 ELSE first + i - 1]

SeqFirstIsZero(w) == FailIf(SkipIf(w, Present(w) = {}), Numbered(w)[1] # 0)
SeqAdvances(w) ==
    FailIf(SkipIf(w, Present(w) = {}), \E i \in 1..2 : Numbered(w)[i] = Numbered(w)[i + 1])

\* A stream's clock against the host's: how far apart (ms), drifting how fast (ppm),
\* and whether it ever steps back.
Clock(d, stream) ==
    [offset |-> IF Has(d, "clock_per_stream") /\ stream = "imu" THEN 3600000 ELSE 0,
     ppm    |-> IF Has(d, "clock_diverges") /\ stream = "can" THEN 40000 ELSE 0,
     back   |-> Has(d, "clock_steps_backwards") /\ stream = "gps"]
Apart(w, what, limit) ==
    \E a, b \in Present(w) : Clock(w.device, a)[what] - Clock(w.device, b)[what] > limit

ClockMonotonic(w) ==
    FailIf(SkipIf(w, Present(w) = {}), \E a \in Present(w) : Clock(w.device, a).back)
OneClock(w) ==
    ObserveIf(FailIf(SkipIf(w, Cardinality(Present(w)) < 2),
                     Apart(w, "offset", 1000)), TRUE)
OneRate(w) ==
    ObserveIf(FailIf(SkipIf(w, Cardinality(Present(w)) < 2),
                     Apart(w, "ppm", 10000)), TRUE)

-----------------------------------------------------------------------------
(* What a subscription means *)

\* Every frame of the log, the ones of earlier phases included.
MatchesSubscription(w) ==
    LET n == w.session
    IN  FailIf(SkipIf(w, n.installed = {} \/ n.catch_all \/ n.heard = {}),
               \E id \in n.heard : id \notin {k.id : k \in n.installed})

\* _busiest_id, _busiest_frames: diagnostic identifiers stop with the poll set.
Broadcast(w) == {id \in w.session.heard : id[1] = "bus"}
Foremost(ids) == CHOOSE id \in ids : \A other \in ids : id[2] <= other[2]
Target(w) == Foremost(Broadcast(w))
NextTarget(w) == Foremost(Broadcast(w) \ {Target(w)})
Low(id)   == [id |-> id, mask |-> "low"]
Low2(id)  == [id |-> id, mask |-> "low2"]
Broad(id) == [id |-> id, mask |-> "group"]
OtherFormat(id) == <<"bus_other", id[2]>>

Duplicated(a) ==
    FailIf(Listen(a), Has(a.device, "can_duplicate_across_batches") /\ Flowing(a.device) # {})
ForwardedOnce(w) ==
    IF Broadcast(w) = {} THEN End(w, "skip")
    ELSE Duplicated(Script(w, <<Should(Subscribe(Low(Target(w))))>>))

\* Mutant of Restored: the table is left as the check programmed it.
RestoredNot(w) == Finally(w, <<Reset>>, "kept")
\* _restore_observation_table
Restored(w) ==
    Finally(w, <<Reset>> \o SetToSeq({Subscribe(k) : k \in w.session.installed}), "kept")

\* A window that must not be empty, or that carries no more than n frames.
Alive(id)     == Window(id, Nat \ {0}, "skip")
Owes(id)      == Window(id, Nat \ {0}, "fail")
AtMost(id, n) == Window(id, 0..n, "fail")
Streaming(id) == Window(id, Nat \ 0..1, "fail")
Quiet(id)     == <<May(Reset), Window(id, Nat, "running")>>

\* A check that needs n broadcasting identifiers, and leaves the table as it found it.
OnBroadcast(w, n, steps) ==
    IF Cardinality(Broadcast(w)) < n THEN End(w, "skip") ELSE Restored(Script(w, steps))

MostSpecificGoverns(w) ==
    LET t == Target(w)
        noted(c) == Noted(c, [c.session EXCEPT !.baseline = TRUE])
    IN  IF Broadcast(w) = {} THEN End(w, "skip")
        ELSE noted(Restored(Script(w,
                <<May(Reset), Should(Subscribe(Exact(t))), Alive(t),
                  Should(Periodic(Low(t), Slow)), Streaming(t)>>)))

EarliestInstalledGoverns(w) ==
    LET t == Target(w)
    IN  IF ~w.session.baseline THEN End(w, "skip")
        ELSE OnBroadcast(w, 1,
                <<May(Reset), May(Subscribe(Low(t))), May(Periodic(Low2(t), Slow)), Streaming(t),
                  May(Reset), May(Periodic(Low2(t), Slow)), May(Subscribe(Low(t))), AtMost(t, 1)>>)

-----------------------------------------------------------------------------
(* A subscription's schedule, and what disturbs it *)

PeriodicFirstThenRations(w) ==
    LET t == Target(w)
    IN  OnBroadcast(w, 1,
            Quiet(t) \o <<Should(Subscribe(Exact(t))), Alive(t)>>
            \o Quiet(t) \o <<Should(Periodic(Exact(t), Slow)), Window(t, {1}, "fail")>>)

IdenticalReinstall(w) ==
    LET t == Target(w)
        periodic == Periodic(Exact(t), Slow)
    IN  OnBroadcast(w, 1, Quiet(t) \o <<Should(periodic), Alive(t), Must(periodic), AtMost(t, 0)>>)

ChangedReinstall(w) ==
    LET t == Target(w)
        changed == Periodic(Exact(t), Slow - 1000)
    IN  OnBroadcast(w, 1, Quiet(t) \o <<Should(Periodic(Exact(t), Slow)), Alive(t),
                                        Must(changed), Owes(t)>>)

\* A device at the bound of its schedules may reclaim a displaced one, and says so by
\* shedding; one with no room for a third does not.
DisplacedScheduleSurvives(w) ==
    LET t == Target(w)
        pressed == Script(w, Quiet(t) \o <<Should(Periodic(Broad(t), Slow))>>)
        broad == SkipIf(Listen(pressed),
                        \E id \in {t, NextTarget(w)} : Forwarded(pressed.device, id) = 0)
    IN  IF Cardinality(Broadcast(w)) < 2 THEN End(w, "skip")
        ELSE Restored(Script(SkipIf(broad, Shedding(pressed.device)),
                <<Should(Periodic(Exact(t), Slow)), Alive(t), Should(Unsubscribe(Exact(t))),
                  AtMost(t, 0)>>))

\* One window more, in which a batch carries the count out.
Discounted(c) ==
    FailIf(SkipIf(Listen(c), Shedding(c.device)), Counting(c.device))
DroppedExcludesDeclined(w) ==
    LET t == Target(w)
        plain == Script(w, Quiet(t) \o <<Should(Subscribe(Exact(t))), Alive(t)>>)
        rationed == Script(SkipIf(plain, ~w.device.brisk),
                           Quiet(t) \o <<Should(Periodic(Exact(t), Rationed)), Alive(t)>>)
    IN  IF Broadcast(w) = {} THEN End(w, "skip") ELSE Restored(Discounted(rationed))

FormatBitIsIdentity(w) ==
    LET t == Target(w)
    IN  OnBroadcast(w, 1,
            Quiet(t) \o <<Should(Subscribe(Exact(t))), Alive(t)>>
            \o Quiet(t) \o <<Should(Subscribe(Exact(OtherFormat(t)))), AtMost(t, 0)>>)

-----------------------------------------------------------------------------
Gps == {"gps"}
Imu == {"imu"}

ObserveRegistry == <<Check("can.subscribe_for_observation", Can, FALSE)>>

StreamRegistry ==
    <<Check("gps.decodes", Gps, FALSE),
      Check("can.decodes", {"can"}, FALSE),
      Check("imu.decodes", Imu, FALSE),
      Check("gps.absent_fields_zero", Gps, FALSE),
      Check("gps.solution_scoped_bits", Gps, FALSE),
      Check("seq.first_is_zero", {}, FALSE),
      Check("seq.advances", {}, FALSE),
      Check("clock.monotonic", {}, FALSE),
      Check("clock.one_clock", {}, FALSE),
      Check("clock.one_rate", {}, FALSE),
      Check("can.matches_subscription", Can, FALSE),
      Check("can.forwarded_once", Masked, FALSE),
      Check("can.most_specific_governs", Masked, FALSE),
      Check("can.earliest_installed_governs", Masked, FALSE),
      Check("can.periodic_first_then_rations", Can, FALSE),
      Check("can.identical_reinstall_costs_nothing", Can, FALSE),
      Check("can.changed_reinstall_rearms", Can, FALSE),
      Check("can.displaced_schedule_survives", Masked, FALSE),
      Check("can.dropped_excludes_declined", Can, FALSE),
      Check("can.format_bit_is_identity", Can, FALSE)>>

StreamCheck(id, w) ==
    CASE id = "can.silent_until_asked" -> SilentUntilAsked(w)
      [] id = "can.subscribe_for_observation" -> Observation(w)
      [] id = "gps.decodes" -> Decodes(w, "gps")
      [] id = "can.decodes" -> Decodes(w, "can")
      [] id = "imu.decodes" -> Decodes(w, "imu")
      [] id = "gps.absent_fields_zero" -> AbsentFieldsZero(w)
      [] id = "gps.solution_scoped_bits" -> SolutionScopedBits(w)
      [] id = "seq.first_is_zero" -> SeqFirstIsZero(w)
      [] id = "seq.advances" -> SeqAdvances(w)
      [] id = "clock.monotonic" -> ClockMonotonic(w)
      [] id = "clock.one_clock" -> OneClock(w)
      [] id = "clock.one_rate" -> OneRate(w)
      [] id = "can.matches_subscription" -> MatchesSubscription(w)
      [] id = "can.forwarded_once" -> ForwardedOnce(w)
      [] id = "can.most_specific_governs" -> MostSpecificGoverns(w)
      [] id = "can.earliest_installed_governs" -> EarliestInstalledGoverns(w)
      [] id = "can.periodic_first_then_rations" -> PeriodicFirstThenRations(w)
      [] id = "can.identical_reinstall_costs_nothing" -> IdenticalReinstall(w)
      [] id = "can.changed_reinstall_rearms" -> ChangedReinstall(w)
      [] id = "can.displaced_schedule_survives" -> DisplacedScheduleSurvives(w)
      [] id = "can.dropped_excludes_declined" -> DroppedExcludesDeclined(w)
      [] id = "can.format_bit_is_identity" -> FormatBitIsIdentity(w)
=============================================================================

------------------------------ MODULE ObdChecks ------------------------------
(***************************************************************************)
(* The checks of harness/vtp1_harness/checks/obd.py: what a probe must say,  *)
(* which poll sets are refused, and whether the device stops transmitting.   *)
(* What a check hears it hears of the ECUs its probe record names.           *)
(***************************************************************************)
EXTENDS StreamChecks

Pace == 25                                  \* interval, in milliseconds
Group(pids) == PollSet(Pace, <<[pids |-> pids, min |-> 0]>>)
Broken(q)   == [q EXCEPT !.broken = TRUE]
OnePid      == PollSet(Pace, <<Single(1)>>)
Singles(pids) == PollSet(Pace, [i \in DOMAIN pids |-> Single(pids[i])])

Named(record) == {Ecu(i) : i \in Range(record.ecus)}
Heard(w, record) == Flowing(w.device) \cap Named(record)

\* A request that has to be taken, and a window after it.
Asked(w, q) == Listen(Script(w, <<Must(q)>>))
Hushed(w)   == FailIf(w, Heard(w, w.session.obd) # {})

\* _probe, and what every poll of a verified PID needs of it: n PIDs in its union.
Answered(w)  == SkipIf(w, ~w.session.obd.taken)
Usable(w, n) == SkipIf(Answered(w), ~w.session.obd.responded \/ w.session.obd.pids < n)

\* Requests sent whatever the answers to the ones before: one problem fails the check.
Trials(w, trials) ==
    LET told == Course(w, [i \in DOMAIN trials |-> May(trials[i][1])])
    IN  [w |-> told[Len(trials)], bad |-> \E i \in DOMAIN trials : told[i].status # trials[i][2]]
Passing(x) == FailIf(x.w, x.bad)

\* A cleanup that lets a request time out, unlike Finally.
Resumed(w, verdict) == IF Over(w) THEN w ELSE [w EXCEPT !.verdict = verdict]
Tidied(w, q) == Resumed(Try([w EXCEPT !.verdict = "running"], q), w.verdict)

-----------------------------------------------------------------------------
(* The probe record *)

PollBeforeProbe(w) == Expect(w, OnePid, {"bad_params"})

ProbeTaken(a) == ObserveIf(Noted(a, [a.session EXCEPT !.obd = ProbeRecord(a.device)]), TRUE)
ProbeAnswered(w) == ProbeTaken(Expect(w, Bare("OBD_INFO"), {"ok"}))

CountAgrees(w) ==
    LET p == w.session.obd
        count == Len(p.ecus)
    IN  FailIf(Answered(w),
            \/ p.responded # (count > 0)
            \/ count > EcuCap
            \/ p.truncated /\ (~p.responded \/ count # EcuCap))

EntriesAscending(w) ==
    LET ids == w.session.obd.ecus
    IN  FailIf(Answered(w), \E i \in 1..(Len(ids) - 1) : ids[i] >= ids[i + 1])

ProbeAbsentZero(w) == FailIf(Answered(w), w.session.obd.stale)
ProbeReserved(w)   == FailIf(Answered(w), w.session.obd.reserved # 0)
ObdCapacities(w)   == ObserveIf(FailIf(w, w.session.capacity.obd = 0), TRUE)

-----------------------------------------------------------------------------
(* Refusals *)

PollRefusals(w) ==
    LET p == w.session.obd
        n == w.session.capacity.obd
        unverified == Singles(<<IF p.responded THEN 0 ELSE 1>>)
        verified   == PollSet(0, <<Single(1)>>)
    IN  Passing(Trials(Answered(w),
            <<<<unverified, "bad_params">>,
              <<Singles(<<0>>), "bad_params">>>>
            \o (IF p.responded /\ p.pids > 0 THEN <<<<verified, "ok">>>> ELSE <<>>)
            \o <<<<Singles([i \in 1..(n + 1) |-> 1]), "table_full">>,
                 <<PollSet(Pace, <<>>), "bad_params">>,
                 <<Stop, "ok">>>>))

GroupingRefusals(w) ==
    LET p == w.session.obd
        fits(n) == p.pids >= n /\ w.session.capacity.obd >= n
        stopped(x) == FailIf(Ask(x.w, Stop), x.bad)
    IN  stopped(Trials(Usable(w, 2),
            <<<<Broken(Group(<<1, 2>>)), "bad_params">>>>
            \o (IF fits(7) THEN <<<<Group(Count(7)), "bad_params">>>> ELSE <<>>)
            \o (IF fits(6) THEN <<<<Group(Count(6)), "ok">>>> ELSE <<>>)
            \o <<<<OnePid, "ok">>,
                 <<Broken(OnePid), "bad_params">>,
                 <<Group(<<0, 1>>), "bad_params">>>>))

-----------------------------------------------------------------------------
(* The transmitter, told by the answers it earns *)

\* A silent poll: a fresh probe tells a dead bus from a PID the car leaves unanswered,
\* and subscribing what it names tells that from answers the device withholds.
Withheld(w, fresh) == SkipIf(FailIf(w, Heard(w, fresh) # {}), TRUE)
Rechecked(w, fresh) ==
    LET named == [i \in DOMAIN fresh.ecus |-> Must(Subscribe(Exact(Ecu(fresh.ecus[i]))))]
        alive == SkipIf(w, ~fresh.responded \/ fresh.pids = 0)
    IN  Withheld(Asked(Script(alive, named), OnePid), fresh)
Diagnosed(w) ==
    LET reprobed(a) == Rechecked(a, ProbeRecord(a.device))
    IN  reprobed(Expect(w, Bare("OBD_INFO"), {"ok"}))

\* The flag a device sets on what its polls earn, and the silence after a stop.
Flagged(w) ==
    FailIf(w, ~(Flowing(w.device) \subseteq Named(w.session.obd)) \/ Has(w.device, "obd_flag_never_set"))
Flowed(polling) ==
    IF Over(polling) \/ Heard(polling, polling.session.obd) # {}
    THEN Hushed(Asked(Flagged(polling), Stop))
    ELSE Diagnosed(polling)
PollAndFlag(w) ==
    LET polled(ready) == IF Over(ready) THEN ready ELSE Tidied(Flowed(Asked(ready, OnePid)), Reset)
    IN  polled(Expect(Usable(w, 1), Reset, {"ok"}))

ResetStops(w) ==
    LET ready == Usable(w, 1)
    IN  IF Over(ready) THEN ready
        ELSE Tidied(Hushed(Asked(Asked(ready, OnePid), Reset)), Stop)

\* _obd_status, then what the state has to be.
Consistent(w, s, installed) ==
    FailIf(w, s.reserved \/ (s.suspended /\ ~s.installed) \/ s.installed # installed)
StatusAsked(w, installed) ==
    LET read(a) == Consistent(a, Status(a.device), installed)
    IN  read(Expect(w, Bare("OBD_STATUS"), {"ok"}))

Awake(w) == FailIf(w, Heard(w, w.session.obd) # {} /\ Status(w.device).suspended)
ObdStatus(w) ==
    LET polled(idle) ==
            IF Over(Usable(idle, 1)) THEN idle
            ELSE StatusAsked(Tidied(Awake(StatusAsked(Asked(idle, OnePid), TRUE)), Stop), FALSE)
    IN  polled(StatusAsked(Expect(w, Stop, {"ok"}), FALSE))

\* grouped: the answers led by either PID of the pair; the same PIDs polled alone.
Compared(grouped, split) == FailIf(split, 10 * grouped < 14 * Leads(split.device, 1))
Apportioned(pair) ==
    Compared(Max({Leads(pair.device, 1), Leads(pair.device, 2)}),
             Asked(SkipIf(pair, Heard(pair, pair.session.obd) = {}), Singles(<<1, 2>>)))
GroupingIsOneRequest(w) ==
    LET polled(ready) ==
            IF Over(ready) THEN ready
            ELSE Finally(Apportioned(Asked(ready, Group(<<1, 2>>))), <<Stop>>, "kept")
    IN  polled(Expect(Usable(w, 2), Reset, {"ok"}))

Spaced(w) == IF Over(w) THEN w ELSE FailIf(w, SpacingMs(w.device, 2) < 400)
GroupMinimumHonoured(w) ==
    LET mixed == PollSet(0, <<Single(1), [pids |-> <<2>>, min |-> 500]>>)
        answered(a) == SkipIf(a, Heard(a, a.session.obd) = {})
        polled(ready) ==
            IF Over(ready) THEN ready
            ELSE Finally(Spaced(answered(Asked(ready, mixed))), <<Stop>>, "kept")
    IN  polled(Expect(Usable(w, 2), Reset, {"ok"}))

-----------------------------------------------------------------------------
\* Without control a check of the role that asks for anything skips itself.
Obd == {"obd", "control"}

ObdRegistry ==
    <<Check("obd.poll_before_probe", Obd, TRUE),
      Check("obd.probe", Obd, FALSE),
      Check("obd.count_agrees", Obd, FALSE),
      Check("obd.entries_ascending", Obd, FALSE),
      Check("obd.absent_fields_zero", Obd, FALSE),
      Check("obd.reserved", Obd, FALSE),
      Check("obd.capacities", {"obd"}, FALSE),
      Check("obd.poll_refusals", Obd, TRUE),
      Check("obd.poll_and_flag", Obd, TRUE),
      Check("obd.reset_stops", Obd, TRUE),
      Check("obd.status", Obd, TRUE),
      Check("obd.grouping_refusals", Obd, TRUE),
      Check("obd.grouping_is_one_request", Obd, FALSE),
      Check("obd.group_minimum_is_honoured", Obd, FALSE)>>

ObdCheck(id, w) ==
    CASE id = "obd.poll_before_probe" -> PollBeforeProbe(w)
      [] id = "obd.probe" -> ProbeAnswered(w)
      [] id = "obd.count_agrees" -> CountAgrees(w)
      [] id = "obd.entries_ascending" -> EntriesAscending(w)
      [] id = "obd.absent_fields_zero" -> ProbeAbsentZero(w)
      [] id = "obd.reserved" -> ProbeReserved(w)
      [] id = "obd.capacities" -> ObdCapacities(w)
      [] id = "obd.poll_refusals" -> PollRefusals(w)
      [] id = "obd.poll_and_flag" -> PollAndFlag(w)
      [] id = "obd.reset_stops" -> ResetStops(w)
      [] id = "obd.status" -> ObdStatus(w)
      [] id = "obd.grouping_refusals" -> GroupingRefusals(w)
      [] id = "obd.grouping_is_one_request" -> GroupingIsOneRequest(w)
      [] id = "obd.group_minimum_is_honoured" -> GroupMinimumHonoured(w)
=============================================================================

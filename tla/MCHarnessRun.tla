----------------------------- MODULE MCHarnessRun -----------------------------
EXTENDS HarnessRun

A == <<"bus", 0>>
B == <<"bus", 1>>
C == <<"bus", 2>>

\* What a device declares, what it is free to do, and the car it is plugged into.
Full == {"control", "can", "masked_subscriptions", "gps", "imu", "monitor", "power",
         "gnss_aiding", "obd"}
Car(ecus, pids, quiet) == [ecus |-> ecus, pids |-> pids, quiet |-> quiet, leaves |-> FALSE]
Device(f) ==
    [fault |-> f, caps |-> Full, slots |-> 3, obd_slots |-> 7, bus |-> {A, B}, brisk |-> TRUE,
     sheds |-> FALSE, schedules |-> 16, discrete |-> FALSE, timing |-> "owing", unanswerable |-> "ignored",
     rate |-> [gps |-> 10, imu |-> 100], ceiling |-> [gps |-> 25, imu |-> 200],
     table |-> <<>>, late |-> "spent", doubled |-> {}, decorated |-> {},
     beacon |-> TRUE, supply |-> {"source", "percent"}, channels |-> 2,
     car |-> Car(2, 7, FALSE), probe |-> "none", poll |-> <<>>, ever |-> FALSE,
     aid |-> NoAid, tokens |-> 0, aid_room |-> 5, strict |-> FALSE]

\* Capabilities and table sizes with every bus, every freedom on two table sizes, every
\* bound on schedules, every car, supply, channel count and aiding store, and a ceiling that
\* leaves no rate above it.
Conforming ==
    {[Device("none") EXCEPT !.caps = c, !.slots = n, !.bus = b, !.brisk = k] :
        c \in {Full, Full \ {"masked_subscriptions"}, {"gps", "imu", "control"}, {"gps"}},
        n \in 1..4, b \in {{}, {A}, {A, B}}, k \in BOOLEAN}
    \cup
    {[Device("none") EXCEPT !.slots = n, !.sheds = s, !.discrete = x, !.timing = t,
                            !.unanswerable = u] :
        n \in {2, 5}, s \in BOOLEAN, x \in BOOLEAN, t \in {"owing", "sent", "arrived"},
        u \in {"ignored", "refused", "held"}}
    \cup
    {[Device("none") EXCEPT !.car = Car(e, p, q), !.obd_slots = n] :
        e \in 0..2, p \in {0, 1, 2, 7}, q \in BOOLEAN, n \in {2, 7}}
    \cup
    {[Device("none") EXCEPT !.schedules = n, !.bus = b, !.sheds = s] :
        n \in 1..4, b \in {{A}, {A, B}, {A, B, C}}, s \in BOOLEAN}
    \cup
    {[Device("none") EXCEPT !.ceiling.gps = RateTop, !.ceiling.imu = n] : n \in {200, RateTop}}
    \cup
    {[Device("none") EXCEPT !.car = Car(9, 7, FALSE), !.supply = s, !.channels = c,
                            !.aid_room = r, !.strict = x, !.beacon = x] :
        s \in {{"source"}, {"source", "percent"}}, c \in {1, 3}, r \in {1, 3, 5},
        x \in BOOLEAN}

\* selftest.py's profile_for, and the car that leaves its PIDs unanswered.
Profile(f) ==
    CASE f \in {"opcode_capability_late", "inert_cccd_rejected"} -> {"gps", "imu", "control"}
      [] f = "inert_control_accepts_writes" -> {"gps"}
      [] OTHER -> Full
Defective ==
    {[Device(f) EXCEPT !.caps = Profile(f), !.slots = n,
                       !.car = Car(2, 7, f = "obd_reprobe_refused")] :
        f \in Faults, n \in 2..4}

NoBlob == [chunks |-> 0, aiding |-> FALSE]
Command(a, s, b) == [adversarial |-> a, can_ids |-> {}, scanned |-> s, blob |-> b]
MCDevices == Conforming \cup Defective
MCOptions ==
    {Command(TRUE, TRUE, NoBlob), Command(FALSE, FALSE, NoBlob),
     Command(TRUE, FALSE, [chunks |-> 2, aiding |-> TRUE]),
     Command(TRUE, TRUE, [chunks |-> 2, aiding |-> FALSE]),
     Command(FALSE, TRUE, [chunks |-> 9, aiding |-> TRUE])}

\* --can-id, naming one of the two identifiers of the bus.
MCNamedOptions == {[Command(TRUE, FALSE, NoBlob) EXCEPT !.can_ids = {Exact(A)}]}
MCNamedDevices == {[Device("none") EXCEPT !.slots = n] : n \in 1..5}

\* Conforming devices that are not Ordinary, one way each, and a plain command line.
MCPlainOptions == {Command(TRUE, FALSE, NoBlob), Command(FALSE, FALSE, NoBlob)}
MCOneObdSlot == {[Device("none") EXCEPT !.obd_slots = 1]}
MCQuietCar   == {[Device("none") EXCEPT !.slots = 1, !.car = Car(2, 7, TRUE)]}
MCUnmasked   == {[Device("none") EXCEPT !.slots = 5, !.caps = @ \ {"masked_subscriptions"}]}
MCAtBound    == {[Device("none") EXCEPT !.schedules = 3, !.bus = {A, B, C}]}
=============================================================================

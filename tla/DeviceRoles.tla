------------------------------ MODULE DeviceRoles ------------------------------
(***************************************************************************)
(* The roles of the device a conformance run interrogates, one answered     *)
(* request at a time: what vtp_device.py answers to OBD, aiding, monitor    *)
(* and power requests and publishes in Info, with what a defect seeded by   *)
(* LoopbackTransport (harness/vtp1_harness/transport.py, FAULTS) makes of   *)
(* it.  A device d is a record: what it declares, what SPEC.md leaves it    *)
(* free to do, the car it is plugged into, and its state.                   *)
(***************************************************************************)
EXTENDS Integers, Sequences, FiniteSets, SequencesExt

CONSTANT
    ChunkCap         \* the 65535 chunks a 16-bit chunk index can number

ASSUME ChunkCapAssumption == ChunkCap \in Nat \ {0}

Has(d, f) == d.fault = f
Answer(d, s) == [device |-> d, status |-> s, detail |-> FALSE]

-----------------------------------------------------------------------------
(* What is published before anything is asked *)

Characteristics == {"info", "gps", "can", "imu", "control", "monitor_values", "aiding"}
CccdOwner == [gps |-> "gps", can |-> "can", imu |-> "imu", control |-> "control"]
Table(d) ==
    IF Has(d, "missing_characteristic") THEN Characteristics \ {"imu"}
    ELSE IF Has(d, "extra_characteristic") THEN Characteristics \cup {"vendor"}
    ELSE Characteristics

\* What a capability requires beside it (SPEC.md 4.1, in the schema's `implies`).
Implies ==
    [can |-> {"control"}, masked_subscriptions |-> {"can"}, monitor |-> {"control"},
     power |-> {"control"}, gnss_aiding |-> {"gps", "control"}, obd |-> {"can", "control"}]

Published(d) == IF Has(d, "implication_broken") THEN d.caps \ {"control"} ELSE d.caps

\* VtpDevice.info: a rate or a capacity follows its capability; zero is none.
Rates(d) == [r \in DOMAIN d.rate |-> IF r \in d.caps THEN d.rate[r] ELSE 0]
Room(d)  ==
    LET real == [gps |-> d.ceiling.gps, imu |-> d.ceiling.imu, can |-> d.slots, obd |-> d.obd_slots]
    IN  [r \in DOMAIN real |-> IF r \in d.caps THEN real[r] ELSE 0]

\* LoopbackTransport.read: the same with the capacity a defect blanks or lowers.
Capacity(d) ==
    LET blank == CASE Has(d, "capacity_zero") /\ "gps" \in d.caps -> "gps"
                   [] Has(d, "capacity_zero") /\ "can" \in d.caps -> "can"
                   [] Has(d, "obd_capacity_zero") -> "obd"
                   [] OTHER -> "none"
        low == Has(d, "info_rate_above_ceiling") /\ "gps" \in d.caps
    IN  [r \in DOMAIN Room(d) |-> CASE r = blank -> 0
                                    [] r = "gps" /\ low -> Rates(d).gps - 1
                                    [] OTHER -> Room(d)[r]]

Info(d) ==
    [decodes |-> ~Has(d, "info_truncated"), major |-> ~Has(d, "info_major_wrong"),
     reserved |-> Has(d, "caps_reserved_bits"),
     caps |-> IF Has(d, "info_truncated") THEN {} ELSE Published(d),
     rate |-> Rates(d),
     capacity |-> Capacity(d)]

\* A write to a Control nobody declared is an ATT error, unless the defect takes it.
InertTakes(d) == "control" \in Published(d) \/ Has(d, "inert_control_accepts_writes")

\* A scan result; the capability byte of its Service Data may be advertised wrong.
Advert(d) == [service |-> ~Has(d, "advert_no_service_uuid"), data |-> d.beacon,
              agrees |-> ~Has(d, "advert_caps_disagree")]

-----------------------------------------------------------------------------
(* Power *)

\* _power_state: the valid fields, and what stands in each; reserved is the last byte.
PowerState(d) ==
    [valid |-> d.supply, percent |-> IF "percent" \in d.supply THEN 80 ELSE 0, reserved |-> 0]

\* The same as a defect answers it.
Power(d) ==
    LET p == PowerState(d)
    IN  CASE Has(d, "power_percent_impossible") ->
               [p EXCEPT !.valid = @ \cup {"percent"}, !.percent = 200]
          [] Has(d, "power_stale_behind_bit") -> [p EXCEPT !.valid = @ \ {"percent"}, !.percent = 63]
          [] Has(d, "power_declared_but_empty") -> [p EXCEPT !.valid = {}, !.percent = 0]
          [] Has(d, "power_reserved_nonzero") -> [p EXCEPT !.reserved = 1]
          [] OTHER -> p

-----------------------------------------------------------------------------
(* Monitor: slots 1..channels are declared *)

\* handle_monitor_write: why a write is rejected, in the order it is read.
Rejection(d, slots, count) ==
    IF "monitor" \notin d.caps THEN "not_supported"
    ELSE IF count # Len(slots) THEN "length"
    ELSE IF count = 0 THEN "empty"
    ELSE IF Cardinality(Range(slots)) # Len(slots) THEN "duplicate"
    ELSE IF ~(1..d.channels \subseteq Range(slots)) THEN "incomplete"
    ELSE "none"

\* _monitor_write: the rejections a defect swallows, and the one it adds.
Refused(d, slots, count) ==
    LET why == Rejection(d, slots, count)
    IN  \/ Has(d, "monitor_rejects_unknown_slot") /\ count = Len(slots)
           /\ ~(Range(slots) \subseteq 1..d.channels)
        \/ /\ why # "none"
           /\ ~(Has(d, "monitor_accepts_duplicate_slot") /\ why = "duplicate")
           /\ ~(Has(d, "monitor_accepts_bad_length") /\ why = "length")
           /\ ~(Has(d, "monitor_accepts_partial") /\ why = "incomplete")

-----------------------------------------------------------------------------
(* OBD: PIDs 1..car.pids are supported, 0 stands for any that is not *)

EcuCap == 8                        \* the ECUs one probe record names
GroupCap == 6                      \* OBD_MAX_GROUP
Single(pid) == [pids |-> <<pid>>, min |-> 0]
PidCount(groups) == FoldLeft(LAMBDA n, g : n + Len(g.pids), 0, groups)

Reported(d) == 1..(IF d.car.ecus > EcuCap THEN EcuCap ELSE d.car.ecus)

\* OBD_INFO: a fresh measurement, which clears the poll set.
Probed(d) == [d EXCEPT !.probe = IF d.car.ecus > 0 THEN "responded" ELSE "silent", !.poll = <<>>]

\* The record of its answer; stale: fields filled in behind a cleared bit.
ProbeRecord(d) ==
    LET some == [taken |-> TRUE, responded |-> d.car.ecus > 0, truncated |-> d.car.ecus > EcuCap,
                 ecus |-> [i \in Reported(d) |-> i],
                 pids |-> IF d.car.ecus > 0 THEN d.car.pids ELSE 0,
                 stale |-> FALSE, reserved |-> 0]
    IN  CASE Has(d, "obd_responded_without_ecus") -> [some EXCEPT !.ecus = <<>>]
          [] Has(d, "obd_entries_descending") -> [some EXCEPT !.ecus = Reverse(@)]
          [] Has(d, "obd_truncated_below_cap") -> [some EXCEPT !.truncated = TRUE]
          [] Has(d, "obd_stale_behind_bit") ->
               [some EXCEPT !.responded = FALSE, !.ecus = <<>>, !.stale = TRUE]
          [] Has(d, "obd_reserved_nonzero") -> [some EXCEPT !.reserved = 1]
          [] OTHER -> some

\* The session's record before any probe was answered.
Unprobed == [taken |-> FALSE, responded |-> FALSE, truncated |-> FALSE, ecus |-> <<>>,
             pids |-> 0, stale |-> FALSE, reserved |-> 0]

\* handle_control, OBD_POLL_SET: shape, capacity, then what the last probe supports.
\* The car may go to sleep under the first set it is polled with.
Installable(d, pid) == d.probe = "assumed" \/ (d.probe = "responded" /\ pid \in 1..d.car.pids)
Polled(d, groups) ==
    [d EXCEPT !.poll = groups, !.ever = @ \/ groups # <<>>,
              !.car.ecus = IF groups # <<>> /\ d.car.leaves THEN 0 ELSE @]
HandlePollSet(d, q) ==
    IF q.groups = <<>> /\ ~q.broken
    THEN IF q.arg # 0 THEN Answer(d, "bad_params") ELSE Answer(Polled(d, <<>>), "ok")
    ELSE IF q.broken THEN Answer(d, "bad_params")
    ELSE IF PidCount(q.groups) > d.obd_slots THEN Answer(d, "table_full")
    ELSE IF \E g \in Range(q.groups) : \E pid \in Range(g.pids) : ~Installable(d, pid)
         THEN Answer(d, "bad_params")
    ELSE IF \E g \in Range(q.groups) : Len(g.pids) > GroupCap THEN Answer(d, "bad_params")
    ELSE Answer(Polled(d, q.groups), "ok")

\* _indulge_obd and the schedule defects of _control_write, applied to a poll set.
Garbled(d, g) == [pids |-> IF g.pids[1] \in 1..d.car.pids THEN g.pids ELSE <<1>>,
                  min |-> IF g.min = 0 THEN 3084 ELSE 268]
PollRewritten(d, q) ==
    LET groups == q.groups
    IN  CASE groups = <<>> -> q
          [] Has(d, "params_ignored") -> [q EXCEPT !.broken = TRUE]
          [] Has(d, "obd_accepts_unsupported_pid") /\ d.car.pids > 0 /\ d.probe = "responded" ->
               [q EXCEPT !.broken = @ \/ \E g \in Range(groups) : Len(g.pids) > 1,
                         !.groups = [i \in DOMAIN @ |-> Garbled(d, @[i])]]
          [] Has(d, "obd_accepts_bad_group") /\ q.broken ->
               [q EXCEPT !.broken = FALSE, !.groups = <<Single(Head(groups[1].pids))>>]
          [] Has(d, "obd_accepts_bad_group") ->
               [q EXCEPT !.groups = [i \in DOMAIN @ |->
                   [@[i] EXCEPT !.pids = SubSeq(@, 1, IF Len(@) > GroupCap THEN GroupCap ELSE Len(@))]]]
          [] Has(d, "obd_ignores_group_minimum") /\ ~q.broken ->
               [q EXCEPT !.groups = [i \in DOMAIN @ |-> [@[i] EXCEPT !.min = 0]]]
          [] Has(d, "obd_splits_groups") /\ ~q.broken ->
               [q EXCEPT !.groups = FlattenSeq([i \in DOMAIN @ |->
                   [j \in DOMAIN @[i].pids |-> [pids |-> <<@[i].pids[j]>>, min |-> @[i].min]]])]
          [] OTHER -> q

\* obd_status, of a device whose car answers, and the same as a defect answers it.
ObdState(d) == [installed |-> d.poll # <<>>, suspended |-> FALSE, reserved |-> FALSE]
Status(d) ==
    LET s == [ObdState(d) EXCEPT
                 !.installed = @ \/ (Has(d, "obd_status_stale_installed") /\ d.ever)]
    IN  CASE Has(d, "obd_status_suspended_awake") -> [s EXCEPT !.suspended = s.installed]
          [] Has(d, "obd_status_reserved_nonzero") -> [s EXCEPT !.reserved = TRUE]
          [] OTHER -> s

\* The ECUs that answer the poll loop, and those whose answers need no subscription:
\* _obd_fallback_delivers.
Ecu(i) == <<"ecu", i>>
Answering(d) == IF d.poll = <<>> \/ d.car.quiet THEN {} ELSE {Ecu(i) : i \in 1..d.car.ecus}
Fallback(d) ==
    IF Has(d, "obd_delivery_needs_subscription") THEN {}
    ELSE Answering(d) \cap {Ecu(i) : i \in Reported(d)}

\* Answers led by pid in a window that has room for twelve requests, and how far
\* apart they are: one pass asks every group that may be asked.
Passes == 12
Leads(d, pid) ==
    Cardinality({i \in DOMAIN d.poll : d.poll[i].pids[1] = pid})
        * (Passes \div (IF d.poll = <<>> THEN 1 ELSE Len(d.poll)))
SpacingMs(d, pid) == LET i == CHOOSE i \in DOMAIN d.poll : d.poll[i].pids[1] = pid
                     IN  IF d.poll[i].min = 0 THEN 40 ELSE d.poll[i].min

-----------------------------------------------------------------------------
(* Aiding, counted in chunks: total is what the open transfer expects *)

NoAid == [token |-> 0, total |-> 0, held |-> {}, spoilt |-> FALSE]
TransferOpen(d) == d.aid.total # 0

\* _indulge_begin: what a defect makes of a BEGIN before the device reads it.
Indulged(d, q) ==
    CASE Has(d, "aid_accepts_undeclared_format") -> [q EXCEPT !.fmt = "declared"]
      [] Has(d, "aid_accepts_oversized") /\ q.total > d.aid_room -> [q EXCEPT !.total = d.aid_room]
      [] OTHER -> q

\* GNSS_AID_BEGIN; a defect that keeps the transfer, or its token, is only met by a
\* transfer that already holds a chunk.
Clinging(d, f) == Has(d, f) /\ TransferOpen(d) /\ d.aid.held # {}
HandleBegin(d, q) ==
    LET total == Indulged(d, q).total
        token == IF Clinging(d, "aid_token_reused") THEN d.aid.token ELSE d.tokens + 1
    IN  IF Clinging(d, "aid_begin_keeps_transfer") THEN Answer(d, "ok")
        ELSE IF Indulged(d, q).fmt # "declared" \/ total \notin 1..d.aid_room \/ total > ChunkCap
             THEN Answer(d, "bad_params")
        ELSE Answer([d EXCEPT !.aid = [NoAid EXCEPT !.total = total, !.token = token],
                              !.tokens = @ + 1], "ok")

\* handle_aiding_write, of a chunk whose bytes are the client's own or another's.
Chunk(d, token, index, foreign) ==
    IF ~TransferOpen(d) \/ (token # d.aid.token /\ ~Has(d, "aid_token_ignored")) \/ index >= d.aid.total
    THEN d
    ELSE [d EXCEPT !.aid.held = @ \cup {index},
                   !.aid.spoilt = IF index = 0 THEN foreign ELSE @]

\* _aid_commit: the result, and the index to resend from where there is one (-1).
Lacking(d) == 0..(d.aid.total - 1) \ d.aid.held
Incomplete(first) == [result |-> "incomplete", first |-> first]
Complete(result)  == [result |-> result, first |-> -1]
Judged(d, crc, taken) ==
    IF Lacking(d) # {} THEN Incomplete(Min(Lacking(d)))
    ELSE IF crc = "bad" \/ d.aid.spoilt THEN Complete("bad_crc")
    ELSE IF ~taken THEN Complete("rejected")
    ELSE Complete("applied")

\* The same as a defect answers it.
CommitResult(d, crc, taken) ==
    LET r == Judged(d, crc, taken)
    IN  CASE Has(d, "aid_applied_with_missing_index") /\ r.result = "applied" -> [r EXCEPT !.first = 0]
          [] Has(d, "aid_reports_first_chunk_missing") /\ r.result = "incomplete" ->
               [r EXCEPT !.first = 0]
          [] Has(d, "aid_ignores_crc") /\ r.result = "bad_crc" -> [r EXCEPT !.result = "applied"]
          [] OTHER -> r
HandleCommit(d) ==
    IF ~TransferOpen(d) THEN Answer(d, "bad_params")
    ELSE Answer(IF Lacking(d) # {} THEN d ELSE [d EXCEPT !.aid = NoAid], "ok")
=============================================================================

------------------------------ MODULE HarnessRun ------------------------------
(***************************************************************************)
(* One conformance run: Runner.run of harness/vtp1_harness/runner.py, check *)
(* by check over the registry, against any of the devices in Devices.  A    *)
(* check reads and asks through the session; its verdict is a result, the   *)
(* link may fail at any of them, and the reconnect phase opens a second     *)
(* connection to the same device.                                           *)
(***************************************************************************)
EXTENDS ProfileChecks, ClientChecks, ObdChecks

CONSTANTS
    Devices,         \* the devices and defects a run may meet
    Options          \* [adversarial, can_ids, scanned, blob] of the command line

\* A device that nobody has asked anything yet has an empty table of at least one slot
\* (CAN_SUBSCRIPTION_SLOTS), and nothing probed, polled, transferred or owed.
DeviceType ==
    [fault : STRING, caps : SUBSET STRING, slots : Nat \ {0}, obd_slots : Nat,
     bus : SUBSET (STRING \X Nat), brisk : BOOLEAN, sheds : BOOLEAN, schedules : Nat \ {0},
     discrete : BOOLEAN,
     timing : {"owing", "sent", "arrived"}, unanswerable : {"ignored", "refused", "held"},
     rate : [gps : Nat, imu : Nat], ceiling : [gps : Nat, imu : Nat],
     table : {<<>>}, late : {"spent"}, doubled : {{}}, decorated : {{}},
     beacon : BOOLEAN, supply : SUBSET STRING, channels : Nat,
     car : [ecus : Nat, pids : Nat, quiet : BOOLEAN, leaves : BOOLEAN],
     probe : {"none"}, poll : {<<>>}, ever : {FALSE}, aid : {NoAid}, tokens : Nat,
     aid_room : Nat, strict : BOOLEAN]
ASSUME DeviceAssumption == Devices \subseteq DeviceType

\* The command line names finitely many identifiers, each exactly.
ASSUME OptionAssumption ==
    \A o \in Options :
        /\ IsFiniteSet(o.can_ids) /\ \A k \in o.can_ids : k.mask = "exact"
        /\ o.blob.chunks \in Nat

VARIABLES
    device,          \* the device, its table and what is seeded into it
    session,         \* the Session, its logs and its state
    results,         \* verdict of each check that ran, by its id
    position,        \* how many checks of the registry are behind
    stage            \* what the run is doing

vars == <<device, session, results, position, stage>>

ReconnectRegistry ==
    <<Check("reconnect.subscriptions_cleared", Can, FALSE),
      Check("reconnect.seq_restarts", {}, FALSE)>>

\* load_all, in the order of PHASES: discovery, gatt, info, control, monitor, aiding,
\* observe, streams, transport, reconnect.
BeforeCollection ==
    ProfileRegistry \o <<Check("can.silent_until_asked", {"can"}, FALSE)>>
    \o ControlRegistry \o PowerRegistry \o ObdRegistry \o ClientRegistry \o ObserveRegistry
AfterCollection ==
    StreamRegistry \o <<Check("control.no_unprovoked_busy", Control, FALSE)>>
Interrogation == BeforeCollection \o AfterCollection
Registry == Interrogation \o ReconnectRegistry
CheckIds == {Registry[i].id : i \in 1..Len(Registry)}

-----------------------------------------------------------------------------
(* The reconnect checks *)

Surviving(w, keys) ==
    LET told == Course(w, [i \in DOMAIN keys |->
                    Asking(Unsubscribe(keys[i]), {"ok", "unknown_subscription"}, "fail")])
    IN  FailIf(told[Len(keys)], \E i \in DOMAIN keys : told[i].status = "ok")
SubscriptionsCleared(w) ==
    LET n == w.session
    IN  Surviving(SkipIf(w, ~n.reconnected \/ n.installed_before = {}), SetToSeq(n.installed_before))

SeqRestarts(w) ==
    FailIf(SkipIf(w, ~w.session.reconnected \/ Present(w) = {}), Numbered(w)[1] # 0)

In(id, registry) == \E i \in 1..Len(registry) : registry[i].id = id
CheckOf(id, w) ==
    CASE id = "reconnect.subscriptions_cleared" -> SubscriptionsCleared(w)
      [] id = "reconnect.seq_restarts" -> SeqRestarts(w)
      [] id = "control.no_unprovoked_busy" -> NoUnprovokedBusy(w)
      [] In(id, ControlRegistry) -> ControlCheck(id, w)
      [] In(id, ProfileRegistry \o PowerRegistry) -> ProfileCheck(id, w)
      [] In(id, ClientRegistry) -> ClientCheck(id, w)
      [] In(id, ObdRegistry) -> ObdCheck(id, w)
      [] OTHER -> StreamCheck(id, w)

\* Runner._one: skipped for what the device does not declare or the operator did not
\* allow, and a check that ends without a verdict passes.
Skipped(check, w) ==
    ~(check.requires \subseteq w.session.caps) \/ (check.adversarial /\ ~w.session.adversarial)
Verdicted(check, w) ==
    IF Skipped(check, w) THEN End(w, "skip") ELSE End(CheckOf(check.id, w), "pass")

-----------------------------------------------------------------------------
(* Connections *)

World == [device |-> device, session |-> session, status |-> "none", detail |-> FALSE,
          verdict |-> "running"]

\* LoopbackTransport.connect: an empty table, whatever the defect puts into it,
\* nothing probed, polled or transferred; and what the streams hear at once.
Connected(d, stale) ==
    [d EXCEPT !.table = CASE Has(d, "subs_survive_reconnect") -> stale
                          [] Has(d, "stream_before_subscribe") ->
                               Installed(<<>>, Subscribe(Catchall))
                          [] OTHER -> <<>>,
              !.late = IF Has(d, "owes_until_confirmed") THEN "armed" ELSE "spent",
              !.doubled = {}, !.decorated = {}, !.probe = "none", !.poll = <<>>,
              !.aid = NoAid]

Opened(o) ==
    [adversarial |-> o.adversarial, can_ids |-> o.can_ids, scanned |-> o.scanned,
     blob |-> o.blob, catch_all |-> FALSE,
     installed |-> {}, installed_before |-> {}, probe_installed |-> FALSE,
     probe_response |-> [status |-> "none", detail |-> FALSE],
     busy_probe |-> [excluded |-> FALSE, status |-> "none"],
     unprovoked |-> FALSE, time_sync |-> FALSE, decodes |-> FALSE, adv_data |-> FALSE,
     caps |-> {}, rate |-> <<>>, capacity |-> <<>>,
     powered |-> FALSE, power |-> [valid |-> {}, percent |-> 0, reserved |-> 0],
     obd |-> Unprobed, channels |-> 0, aid_caps |-> FALSE, aid_begin |-> FALSE,
     heard |-> {}, baseline |-> FALSE, reconnected |-> FALSE]

\* Session.open: Info is read before anything is asked, and read again on reconnecting.
WithInfo(n, d) ==
    [n EXCEPT !.decodes = Info(d).decodes, !.caps = Info(d).caps, !.rate = Info(d).rate,
              !.capacity = Info(d).capacity, !.heard = Flowing(d)]

Init ==
    /\ device \in Devices
    /\ \E o \in Options : session = Opened(o)
    /\ results = <<>>
    /\ position = 0
    /\ stage = "opening"

Open ==
    /\ stage = "opening"
    /\ device' = Connected(device, <<>>)
    /\ session' = WithInfo(session, device')
    /\ stage' = "before"
    /\ UNCHANGED <<results, position>>

LastOf == [before |-> Len(BeforeCollection), after |-> Len(Interrogation),
           again |-> Len(Registry)]
Behind(s) == stage = s /\ position = LastOf[s]

OneCheck ==
    /\ stage \in DOMAIN LastOf
    /\ position < LastOf[stage]
    /\ \E w \in {Verdicted(Registry[position + 1], World)} :
           /\ device' = w.device
           /\ session' = w.session
           /\ results' = Placed(results, Registry[position + 1].id, w.verdict)
    /\ position' = position + 1
    /\ UNCHANGED stage

\* observe_s seconds of listening.
Collect ==
    /\ Behind("before")
    /\ device' = Listen(World).device
    /\ session' = Listen(World).session
    /\ stage' = "after"
    /\ UNCHANGED <<results, position>>

\* _reconnect, to where the link is down.
Drop ==
    /\ Behind("after")
    /\ session' = [session EXCEPT !.installed_before = session.installed]
    /\ stage' = "reconnecting"
    /\ UNCHANGED <<device, results, position>>

\* The second connection; one that fails is noted, and the checks that need it skip.
Reopen ==
    /\ stage = "reconnecting"
    /\ device' = Connected(device, device.table)
    /\ session' = WithInfo([session EXCEPT !.reconnected = TRUE], device')
    /\ stage' = "again"
    /\ UNCHANGED <<results, position>>

ReopenFails ==
    /\ stage = "reconnecting"
    /\ session' = [session EXCEPT !.heard = {}]
    /\ stage' = "again"
    /\ UNCHANGED <<device, results, position>>

\* A TransportError that is not a refusal: the run ends with what it has found.
LinkLost ==
    /\ stage \in {"opening"} \cup DOMAIN LastOf
    /\ stage' = "aborted"
    /\ UNCHANGED <<device, session, results, position>>

\* The reconnect phase is over, or was not asked for.
Finish ==
    /\ Behind("after") \/ Behind("again")
    /\ stage' = "done"
    /\ UNCHANGED <<device, session, results, position>>

Next == Open \/ OneCheck \/ Collect \/ Drop \/ Reopen \/ ReopenFails \/ LinkLost \/ Finish

Spec == Init /\ [][Next]_vars

-----------------------------------------------------------------------------
(* What a run may say *)

\* The types of the run: every result is of a check of the registry, and the results
\* are those of the checks behind.
TypeOK ==
    /\ stage \in {"opening", "reconnecting", "aborted", "done"} \cup DOMAIN LastOf
    /\ position \in 0..Len(Registry)
    /\ DOMAIN results = {Registry[i].id : i \in 1..position}
    /\ \A id \in DOMAIN results : results[id] \in {"pass", "fail", "warn", "skip", "observe"}
    /\ Used(device) \in 0..device.slots

\* A conforming device is failed by no check, whatever SPEC.md leaves it free to do
\* (harness/selftest.py: "A tool that fails a conforming device is worse than no tool").
\* The harness does not keep this: see NoOrdinaryFalseAlarm for what it does keep.
NoFalseAlarm ==
    device.fault = "none" => \A id \in DOMAIN results : results[id] # "fail"

\* The conforming devices a run without --can-id can be trusted with: room in the OBD table
\* for the two entries a grouping check installs, and in the CAN table for every ECU a
\* silent poll is diagnosed on; a table the checks fill, or masks to observe with; and a
\* bound on schedules that the broadcast identifiers do not meet exactly.
Ordinary(d) ==
    /\ d.obd_slots > 1
    /\ d.car.quiet => d.car.ecus <= d.slots
    /\ d.slots <= FillLimit \/ "masked_subscriptions" \in d.caps
    /\ d.schedules = 1 \/ d.schedules # Cardinality(d.bus)

\* A conforming device that is ordinary is failed by no check, whatever else SPEC.md leaves
\* it free to do: how it answers, what it sheds and reclaims, what it is plugged into.
NoOrdinaryFalseAlarm == Ordinary(device) /\ session.can_ids = {} => NoFalseAlarm

\* selftest.py's CAUGHT_BY.
CaughtBy ==
    [detail_on_error |-> {"control.detail_only_on_ok"},
     no_tag_echo |-> {"control.echoes_request"},
     timesync_single_reading |-> {"control.time_sync"},
     timesync_unsupported |-> {"control.time_sync"},
     subs_survive_reconnect |-> {"reconnect.subscriptions_cleared"},
     seq_survives_reconnect |-> {"reconnect.seq_restarts"},
     seq_starts_at_one |-> {"seq.first_is_zero"},
     seq_repeats |-> {"seq.advances"},
     stream_truncated |-> {"gps.decodes"},
     absent_field_nonzero |-> {"gps.absent_fields_zero"},
     gps_scope_bits_ignored |-> {"gps.solution_scoped_bits"},
     clock_per_stream |-> {"clock.one_clock"},
     clock_diverges |-> {"clock.one_rate"},
     clock_steps_backwards |-> {"clock.monotonic"},
     unknown_subscription_ok |-> {"can.unknown_subscription"},
     update_refused_when_full |-> {"can.update_in_place_when_full"},
     transmission_bits_in_identity |-> {"can.transmission_bits_ignored"},
     identity_folds_on_mask |-> {"can.identity_is_the_pair"},
     unknown_mode_defaults |-> {"can.unknown_mode_refused"},
     rate_admission |-> {"can.no_rate_admission"},
     duplicate_consumes_slot |-> {"can.table_full"},
     table_full_early |-> {"can.table_full"},
     duplicate_double_entry |-> {"can.subscribe_idempotent"},
     stream_before_subscribe |-> {"can.silent_until_asked"},
     overlap_wrong_governor |-> {"can.most_specific_governs"},
     tie_break_latest |-> {"can.earliest_installed_governs"},
     can_duplicate_across_batches |-> {"can.forwarded_once"},
     no_first_frame |-> {"can.periodic_first_then_rations"},
     periodic_ignored |-> {"can.periodic_first_then_rations"},
     reinstall_rearms |-> {"can.identical_reinstall_costs_nothing"},
     reinstall_never_rearms |-> {"can.changed_reinstall_rearms"},
     schedule_keyed_by_identifier |-> {"can.displaced_schedule_survives"},
     format_bit_ignored |-> {"can.format_bit_is_identity"},
     dropped_counts_declined |-> {"can.dropped_excludes_declined"},
     drops_a_response |-> {"control.time_sync", "control.no_busy_for_conforming_client"},
     att_error_when_pool_full |-> {"control.time_sync", "control.no_busy_for_conforming_client"},
     owes_until_confirmed |->
         {"control.no_busy_for_conforming_client", "control.no_unprovoked_busy"},
     pipelines_silently |-> {"control.busy_when_outstanding"},
     pipelined_answered_bad_params |-> {"control.busy_when_outstanding"},
     busy_but_applied |-> {"control.busy_not_applied"},
     opcode_capability_late |-> {"control.opcode_capability"},
     rate_not_applied |-> {"control.rate_readback"},
     rate_ceiling_ignored |-> {"control.rate_ceiling"},
     params_ignored |-> {"control.malformed_params"},
     unallocated_opcode_ok |-> {"control.unsupported_opcode"},
     missing_characteristic |-> {"gatt.attribute_table"},
     extra_characteristic |-> {"gatt.no_extra_characteristics"},
     inert_cccd_rejected |-> {"gatt.inert_cccd"},
     implication_broken |-> {"info.capability_implications"},
     caps_reserved_bits |-> {"info.reserved_capabilities"},
     info_truncated |-> {"info.decodes"},
     info_major_wrong |-> {"info.major"},
     capacity_zero |-> {"info.capacities"},
     advert_no_service_uuid |-> {"adv.service_uuid"},
     advert_caps_disagree |-> {"adv.service_data_agrees"},
     info_rate_above_ceiling |-> {"info.rate_ceiling"},
     inert_control_accepts_writes |-> {"gatt.inert_control_rejects_writes"},
     power_unsupported |-> {"power.get_power"},
     power_percent_impossible |-> {"power.percent_in_range"},
     power_stale_behind_bit |-> {"power.absent_fields_zero"},
     power_declared_but_empty |-> {"power.something_valid"},
     power_reserved_nonzero |-> {"power.reserved"},
     monitor_accepts_partial |-> {"monitor.rejects_incomplete"},
     monitor_accepts_duplicate_slot |-> {"monitor.rejects_duplicate_slot"},
     monitor_accepts_bad_length |-> {"monitor.rejects_bad_length"},
     monitor_rejects_unknown_slot |-> {"monitor.ignores_unknown_slot"},
     list_reserved_nonzero |-> {"monitor.declaration"},
     monitor_paged_declaration |-> {"monitor.declaration"},
     aid_stale_held_until |-> {"aiding.declaration"},
     aid_chunk_exceeds_mtu |-> {"aiding.chunk_size"},
     aid_accepts_undeclared_format |-> {"aiding.rejects_undeclared_format"},
     aid_accepts_oversized |-> {"aiding.rejects_oversized"},
     aid_applied_with_missing_index |-> {"aiding.transfer"},
     aid_reports_first_chunk_missing |-> {"aiding.reports_missing_chunk"},
     aid_ignores_crc |-> {"aiding.detects_corruption"},
     aid_begin_keeps_transfer |-> {"aiding.begin_supersedes"},
     aid_token_reused |-> {"aiding.begin_supersedes"},
     aid_token_ignored |-> {"aiding.begin_supersedes"},
     obd_probe_unsupported |-> {"obd.probe"},
     obd_responded_without_ecus |-> {"obd.count_agrees"},
     obd_truncated_below_cap |-> {"obd.count_agrees"},
     obd_entries_descending |-> {"obd.entries_ascending"},
     obd_stale_behind_bit |-> {"obd.absent_fields_zero"},
     obd_reserved_nonzero |-> {"obd.reserved"},
     obd_capacity_zero |-> {"obd.capacities"},
     obd_accepts_unsupported_pid |-> {"obd.poll_refusals"},
     obd_accepts_bad_group |-> {"obd.grouping_refusals"},
     obd_splits_groups |-> {"obd.grouping_is_one_request"},
     obd_ignores_group_minimum |-> {"obd.group_minimum_is_honoured"},
     obd_ignores_stop |-> {"obd.poll_and_flag"},
     obd_delivery_needs_subscription |-> {"obd.poll_and_flag"},
     obd_flag_never_set |-> {"obd.poll_and_flag"},
     obd_reset_keeps_polling |-> {"obd.reset_stops"},
     obd_polls_before_probe |-> {"obd.poll_before_probe"},
     obd_status_unsupported |-> {"obd.status"},
     obd_status_stale_installed |-> {"obd.status"},
     obd_status_suspended_awake |-> {"obd.status"},
     obd_status_reserved_nonzero |-> {"obd.status"},
     obd_reprobe_refused |-> {"obd.poll_and_flag"}]

\* FAULTS, as far as a check here has to catch them.
Faults == DOMAIN CaughtBy

Advertised == {"advert_no_service_uuid", "advert_caps_disagree"}

\* A run that ended with its reconnection, every check allowed, names every check that
\* must catch the defect: a failure, or a warning where the check is a SHOULD.
DefectCaught ==
    (/\ stage = "done" /\ session.reconnected /\ session.adversarial
     /\ device.fault \in Faults /\ (device.fault \in Advertised => session.scanned)) =>
        \A id \in CaughtBy[device.fault] : results[id] \in {"fail", "warn"}

\* Between two checks of a connection, what the session believes installed is installed
\* (streams.py, _restore_observation_table: "the device and that record must agree").
NotesMatchTable ==
    (device.fault = "none" /\ stage \in {"before", "after"}) =>
        session.installed \subseteq DOMAIN device.table

\* The same of the devices whose table a check is ready to fill.
NotesMatchSmallTable == device.slots <= FillLimit => NotesMatchTable

=============================================================================

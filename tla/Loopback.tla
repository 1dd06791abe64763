------------------------------- MODULE Loopback -------------------------------
(***************************************************************************)
(* The control plane and the CAN receiver of the device a conformance run   *)
(* interrogates: vtp_device.py's handle_control behind LoopbackTransport's  *)
(* _control_write (harness/vtp1_harness/transport.py), with one of the      *)
(* defects of its FAULTS seeded or none.                                    *)
(***************************************************************************)
EXTENDS DeviceRoles

NoOpcode == "UNALLOCATED"          \* UNALLOCATED_OPCODE, 0x7E

\* OPCODE_CAPABILITY: the capability that owns an opcode ("" for TIME_SYNC).
Owner ==
    [CAN_RESET |-> "can", CAN_SUBSCRIBE |-> "can",
     CAN_SUBSCRIBE_MASK |-> "masked_subscriptions", CAN_UNSUBSCRIBE |-> "can",
     GPS_SET_RATE |-> "gps", IMU_SET_RATE |-> "imu", TIME_SYNC |-> "",
     MONITOR_LIST |-> "monitor", GET_POWER |-> "power",
     GNSS_AID_INFO |-> "gnss_aiding", GNSS_AID_BEGIN |-> "gnss_aiding",
     GNSS_AID_COMMIT |-> "gnss_aiding",
     OBD_INFO |-> "obd", OBD_POLL_SET |-> "obd", OBD_STATUS |-> "obd"]

\* The same opcodes in the order of the schema, which the checks go through them in.
Opcodes ==
    <<"CAN_RESET", "CAN_SUBSCRIBE", "CAN_SUBSCRIBE_MASK", "CAN_UNSUBSCRIBE", "GPS_SET_RATE",
      "GNSS_AID_INFO", "GNSS_AID_BEGIN", "GNSS_AID_COMMIT", "IMU_SET_RATE", "TIME_SYNC",
      "MONITOR_LIST", "GET_POWER", "OBD_INFO", "OBD_POLL_SET", "OBD_STATUS">>

Owns(d, op) == op \in DOMAIN Owner /\ (Owner[op] = "" \/ Owner[op] \in d.caps)

-----------------------------------------------------------------------------
(* Subscription identities.  An identifier is a name and a number; masks are  *)
(* named for what they ignore: nothing (exact), a low bit (low, low2), all    *)
(* that two identifiers of one name differ in (group), every bit (none).      *)

Exact(id) == [id |-> id, mask |-> "exact"]
Catchall  == [id |-> <<"zero", 0>>, mask |-> "none"]
Folded(k) == IF k.mask = "group" THEN [k EXCEPT !.id = <<@[1], 0>>] ELSE k
Tomb(table) == Exact(<<"tomb", Cardinality({k \in DOMAIN table : k.id[1] = "tomb"})>>)

Specificity == [exact |-> 30, low |-> 29, low2 |-> 29, other |-> 29, group |-> 28, none |-> 0]
Slow == 60000                       \* SLOW_MS: outlasts every window of a check
Rationed == 200                     \* RATIONED_MS: many intervals in a window

Bare(op) == [op |-> op, key |-> Exact(<<"zero", 0>>), mode |-> "every_frame", arg |-> 0, hz |-> 0,
             groups |-> <<>>, broken |-> FALSE, fmt |-> "declared", total |-> 0,
             malformed |-> FALSE, decorated |-> FALSE]
Installs(q) == q.op \in {"CAN_SUBSCRIBE", "CAN_SUBSCRIBE_MASK"} /\ ~q.malformed
Subscribe(k)   == [Bare(IF k.mask = "exact" THEN "CAN_SUBSCRIBE" ELSE "CAN_SUBSCRIBE_MASK")
                   EXCEPT !.key = k]
Unsubscribe(k) == [Bare("CAN_UNSUBSCRIBE") EXCEPT !.key = k]
Periodic(k, ms) == [Subscribe(k) EXCEPT !.mode = "periodic", !.arg = ms]
Reset          == Bare("CAN_RESET")
SetRate(op, hz) == [Bare(op) EXCEPT !.hz = hz]
PollSet(pace, groups) == [Bare("OBD_POLL_SET") EXCEPT !.arg = pace, !.groups = groups]
Stop       == PollSet(0, <<>>)
Begin(fmt, total) == [Bare("GNSS_AID_BEGIN") EXCEPT !.fmt = fmt, !.total = total]
Commit     == Bare("GNSS_AID_COMMIT")

-----------------------------------------------------------------------------
(* handle_control: availability, then parameters, then the request. *)

Known(d, k) == k \in DOMAIN d.table
Used(d)     == Cardinality(DOMAIN d.table)

\* An entry's order is its age; seen are the identifiers it has schedules for.
Entry(table, q) ==
    [mode |-> q.mode, arg |-> q.arg, seen |-> {},
     order |-> 1 + Max({0} \cup {table[k].order : k \in DOMAIN table})]
Placed(table, k, e) == [j \in DOMAIN table \cup {k} |-> IF j = k THEN e ELSE table[j]]
Installed(table, q) == Placed(table, q.key, Entry(table, q))
Updated(e, q) ==
    IF e.mode = q.mode /\ e.arg = q.arg THEN e
    ELSE [e EXCEPT !.mode = q.mode, !.arg = q.arg, !.seen = {}]
Without(table, k) == Restrict(table, DOMAIN table \ {k})

\* Mutant of FreeSlot: one entry too many.
FreeSlotPast(d) == Used(d) <= d.slots
FreeSlot(d) == Used(d) < d.slots

HandleSubscribe(d, q) ==
    IF q.mode = "unknown" THEN Answer(d, "bad_params")
    ELSE IF Known(d, q.key) THEN Answer([d EXCEPT !.table[q.key] = Updated(@, q)], "ok")
    ELSE IF ~FreeSlot(d) THEN Answer(d, "table_full")
    ELSE Answer([d EXCEPT !.table = Installed(@, q)], "ok")

HandleRate(d, q) ==
    LET role == Owner[q.op]
    IN  IF q.hz > d.ceiling[role] THEN Answer(d, "rate_exceeded")
        ELSE IF d.discrete /\ q.hz # d.rate[role] THEN Answer(d, "bad_params")
        ELSE Answer([d EXCEPT !.rate[role] = q.hz], "ok")

Handle(d, q) ==
    IF ~Owns(d, q.op) THEN Answer(d, "unsupported")
    ELSE IF q.malformed THEN Answer(d, "bad_params")
    ELSE CASE q.op = "CAN_RESET" -> Answer([d EXCEPT !.table = <<>>, !.poll = <<>>], "ok")
           [] Installs(q) -> HandleSubscribe(d, q)
           [] q.op = "CAN_UNSUBSCRIBE" ->
                Answer([d EXCEPT !.table = Without(@, q.key)],
                       IF Known(d, q.key) THEN "ok" ELSE "unknown_subscription")
           [] q.op \in {"GPS_SET_RATE", "IMU_SET_RATE"} -> HandleRate(d, q)
           [] q.op = "OBD_INFO" -> Answer(Probed(d), "ok")
           [] q.op = "OBD_POLL_SET" -> HandlePollSet(d, q)
           [] q.op = "GNSS_AID_BEGIN" -> HandleBegin(d, q)
           [] q.op = "GNSS_AID_COMMIT" -> HandleCommit(d)
           [] OTHER -> Answer(d, "ok")

-----------------------------------------------------------------------------
(* Which subscription governs a frame, and what it forwards in a window *)

\* Bit 29 is part of the identity, unless the device is blind to it.
Format(d, name) == IF Has(d, "format_bit_ignored") /\ name = "bus_other" THEN "bus" ELSE name
Matches(d, k, id) ==
    \/ k.mask = "none"
    \/ Format(d, k.id[1]) = id[1] /\ (k.mask = "exact" => k.id[2] = id[2])

\* _governing: the most specific, then the earliest, of those that match.
Before(d, k, j) ==
    LET a == Specificity[k.mask]
        b == Specificity[j.mask]
    IN  \/ IF Has(d, "overlap_wrong_governor") THEN a < b ELSE a > b
        \/ a = b /\ IF Has(d, "tie_break_latest") THEN d.table[k].order > d.table[j].order
                    ELSE d.table[k].order < d.table[j].order
Governors(d, id) ==
    LET M == {k \in DOMAIN d.table : Matches(d, k, id)}
    IN  {k \in M : \A j \in M \ {k} : Before(d, k, j)}

OnBus(d) == d.bus \cup Answering(d)

\* SPEC.md 6.8: the (subscription, identifier) pairs a device has schedules for, and those
\* a window calls for.  At its bound it gives up the pairs that no longer govern, and then
\* sheds what it has no room for: which pairs is its own choice, and here the later ones.
Scheduled(d) == UNION {{k} \X d.table[k].seen : k \in DOMAIN d.table}
Needed(d)    == {p \in (DOMAIN d.table) \X OnBus(d) :
                    d.table[p[1]].mode = "periodic" /\ p[1] \in Governors(d, p[2])}
Latest(fresh, n) == CHOOSE S \in SUBSET fresh :
    Cardinality(S) = n /\ \A p \in S, q \in fresh \ S : p[2][2] >= q[2][2]
Excess(needed, had, bound) ==
    LET over == Cardinality(needed \ had) - Max({0, bound - Cardinality(needed \cap had)})
    IN  IF over <= 0 THEN {} ELSE Latest(needed \ had, over)
Reclaimed(needed, had, bound) ==
    IF Cardinality(needed \cup had) <= bound THEN needed \cup had
    ELSE needed \ Excess(needed, had, bound)
Unroomed(d) == Excess(Needed(d), Scheduled(d), d.schedules)
Retained(d) == Reclaimed(Needed(d), Scheduled(d), d.schedules)

\* _admit over a window in which id is seen Many times: how many are forwarded.  One that
\* sheds for load loses a frame of what it forwards in numbers.
Many == 3
Plenty(d) == IF d.sheds THEN Many - 1 ELSE Many
Admitted(d, k, id) ==
    LET e == d.table[k]
    IN  IF e.mode = "every_frame" \/ Has(d, "periodic_ignored") THEN Plenty(d)
        ELSE IF <<k, id>> \in Unroomed(d) THEN 0
        ELSE IF e.arg = Rationed THEN Plenty(d)
        ELSE IF id \in e.seen \/ Has(d, "no_first_frame") THEN 0
        ELSE IF Has(d, "can_duplicate_across_batches") THEN Many ELSE 1

\* An answer of the car that no subscription governs still reaches a polling client.
Passed(d, keys, id) ==
    IF keys = {} THEN IF id \in Fallback(d) THEN Plenty(d) ELSE 0
    ELSE MapThenSumSet(LAMBDA k : Admitted(d, k, id), keys)
Forwarded(d, id) == IF id \notin OnBus(d) THEN 0 ELSE Passed(d, Governors(d, id), id)
Seeing(d, k) ==
    [d.table[k] EXCEPT !.seen = {id \in @ \cup OnBus(d) : <<k, id>> \in Retained(d)}]
Watched(d) == [d EXCEPT !.table = [k \in DOMAIN @ |-> Seeing(d, k)]]
Flowing(d) == {id \in OnBus(d) : Forwarded(d, id) > 0}

\* The shedding flag, and what the header's dropped then counts (SPEC.md 6.3).
Shedding(d) ==
    Unroomed(d) # {} \/ (d.sheds /\ \E id \in OnBus(d) : Forwarded(d, id) > 1)

\* poll: an identifier whose mode declined a frame of the window.
Declines(d) == \E id \in OnBus(d), k \in DOMAIN d.table :
                  k \in Governors(d, id) /\ d.table[k].mode = "periodic"
Counting(d) == Shedding(d) \/ (Has(d, "dropped_counts_declined") /\ Declines(d))

-----------------------------------------------------------------------------
(* _control_write: what a seeded defect does to a request, ... *)

\* What a defect answers itself, before the device reads the request; "" if nothing.
Preempted(d, q) ==
    LET known == Installs(q) /\ Known(d, q.key)
    IN  CASE Has(d, "table_full_early") /\ Installs(q) /\ ~known /\ Used(d) = d.slots - 1 ->
               "table_full"
          [] Has(d, "update_refused_when_full") /\ known /\ Used(d) >= d.slots -> "table_full"
          [] Has(d, "transmission_bits_in_identity") /\ q.op = "CAN_UNSUBSCRIBE"
             /\ ~q.malformed /\ q.decorated # (q.key \in d.decorated) ->
               "unknown_subscription"
          [] Has(d, "rate_admission") /\ Installs(q) /\ q.key.mask = "none" ->
               "rate_exceeded"
          [] Has(d, "att_error_when_pool_full") /\ q = Bare("TIME_SYNC") -> "att"
          [] OTHER -> ""

\* The request the device is handed instead.
Leniently(q) ==              \* _parse_leniently: a surplus byte is dropped
    [q EXCEPT !.malformed = FALSE, !.fmt = "other",
              !.key = IF q.op = "CAN_SUBSCRIBE" THEN @ ELSE [@ EXCEPT !.mask = "none"]]
Rewritten(d, q) ==
    CASE Has(d, "params_ignored") /\ q.malformed -> Leniently(q)
      [] Has(d, "identity_folds_on_mask")
         /\ (q.op = "CAN_UNSUBSCRIBE" \/ q.op = "CAN_SUBSCRIBE_MASK") ->
           [q EXCEPT !.key = Folded(@)]
      [] Has(d, "unknown_mode_defaults") /\ Installs(q) /\ q.mode = "unknown" ->
           [q EXCEPT !.mode = "every_frame"]
      [] Has(d, "reinstall_never_rearms") /\ Installs(q) /\ Known(d, q.key) ->
           [q EXCEPT !.mode = d.table[q.key].mode, !.arg = d.table[q.key].arg]
      [] q.op = "OBD_POLL_SET" /\ ~q.malformed -> PollRewritten(d, q)
      [] OTHER -> q

\* The device it is handed to.
Forgetting(d, k, new) == [d.table[k] EXCEPT !.seen = {id \in @ : ~Matches(d, new, id)}]
Prepared(d, q) ==
    LET known == Installs(q) /\ Known(d, q.key)
    IN  CASE Has(d, "duplicate_consumes_slot") /\ known ->
               [d EXCEPT !.table = Placed(Without(@, q.key), Tomb(@), @[q.key])]
          [] Has(d, "reinstall_rearms") /\ known -> [d EXCEPT !.table[q.key].seen = {}]
          [] Has(d, "schedule_keyed_by_identifier") /\ Installs(q) /\ ~known ->
               [d EXCEPT !.table = [k \in DOMAIN @ |-> Forgetting(d, k, q.key)]]
          [] Has(d, "duplicate_double_entry") /\ known -> [d EXCEPT !.doubled = @ \cup {q.key}]
          [] Has(d, "transmission_bits_in_identity") /\ Installs(q) ->
               [d EXCEPT !.decorated = IF q.decorated THEN @ \cup {q.key} ELSE @ \ {q.key}]
          [] Has(d, "obd_polls_before_probe") /\ q.op = "OBD_POLL_SET" /\ d.probe = "none" ->
               [d EXCEPT !.probe = "assumed"]
          [] OTHER -> d

\* ... and to its answer (_corrupt_response), or to what it left behind.
Unsupporting ==
    [timesync_unsupported |-> "TIME_SYNC", obd_probe_unsupported |-> "OBD_INFO",
     obd_status_unsupported |-> "OBD_STATUS", power_unsupported |-> "GET_POWER"]
Stopping(d, q) ==
    \/ Has(d, "obd_ignores_stop") /\ q.op = "OBD_POLL_SET" /\ q.groups = <<>>
    \/ Has(d, "obd_reset_keeps_polling") /\ q.op = "CAN_RESET"
\* A removal that found nothing, from a device that made two entries of one name or
\* answers `ok` to any.
RemovalCorrupted(d, q, a) ==
    IF Has(d, "unknown_subscription_ok") THEN [a EXCEPT !.status = "ok"]
    ELSE IF Has(d, "duplicate_double_entry") /\ q.key \in d.doubled
         THEN [a EXCEPT !.status = "ok", !.device.doubled = @ \ {q.key}]
    ELSE a

\* Availability is judged after the parameters.
Late(d, q) == Has(d, "opcode_capability_late") /\ q.op \in DOMAIN Owner /\ ~Owns(d, q.op)

Corrupted(d, q, a) ==
    CASE d.fault \in DOMAIN Unsupporting /\ q.op = Unsupporting[d.fault] ->
           [a EXCEPT !.status = "unsupported"]
      [] a.status = "ok" /\ Stopping(d, q) -> [a EXCEPT !.device.poll = d.poll]
      [] Has(d, "obd_reprobe_refused") /\ q.op = "OBD_INFO" /\ a.status = "ok"
         /\ d.probe # "none" -> [a EXCEPT !.status = "bad_params"]
      [] Has(d, "rate_ceiling_ignored") /\ a.status = "rate_exceeded" -> [a EXCEPT !.status = "ok"]
      [] Has(d, "unallocated_opcode_ok") /\ q.op = NoOpcode -> [a EXCEPT !.status = "ok"]
      [] Has(d, "no_tag_echo") -> [a EXCEPT !.status = "none"]
      [] Has(d, "detail_on_error") /\ a.status # "ok" -> [a EXCEPT !.detail = TRUE]
      [] a.status = "unknown_subscription" -> RemovalCorrupted(d, q, a)
      [] Late(d, q) -> [a EXCEPT !.status = "bad_params"]
      [] Has(d, "rate_not_applied") /\ a.status = "ok"
         /\ q.op \in {"GPS_SET_RATE", "IMU_SET_RATE"} -> [a EXCEPT !.device.rate = d.rate]
      [] OTHER -> a

\* One request to a device that owes nothing.  "none": no response carries the tag.
Served(ready, q, handed) == Corrupted(ready, q, Handle(ready, handed))
Unsent(d, q) == Has(d, "drops_a_response") /\ q = Bare("TIME_SYNC")
Met(d, q, before) ==
    IF before # "" THEN Answer(d, before)
    ELSE [Served(Prepared(d, q), q, Rewritten(d, q)) EXCEPT !.status = IF Unsent(d, q) THEN "none" ELSE @]
Idle(d, q) == Met(d, q, Preempted(d, q))

\* The same with owes_until_confirmed: a TIME_SYNC's answer stays owed after it was
\* delivered, and the first request that meets it is refused.
Exchange(d, q) ==
    IF d.late = "pending" THEN Answer([d EXCEPT !.late = "spent"], "busy")
    ELSE [Idle(d, q) EXCEPT !.device.late =
              IF d.late = "armed" /\ q = Bare("TIME_SYNC") THEN "pending" ELSE @]

\* A request that reaches the device while it owes a response.
WhileOwed(d, q) ==
    CASE Has(d, "pipelines_silently") -> [Handle(d, q) EXCEPT !.status = "none"]
      [] Has(d, "busy_but_applied") -> [Handle(d, q) EXCEPT !.status = "busy"]
      [] Has(d, "pipelined_answered_bad_params") -> Answer(d, "bad_params")
      [] OTHER -> Answer(d, "busy")
=============================================================================

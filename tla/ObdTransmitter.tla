---------------------------- MODULE ObdTransmitter ----------------------------
(***************************************************************************)
(* The OBD role of the reference device (reference/peripheral/             *)
(* vtp_device.py, SPEC.md 15): the response-paced poll loop of             *)
(* VtpDevice.poll, the probe, the poll set and what stops it, over a       *)
(* synthetic bus that may be asleep, awake and silent (gatewayed), or      *)
(* awake and talking.                                                      *)
(*                                                                         *)
(* Time is a counter in units of the probe's 50 ms window.  The device is  *)
(* polled at most once per unit and may be polled late.  One poll is four  *)
(* statement groups; with Concurrent a control write may run between them, *)
(* as it does on a transport with a callback thread, and without it writes *)
(* fall between polls, as the repository's selftest drives the device.     *)
(***************************************************************************)
EXTENDS Integers, Sequences, FiniteSets

CONSTANTS
    Ecus,            \* Ecus[e]: the PIDs ECU e implements (OBD_ECUS)
    PollSets,        \* what a client installs: interval_ms and a sequence of [group, min]
    Latencies,       \* obd_latency_us: how late an answer may be
    Timeout,         \* OBD_RESPONSE_TIMEOUT_US
    ReofferFirst, ReofferSecond, ReofferLater,    \* OBD_REOFFER_*_US
    Windows,         \* mask requests a probe of this car sends, at most 3
    Gateways,        \* whether the car may be one that broadcasts nothing when awake
    Concurrent,      \* control writes may run inside a poll
    MaxNow, MaxWrites, MaxSwitches, MaxLate       \* bounds of the model

ASSUME TimeoutAssumption == Timeout \in Nat \ {0}
ASSUME FloorAssumption   == {ReofferFirst, ReofferSecond, ReofferLater} \subseteq Nat
ASSUME WindowAssumption  == Windows \in 1..3
ASSUME CarAssumption     == Latencies \subseteq Nat \ {0}
ASSUME PidAssumption     == \A e \in DOMAIN Ecus : Ecus[e] \subseteq Nat \ {0}
ASSUME PollSetAssumption == \A p \in PollSets : /\ p.ms \in Nat /\ p.list # <<>>
                                              /\ p.list \in Seq([group : Seq(Nat), min : Nat])
ASSUME FlagAssumption    == Gateways \subseteq BOOLEAN /\ Concurrent \in BOOLEAN
ASSUME BoundAssumption   == {MaxNow, MaxWrites, MaxSwitches, MaxLate} \subseteq Nat

Never   == -1                       \* None, where the code keeps an instant
NoFrame == [slot |-> 0, group |-> <<>>, at |-> Never]

VARIABLES
    now, awake, gatewayed,          \* the clock, bus_awake(), and the kind of car
    obdPoll, interval, index,       \* _obd_poll, _obd_interval_ms, _obd_index
    pending,                        \* _obd_pending; slot 0: its entry was replaced
    since, outPids, echoed,         \* _obd_outstanding_since, _pids; _obd_answers > mark
    lastTx, lastRx, rx,             \* _obd_last_tx_us, _last_rx_us, _obd_rx
    suspendedAt, reoffers, nextReoffer,
    probed,                         \* _obd_masks and _obd_ecu_ids hold a result
    info,                           \* _obd_pending_info: when it is due
    pc, gap, tries, offer, hand,   \* one poll: position and local variables
    polledAt, writes, switches, late,       \* counted by the bounds
    wire, sent, adrift, waits, offers       \* history, for the properties

clockVars   == <<now, awake, gatewayed>>
setVars     == <<obdPoll, interval, index>>
wireVars    == <<since, outPids, echoed, lastTx, rx>>
suspendVars == <<suspendedAt, reoffers, nextReoffer>>
probeVars   == <<probed, info>>
localVars   == <<pc, gap, tries, offer, hand>>
countVars   == <<polledAt, writes, switches, late>>
histVars    == <<wire, sent, adrift, waits, offers>>
vars == <<clockVars, setVars, pending, lastRx, wireVars, suspendVars, probeVars,
          localVars, countVars, histVars>>

Groups     == UNION {{p.list[i].group : i \in 1..Len(p.list)} : p \in PollSets}
Pids(g)    == {g[i] : i \in 1..Len(g)}
Instants   == Int
Entries    == [group : Groups, min : Nat, last : Instants]
Frames     == [slot : Nat, group : Groups \cup {<<>>}, at : Instants]

TypeOK ==
    /\ now \in Nat /\ awake \in BOOLEAN /\ gatewayed \in BOOLEAN
    /\ obdPoll \in Seq(Entries) /\ interval \in Nat /\ index \in Nat
    /\ pending \in Frames /\ pending.slot \in 0..Len(obdPoll)
    /\ since \in Instants /\ lastTx \in Instants /\ lastRx \in Instants
    /\ echoed \in BOOLEAN
    /\ \A a \in rx : a.at \in Nat
    /\ suspendedAt \in Instants /\ reoffers \in 0..2 /\ nextReoffer \in Instants
    /\ probed \in BOOLEAN /\ info \in Instants
    /\ pc \in {"idle", "settle", "next", "hand", "dead"}

Init ==
    /\ now = 0 /\ awake \in BOOLEAN /\ gatewayed \in Gateways
    /\ obdPoll = <<>> /\ interval = 0 /\ index = 0
    /\ pending = NoFrame
    /\ since = Never /\ outPids = {} /\ echoed = FALSE
    /\ lastTx = Never /\ lastRx = Never /\ rx = {}
    /\ suspendedAt = Never /\ reoffers = 0 /\ nextReoffer = Never
    /\ probed = FALSE /\ info = Never
    /\ pc = "idle" /\ gap = 0 /\ tries = 0 /\ offer = FALSE
    /\ hand = NoFrame
    /\ polledAt = Never /\ writes = 0 /\ switches = 0 /\ late = 0
    /\ wire = [at |-> Never, until |-> 0, after |-> 0, strayed |-> FALSE, excused |-> FALSE]
    /\ sent = [g \in Groups |-> Never] /\ adrift = {} /\ waits = [g \in Groups |-> 0]
    /\ offers = <<>>

-----------------------------------------------------------------------------
(* The bus *)

Least(S)    == CHOOSE t \in S : \A u \in S : t <= u
Greatest(S) == CHOOSE t \in S : \A u \in S : u <= t

\* Which PIDs of group g ECU e answers, and the frame it answers with: it echoes the
\* first of them (a first frame, if the answers do not fit, does as well).
Answers(e, g) == {i \in 1..Len(g) : g[i] \in Ecus[e]}
Replies(g, lat) ==
    {[at |-> now + lat, ecu |-> e, echo |-> g[Least(Answers(e, g))], tx |-> now] :
       e \in {e \in DOMAIN Ecus : Answers(e, g) # {}}}

\* Mutant of Echoes: any frame of a reported ECU releases the loop.
EchoesAnything(a) == probed
Echoes(a) == probed /\ a.echo \in outPids

\* An earlier request's answer that echoes the outstanding one (history).
Strays(a) == probed /\ a.echo \in outPids /\ a.tx # since

\* Arrivals whose time has come are received; one that echoes the outstanding
\* request answers it.
Due == {a \in rx : a.at <= now}
Heard == Greatest({a.at : a \in Due} \cup {lastRx})
Deliver ==
    /\ echoed' = (echoed \/ \E a \in Due : Echoes(a))
    /\ wire' = [wire EXCEPT !.strayed =
                  @ \/ (since # Never /\ \E a \in Due : Strays(a))]

Resume == suspendedAt' = Never /\ reoffers' = 0 /\ nextReoffer' = Never /\ offers' = <<>>

\* The bus carries group g of schedule slot i: the stamps, and the answers.
Transmit(i, g, lat) ==
    /\ obdPoll' = IF i = 0 THEN obdPoll ELSE [obdPoll EXCEPT ![i].last = now]
    /\ lastTx' = now /\ since' = now
    /\ echoed' = FALSE /\ outPids' = Pids(g)
    /\ rx' = rx \cup Replies(g, lat)
    /\ pending' = NoFrame
    /\ Resume
    /\ wire' = [at |-> now, until |-> Least({now + Timeout} \cup {a.at : a \in Replies(g, lat)}),
                after |-> wire.until, strayed |-> FALSE, excused |-> wire.strayed]
    /\ sent' = [sent EXCEPT ![g] = now]
    /\ adrift' = IF i = 0 THEN adrift \cup {g} ELSE adrift \ {g}

-----------------------------------------------------------------------------
(* VtpDevice.poll *)

\* What the controller heard first, then the answers that arrived, then a
\* snapshot of the set.
PollBegin ==
    /\ pc = "idle" /\ polledAt < now
    /\ polledAt' = now
    /\ Deliver /\ rx' = rx \ Due
    /\ lastRx' = IF awake /\ ~gatewayed THEN now ELSE Heard
    /\ gap' = interval
    /\ pc' = IF obdPoll = <<>> THEN "idle" ELSE "settle"
    /\ UNCHANGED <<clockVars, setVars, pending, since, outPids, lastTx, suspendVars,
                   probeVars, tries, offer, hand, writes, switches, late,
                   sent, adrift, waits, offers>>

\* Mutant of Released: an unanswered request is never given up.
ReleasedByAnswer == echoed
Released == echoed \/ now - since >= Timeout

\* A frame on a sleeping bus pends until it is unacknowledged.
Unacknowledged ==
    /\ pending # NoFrame /\ now - pending.at >= Timeout
    /\ lastRx = Never \/ now - lastRx >= Timeout

\* Mutant of Suspends: a re-offer that fails begins the suspension again.
SuspendsAlways == Unacknowledged
Suspends == Unacknowledged /\ suspendedAt = Never

WakesUp(from) == from # Never /\ lastRx > from

\* The outstanding request is answered or abandoned; a pending one is carried,
\* or ended untransmitted; a frame received since it began ends a suspension.
PollSettle ==
    /\ pc = "settle" /\ pc' = "next" /\ tries' = Never
    /\ \/ /\ pending # NoFrame /\ awake
          /\ \E lat \in Latencies : Transmit(pending.slot, pending.group, lat)
       \/ /\ pending = NoFrame \/ ~awake
          /\ since' = IF since # Never /\ Released THEN Never ELSE since
          /\ pending' = IF Unacknowledged THEN NoFrame ELSE pending
          /\ \/ WakesUp(IF Suspends THEN now ELSE suspendedAt) /\ Resume
             \/ /\ ~WakesUp(IF Suspends THEN now ELSE suspendedAt) /\ Suspends
                /\ suspendedAt' = now /\ reoffers' = 0 /\ nextReoffer' = now + ReofferFirst
                /\ offers' = IF offers = <<>> THEN <<now>> ELSE offers
             \/ /\ ~WakesUp(IF Suspends THEN now ELSE suspendedAt) /\ ~Suspends
                /\ UNCHANGED <<suspendVars, offers>>
          /\ UNCHANGED <<obdPoll, lastTx, echoed, outPids, rx, wire, sent, adrift>>
    /\ UNCHANGED <<clockVars, interval, index, lastRx, probeVars, gap, offer, hand,
                   countVars, waits>>

Spaced == lastTx = Never \/ now - lastTx >= gap
Quiet  == since = Never /\ pending = NoFrame
MayOffer == Quiet /\ Spaced /\ (suspendedAt = Never \/ now >= nextReoffer)

\* A group is due its minimum interval after its own last transmission.
DueEntry(e) == e.min = 0 \/ e.last = Never \/ now - e.last >= e.min

\* _obd_next_group: at most one round of the schedule from the cursor.  The set
\* is read afresh at every entry, and a write may have emptied it meanwhile.
PollNext ==
    /\ pc = "next"
    /\ \/ /\ tries = Never /\ MayOffer
          /\ tries' = Len(obdPoll) /\ offer' = (suspendedAt # Never)
          /\ UNCHANGED <<pc, index, hand>>
       \/ /\ tries = 0 \/ (tries = Never /\ ~MayOffer)
          /\ pc' = "idle" /\ tries' = 0
          /\ UNCHANGED <<index, offer, hand>>
       \/ /\ tries > 0 /\ obdPoll = <<>>
          /\ pc' = "dead" /\ UNCHANGED <<tries, index, offer, hand>>
       \/ /\ tries > 0 /\ obdPoll # <<>>
          /\ index' = index + 1
          /\ LET i == 1 + (index % Len(obdPoll)) IN
               IF DueEntry(obdPoll[i])
                 THEN /\ hand' = [slot |-> i, group |-> obdPoll[i].group, at |-> now]
                      /\ pc' = "hand" /\ tries' = 0
                 ELSE tries' = tries - 1 /\ UNCHANGED <<pc, hand>>
          /\ UNCHANGED offer
    /\ UNCHANGED <<clockVars, obdPoll, interval, pending, lastRx, wireVars, suspendVars,
                   probeVars, gap, countVars, histVars>>

\* The request is handed to the controller: carried at once, or pending.
PollHand ==
    /\ pc = "hand" /\ pc' = "idle"
    /\ hand' = NoFrame /\ offer' = FALSE
    /\ waits' = [g \in Groups |-> IF g = hand.group THEN 0 ELSE waits[g] + 1]
    /\ \E lat \in Latencies :
         IF awake THEN Transmit(hand.slot, hand.group, lat)
         ELSE /\ pending' = hand
              /\ reoffers' = IF offer THEN (IF reoffers = 2 THEN 2 ELSE reoffers + 1) ELSE reoffers
              /\ nextReoffer' = IF ~offer THEN nextReoffer
                                ELSE now + IF reoffers = 0 THEN ReofferSecond ELSE ReofferLater
              /\ offers' = IF offer THEN Append(offers, now) ELSE offers
              /\ UNCHANGED <<suspendedAt, obdPoll, wireVars, wire, sent, adrift>>
    /\ UNCHANGED <<clockVars, interval, index, lastRx, probeVars, gap, tries, countVars>>

Poll == PollBegin \/ PollSettle \/ PollNext \/ PollHand

-----------------------------------------------------------------------------
(* Control writes and link edges *)

\* A request is applied between polls, or inside one; never while the answer
\* to an OBD_INFO is awaited, when the transport answers busy.
Writes ==
    /\ pc # "dead" /\ (pc = "idle" \/ Concurrent)
    /\ info = Never /\ writes < MaxWrites
    /\ writes' = writes + 1

\* Mutant of Withdrawn: the controller keeps the frame of the set that stopped.
WithdrawnNot == pending
Withdrawn == NoFrame

\* _obd_stop: the set, its suspension and its pending frame go; the outstanding
\* request and the last transmission are facts about the bus, and stay.
Stop ==
    /\ obdPoll' = <<>> /\ interval' = 0 /\ index' = 0
    /\ pending' = Withdrawn
    /\ hand' = [hand EXCEPT !.slot = 0]
    /\ Resume
    /\ sent' = [g \in Groups |-> Never] /\ adrift' = {} /\ waits' = [g \in Groups |-> 0]

\* The empty poll set flushes what had arrived under the set first.
WriteStop ==
    /\ Writes /\ Stop
    /\ Deliver /\ rx' = rx \ Due /\ lastRx' = Heard
    /\ UNCHANGED <<clockVars, since, outPids, lastTx, probeVars, pc, gap, tries, offer,
                   polledAt, switches, late>>

WriteReset ==
    /\ Writes /\ Stop
    /\ rx' = {}
    /\ UNCHANGED <<clockVars, since, outPids, echoed, lastTx, lastRx, probeVars, wire,
                   pc, gap, tries, offer, polledAt, switches, late>>

\* The n-th occurrence of a group keeps the last transmission of the n-th.
Occurrence(list, i) == Cardinality({j \in 1..i : list[j].group = list[i].group})
Matching(s, i) == {j \in 1..Len(obdPoll) : /\ obdPoll[j].group = s[i].group
                                           /\ Occurrence(obdPoll, j) = Occurrence(s, i)}

\* Mutant of Carried: a replacement starts the minimum intervals afresh.
CarriedNothing(s) == [i \in 1..Len(s) |-> [group |-> s[i].group, min |-> s[i].min, last |-> Never]]
Carried(s) ==
    [i \in 1..Len(s) |->
       [group |-> s[i].group, min |-> s[i].min,
        last |-> Greatest({Never} \cup {obdPoll[j].last : j \in Matching(s, i)})]]

\* Mutant of CursorKept: a replacement starts at the head of the schedule.
CursorReset == 0
CursorKept == index

Layout(list) == [i \in 1..Len(list) |-> [group |-> list[i].group, min |-> list[i].min]]
Once(list, g) == Cardinality({i \in 1..Len(list) : list[i].group = g}) = 1

\* OBD_POLL_SET with a schedule the probe declared pollable.
WritePollSet(s, ms) ==
    /\ Writes /\ probed
    /\ obdPoll' = Carried(s) /\ interval' = ms /\ index' = CursorKept
    /\ Resume
    /\ pending' = [pending EXCEPT !.slot = 0] /\ hand' = [hand EXCEPT !.slot = 0]
    /\ sent' = [g \in Groups |-> IF Once(s, g) /\ Once(obdPoll, g) THEN sent[g] ELSE Never]
    /\ adrift' = IF pending = NoFrame THEN adrift ELSE adrift \cup {pending.group}
    /\ waits' = IF Layout(obdPoll) = s THEN waits ELSE [g \in Groups |-> 0]
    /\ UNCHANGED <<clockVars, lastRx, wireVars, probeVars, pc, gap, tries, offer, wire,
                   polledAt, switches, late>>

\* When the outstanding request is answered or abandoned: this bus has the
\* answer scheduled already.
Coming == {a \in rx : since # Never /\ a.at >= since /\ Echoes(a)}
Resolved == IF since = Never THEN now ELSE Least({since + Timeout} \cup {a.at : a \in Coming})

\* The probe's first request waits for the outstanding one and for its window.
ProbeStart == Greatest({now, Resolved, IF lastTx = Never THEN now ELSE lastTx + 1})

Asked == IF DOMAIN Ecus = {} THEN 1 ELSE Windows

\* Mutant of ProbeDone: the answer is due after the first window.
ProbeDoneFirst(t) == t + 1
ProbeDone(t) == t + Asked

\* OBD_INFO: the set stops, the mask requests take their places on the bus, one
\* window apart, and the answer waits for the last of the windows.
WriteInfo ==
    /\ Writes /\ Stop
    /\ lastRx' = Heard
    /\ IF awake
         THEN /\ rx' = (rx \ Due) \cup
                        {[at |-> ProbeStart + k, ecu |-> e, echo |-> 0, tx |-> ProbeStart] :
                           k \in 0..(Asked - 1), e \in DOMAIN Ecus}
              /\ lastTx' = ProbeStart + Asked - 1
              /\ info' = ProbeDone(ProbeStart)
              /\ probed' = (DOMAIN Ecus # {})
              /\ wire' = [at |-> ProbeStart, until |-> ProbeStart + Asked,
                          after |-> wire.until, strayed |-> FALSE,
                          excused |-> wire.strayed \/ \E a \in Coming : Strays(a)]
              /\ echoed' = (echoed \/ \E a \in Due : Echoes(a))
         ELSE /\ info' = ProbeStart + Timeout
              /\ probed' = FALSE
              /\ Deliver /\ rx' = rx \ Due
              /\ UNCHANGED lastTx
    /\ UNCHANGED <<clockVars, since, outPids, pc, gap, tries, offer,
                   polledAt, switches, late>>

\* due_control_response: the answer leaves once.
InfoDue ==
    /\ pc = "idle" /\ info # Never /\ now >= info
    /\ info' = Never
    /\ UNCHANGED <<clockVars, setVars, pending, lastRx, wireVars, suspendVars, probed,
                   localVars, countVars, histVars>>

\* on_connect and on_disconnect: _obd_clear.
LinkEdge ==
    /\ pc = "idle" /\ writes < MaxWrites /\ writes' = writes + 1
    /\ Stop
    /\ rx' = {} /\ lastRx' = Never /\ probed' = FALSE /\ info' = Never
    /\ UNCHANGED <<clockVars, since, outPids, echoed, lastTx, wire, pc, gap, tries,
                   offer, polledAt, switches, late>>

-----------------------------------------------------------------------------
(* Time and the car *)

\* A unit passes; the device was polled in it, or is late.
Advance ==
    /\ pc = "idle" /\ now < MaxNow
    /\ polledAt = now \/ late < MaxLate
    /\ now' = now + 1
    /\ late' = IF polledAt = now THEN late ELSE late + 1
    /\ UNCHANGED <<awake, gatewayed, setVars, pending, lastRx, wireVars, suspendVars, probeVars, localVars,
                   polledAt, writes, switches, histVars>>

Ignition ==
    /\ pc = "idle" /\ switches < MaxSwitches
    /\ awake' = ~awake /\ switches' = switches + 1
    /\ UNCHANGED <<now, gatewayed, setVars, pending, lastRx, wireVars, suspendVars, probeVars, localVars,
                   polledAt, writes, late, histVars>>

Control ==
    \/ WriteStop \/ WriteReset \/ WriteInfo
    \/ \E p \in PollSets : WritePollSet(p.list, p.ms)

\* The bounded clock ends; a loop that died before that is a deadlock.
Horizon == now = MaxNow /\ pc = "idle" /\ UNCHANGED vars

Next == Poll \/ Control \/ InfoDue \/ LinkEdge \/ Advance \/ Ignition \/ Horizon

Spec == Init /\ [][Next]_vars
-----------------------------------------------------------------------------
(* What the role promises *)

\* One request on the bus: a request, the probe's first included, goes out only
\* once the one before it was answered by the car or is Timeout old, across
\* stops, replacements, suspensions, resets and link edges.  The one exception
\* is SPEC.md 15.4's: a straggler that echoes a PID the next request asks again.
OneOnTheBus == wire.at >= wire.after \/ wire.excused \/ wire.at = Never

Sends(g) == pc \in {"settle", "hand"} /\ sent'[g] # sent[g]
MinOf(g) == (CHOOSE i \in 1..Len(obdPoll) : obdPoll[i].group = g)

\* A group with a minimum interval is not transmitted sooner than that after it
\* was last, however often the set is replaced with one that names it again
\* (OBD_POLL_SET: "neither is the CURSOR or the per-group timers").
MinIntervalKept ==
    [][\A g \in Groups : Sends(g) /\ Once(obdPoll, g) /\ sent[g] # Never =>
          now - sent[g] >= obdPoll[MinOf(g)].min]_vars

\* The same, of groups that no frame pending over a replacement asked for.
MinIntervalKeptInSet ==
    [][\A g \in Groups : Sends(g) /\ Once(obdPoll, g) /\ sent[g] # Never /\ g \notin adrift =>
          now - sent[g] >= obdPoll[MinOf(g)].min]_vars

\* A poll leaves the transmitter idle only with a reason: a request young enough
\* to wait for, the client's spacing, a suspension, or no group due.
NoMissedTurn ==
    [][pc # "idle" /\ pc' = "idle" =>
          \/ lastTx' = now \/ pending' # NoFrame
          \/ since' # Never /\ now - since' < Timeout
          \/ lastTx # Never /\ now - lastTx < gap
          \/ suspendedAt' # Never
          \/ \A i \in 1..Len(obdPoll) : ~DueEntry(obdPoll[i])]_vars

\* A group without a minimum has its turn in every round of the schedule, even by
\* a client that installs the same set faster than it cycles.
NoGroupStarved ==
    \A i \in 1..Len(obdPoll) : obdPoll[i].min = 0 => waits[obdPoll[i].group] < Len(obdPoll)

\* A silent bus is tried again no sooner than the floors allow, counted from the
\* beginning of the suspension and from each try (SPEC.md 15.1.1).
ReofferFloors ==
    \A i \in 2..Len(offers) :
        offers[i] - offers[i - 1] >=
            IF i = 2 THEN ReofferFirst ELSE IF i = 3 THEN ReofferSecond ELSE ReofferLater

\* The answer to OBD_INFO leaves when the probe is over: no request of it and no
\* mask response is still ahead of the clock.
InfoWhenComplete ==
    [][pc = "idle" /\ info # Never /\ info' = Never /\ probed' =>
          now > lastTx /\ \A a \in rx : a.echo = 0 => a.at <= now]_vars

\* The poll loop outlives a control write in the middle of a poll (poll(): "Snapshot,
\* because control writes run outside this loop on a real transport").
LoopSurvives == pc # "dead"

\* What suspends a poll set is a request for a group it names, and not a frame left
\* pending by the set before it (OBD_POLL_SET: the loop offers a request under the new
\* set, and "that one pends, is unacknowledged, and suspends the set afresh").
SuspendedOnOwnRequest ==
    [][suspendedAt = Never /\ suspendedAt' # Never =>
          \E i \in 1..Len(obdPoll) : obdPoll[i].group = pending.group]_vars
=============================================================================

------------------------------ MODULE CanTable ------------------------------
(***************************************************************************)
(* The CAN subscription table of the reference device and the admission of *)
(* bus frames through it (reference/peripheral/vtp_device.py, SPEC.md 6.8  *)
(* and 9.1-9.2): keys, slots, installation order, the per-identifier mode  *)
(* state each subscription keeps, the bus generator's own rationing, and   *)
(* the OBD fallback.  What becomes of an admitted frame is DeviceStreams'. *)
(*                                                                         *)
(* An identifier and a mask are the sets of their bits that are one.       *)
(***************************************************************************)
EXTENDS Integers, Sequences, FiniteSets, SequencesExt

CONSTANTS
    MatchBits,       \* CAN_MATCH_BITS
    BusIds, ObdIds,  \* identifiers broadcast, and of the ECUs a probe reported
    Every,           \* a broadcast identifier's interval on the bus
    Named,           \* the [id, mask] pairs requests carry
    Rules,           \* the [mode, arg] pairs requests carry
    Slots,           \* CAN_SUBSCRIPTION_SLOTS
    MaxTime, MaxQueue, MaxInstalls     \* bounds of the model

Ids == BusIds \cup ObdIds

ASSUME TableBounds == {Slots, MaxTime, MaxQueue, MaxInstalls} \subseteq Nat
ASSUME BusAssumption == /\ Every \in [BusIds -> Nat \ {0}] /\ BusIds \cap ObdIds = {}
                        /\ IsFiniteSet(BusIds) /\ IsFiniteSet(MatchBits)
ASSUME RuleAssumption == Rules \subseteq [mode : {"every_frame", "periodic"}, arg : Nat]

VARIABLES
    now,
    subscriptions,   \* VtpDevice._subscriptions: [key -> [mode, arg, order, per_id]]
    install_counter, \* _install_counter
    obd_poll,        \* _obd_poll is non-empty
    obd_rx,          \* identifiers of _obd_rx's frames that have arrived
    out              \* the frames the last poll or stop forwarded: [id, by] (history)

vars == <<now, subscriptions, install_counter, obd_poll, obd_rx, out>>

Identity(p) == [id |-> p.id \cap MatchBits, mask |-> p.mask \cap MatchBits]
Keys == {Identity(p) : p \in Named}
Fresh == [i \in Ids |-> [last |-> 0, seen |-> FALSE, emitted_at |-> 0]]
Installed == DOMAIN subscriptions

\* The table keeps to its slots and its keys to their identities, order numbers are of
\* entries installed, and no per-identifier time is ahead of the clock.
TypeOK ==
    /\ now \in 0..MaxTime
    /\ Installed \subseteq Keys /\ Cardinality(Installed) <= Slots
    /\ \A k \in Installed :
           /\ [mode |-> subscriptions[k].mode, arg |-> subscriptions[k].arg] \in Rules
           /\ subscriptions[k].order \in 1..install_counter
           /\ subscriptions[k].per_id \in
                  [Ids -> [last : 0..now, seen : BOOLEAN, emitted_at : 0..now]]
    /\ install_counter \in 0..MaxInstalls
    /\ obd_poll \in BOOLEAN /\ obd_rx \in Seq(ObdIds)
    /\ \A f \in out : f.id \in Ids

Init ==
    /\ now = 0 /\ subscriptions = <<>> /\ install_counter = 0
    /\ obd_poll = FALSE /\ obd_rx = <<>> /\ out = {}

-----------------------------------------------------------------------------
(* Control requests *)

Rearmed(sub, r) ==
    IF r = [mode |-> sub.mode, arg |-> sub.arg] THEN sub.per_id
    ELSE [i \in Ids |-> [last |-> sub.per_id[i].last, seen |-> FALSE, emitted_at |-> 0]]

Updated(sub, r) == [mode |-> r.mode, arg |-> r.arg, order |-> sub.order,
                    per_id |-> Rearmed(sub, r)]

\* Mutant of FreeSlot: one entry too many.
FreeSlotPast == Cardinality(Installed) <= Slots
FreeSlot == Cardinality(Installed) < Slots

\* CAN_SUBSCRIBE and CAN_SUBSCRIBE_MASK: the existing entry is looked for before
\* the free slot.  The mode was parsed: a mode above SUB_PERIODIC is bad_params.
Subscribe(p, r) ==
    LET k == Identity(p)
    IN  /\ \/ /\ k \in Installed
              /\ subscriptions' = [subscriptions EXCEPT ![k] = Updated(@, r)]
              /\ UNCHANGED install_counter
           \/ /\ k \notin Installed /\ FreeSlot
              /\ install_counter < MaxInstalls
              /\ install_counter' = install_counter + 1
              /\ subscriptions' = [j \in Installed \cup {k} |-> IF j \in Installed
                     THEN subscriptions[j]
                     ELSE [mode |-> r.mode, arg |-> r.arg,
                           order |-> install_counter', per_id |-> Fresh]]
           \/ /\ k \notin Installed /\ ~FreeSlot   \* table_full
              /\ UNCHANGED <<subscriptions, install_counter>>
        /\ out' = {} /\ UNCHANGED <<now, obd_poll, obd_rx>>

Unsubscribe(p) ==
    /\ subscriptions' = [j \in Installed \ {Identity(p)} |-> subscriptions[j]]
    /\ out' = {} /\ UNCHANGED <<now, install_counter, obd_poll, obd_rx>>

\* CAN_RESET and both link edges: the table, the poll set and what its requests
\* put on the bus.
Reset ==
    /\ subscriptions' = <<>> /\ obd_poll' = FALSE /\ obd_rx' = <<>>
    /\ out' = {} /\ UNCHANGED <<now, install_counter>>

\* An accepted OBD_POLL_SET, installing or replacing.
PollSet ==
    /\ obd_poll' = TRUE
    /\ out' = {} /\ UNCHANGED <<now, subscriptions, install_counter, obd_rx>>

-----------------------------------------------------------------------------
(* Admission *)

Matches(k, i) == i \cap k.mask = k.id \cap k.mask
Specific(k)   == Cardinality(k.mask)

Before(tbl, k, j) ==
    \/ Specific(k) > Specific(j)
    \/ Specific(k) = Specific(j) /\ tbl[k].order <= tbl[j].order

Matching(tbl, i)  == {k \in DOMAIN tbl : Matches(k, i)}
Governing(tbl, i) == CHOOSE k \in Matching(tbl, i) :
                         \A j \in Matching(tbl, i) : Before(tbl, k, j)

Emits(sub, i) ==
    LET st == sub.per_id[i]
    IN  sub.mode = "periodic" /\ sub.arg # 0 /\ st.seen => now - st.emitted_at >= sub.arg

\* One frame of identifier i that subscription k governs, through _admit.
Admit(w, k, i) ==
    LET st   == w.table[k].per_id[i]
        emit == Emits(w.table[k], i)
    IN  [table |-> [w.table EXCEPT ![k].per_id[i] =
                        [last |-> st.last, seen |-> TRUE,
                         emitted_at |-> IF emit THEN now ELSE st.emitted_at]],
         out   |-> IF emit THEN w.out \cup {[id |-> i, by |-> k]} ELSE w.out]

Fallback == [id |-> {}, mask |-> {"nobody"}]

ObdFrame(w, i) ==
    IF Matching(w.table, i) # {} THEN Admit(w, Governing(w.table, i), i)
    ELSE IF obd_poll THEN [w EXCEPT !.out = @ \cup {[id |-> i, by |-> Fallback]}]
    ELSE w

\* A broadcast frame is on the bus when its interval has passed since the last one
\* this subscription saw: the generator's rationing, beside the rule's.
BusFrame(w, i) ==
    IF Matching(w.table, i) = {} THEN w
    ELSE LET k == Governing(w.table, i)
         IN  IF now - w.table[k].per_id[i].last < Every[i] THEN w
             ELSE Admit([w EXCEPT !.table[k].per_id[i].last = now], k, i)

\* The ECUs' frames that have arrived, then the broadcast ones.
OnTheBus(awake) == obd_rx \o (IF awake THEN SetToSeq(BusIds) ELSE <<>>)

\* Each frame in turn, before the table the one before it left.
Admitted(frames) ==
    LET after[n \in 0..Len(frames)] ==
            IF n = 0 THEN [table |-> subscriptions, out |-> {}]
            ELSE IF frames[n] \in ObdIds THEN ObdFrame(after[n - 1], frames[n])
            ELSE BusFrame(after[n - 1], frames[n])
    IN  after[Len(frames)]

TakeIn(frames) ==
    /\ subscriptions' = Admitted(frames).table /\ out' = Admitted(frames).out
    /\ obd_rx' = <<>> /\ UNCHANGED <<now, install_counter>>

Poll(awake) == TakeIn(OnTheBus(awake)) /\ UNCHANGED obd_poll

\* Mutant of PollStop: what has arrived is thrown away with the poll set.
PollStopForgets ==
    /\ obd_poll' = FALSE /\ obd_rx' = <<>>
    /\ out' = {} /\ UNCHANGED <<now, subscriptions, install_counter>>

\* _obd_stop(flush=True), of an empty OBD_POLL_SET and of OBD_INFO's probe: the ECUs'
\* frames that have arrived are admitted while the set still stands, then it is cleared.
PollStop == TakeIn(obd_rx) /\ obd_poll' = FALSE

\* The car: an ECU's frame arrives (answers of another tester included).
Respond(i) ==
    /\ Len(obd_rx) < MaxQueue /\ obd_rx' = Append(obd_rx, i)
    /\ UNCHANGED <<now, subscriptions, install_counter, obd_poll, out>>

Tick ==
    /\ now < MaxTime /\ now' = now + 1
    /\ out' = {} /\ UNCHANGED <<subscriptions, install_counter, obd_poll, obd_rx>>

Next ==
    \/ \E p \in Named : Unsubscribe(p) \/ \E r \in Rules : Subscribe(p, r)
    \/ Reset \/ PollSet \/ PollStop \/ Tick
    \/ \E awake \in BOOLEAN : Poll(awake)
    \/ \E i \in ObdIds : Respond(i)

Spec == Init /\ [][Next]_vars

-----------------------------------------------------------------------------
(* Properties *)

\* What the client installed, as the table keeps it.
RuleOf == [k \in Installed |-> [mode |-> subscriptions[k].mode, arg |-> subscriptions[k].arg]]
EarlierOf ==
    {e \in Installed \X Installed : subscriptions[e[1]].order < subscriptions[e[2]].order}
GrantedOf ==
    [k \in Keys |-> [i \in Ids |->
        IF k \in Installed /\ subscriptions[k].per_id[i].seen
          THEN subscriptions[k].per_id[i].emitted_at ELSE -1]]
ShownOf ==
    [k \in Keys |-> [i \in BusIds |->
        IF k \in Installed THEN subscriptions[k].per_id[i].last ELSE 0]]

Gate == INSTANCE CanGate WITH
    EcuIds <- ObdIds, rule <- RuleOf, earlier <- EarlierOf, granted <- GrantedOf,
    clock <- now, polling <- obd_poll, arrived <- ToSet(obd_rx), shown <- ShownOf

\* The table and the admission in vtp_device.py forward every frame SPEC.md 6.8, 9.2 and
\* 15.7 owe and no other, whatever is installed, updated, displaced or removed, at a poll
\* and when the poll set is stopped.
GatePromise == Gate!GateSpec
=============================================================================

------------------------------- MODULE CanGate -------------------------------
(***************************************************************************)
(* What SPEC.md 6.8, 9.1, 9.2 and 15.7 promise a client of the CAN role:   *)
(* the subscriptions it installed, and which of them it installed earlier, *)
(* decide by themselves which of the frames that have come is forwarded,   *)
(* and every frame they owe is.  Requirements only: no slots' bookkeeping, *)
(* no order numbers, no per-identifier records, no order of arrival.       *)
(***************************************************************************)
EXTENDS Integers, FiniteSets

CONSTANTS
    Keys, Rules,     \* what a client may install
    BusIds, Every,   \* the car's broadcast identifiers and their intervals
    EcuIds           \* identifiers of the ECUs' answers

VARIABLES
    rule,            \* what the client installed: [key -> rule]
    earlier,         \* <<k, j>>: the client installed k before j
    granted,         \* [Keys -> [Ids -> Time]]: the last frame under each rule
    clock,           \* the device clock
    polling,         \* the OBD poll set is non-empty
    arrived,         \* ECU frames that have come and not been judged yet
    shown,           \* [Keys -> [BusIds -> Time]]: the last broadcast frame put to each rule
    out              \* what the frames of the last step became: [id, by]

gateVars == <<rule, earlier, granted, clock, polling, arrived, shown, out>>

Ids == BusIds \cup EcuIds
Never  == -1
Nobody == [id |-> {}, mask |-> {"nobody"}]
Unruled == [i \in Ids |-> Never]
Unshown == [i \in BusIds |-> 0]

Covers(k, i) == i \cap k.mask = k.id \cap k.mask
Covering(i)  == {k \in DOMAIN rule : Covers(k, i)}
Bits(k)      == Cardinality(k.mask)

\* The most specific match, and the earliest of equals.
Governs(k, i) ==
    \A j \in Covering(i) \ {k} : Bits(k) > Bits(j) \/ (Bits(k) = Bits(j) /\ <<k, j>> \in earlier)
Governor(i) == CHOOSE k \in Covering(i) : Governs(k, i)

Owed(k, i) ==
    \/ rule[k].mode = "every_frame"
    \/ granted[k][i] = Never
    \/ clock - granted[k][i] >= rule[k].arg

GateInit ==
    /\ rule = <<>> /\ earlier = {} /\ granted = [k \in Keys |-> Unruled]
    /\ clock = 0 /\ polling = FALSE /\ out = {}
    /\ arrived = {} /\ shown = [k \in Keys |-> Unshown]

\* A new pair joins after all others; the same pair is updated where it stands, and
\* only another rule owes a first frame again.
Install(k, r) ==
    /\ rule' = [j \in DOMAIN rule \cup {k} |-> IF j = k THEN r ELSE rule[j]]
    /\ earlier' = IF k \in DOMAIN rule THEN earlier
                  ELSE earlier \cup {<<j, k>> : j \in DOMAIN rule}
    /\ granted' = IF k \in DOMAIN rule /\ rule[k] = r THEN granted
                  ELSE [granted EXCEPT ![k] = Unruled]
    /\ out' = {} /\ UNCHANGED <<clock, polling, arrived, shown>>

Remove(k) ==
    /\ rule' = [j \in DOMAIN rule \ {k} |-> rule[j]]
    /\ earlier' = {e \in earlier : e[1] # k /\ e[2] # k}
    /\ granted' = [granted EXCEPT ![k] = Unruled]
    /\ shown' = [shown EXCEPT ![k] = Unshown]
    /\ out' = {} /\ UNCHANGED <<clock, polling, arrived>>

\* The link is over, or CAN_RESET: what had come for it goes too.
Clear ==
    /\ rule' = <<>> /\ earlier' = {} /\ granted' = [k \in Keys |-> Unruled]
    /\ polling' = FALSE /\ arrived' = {} /\ shown' = [k \in Keys |-> Unshown]
    /\ out' = {} /\ UNCHANGED clock

PollSet == polling' = TRUE /\ out' = {}
           /\ UNCHANGED <<rule, earlier, granted, clock, arrived, shown>>

Elapse == clock' >= clock /\ out' = {}
          /\ UNCHANGED <<rule, earlier, granted, polling, arrived, shown>>

\* An ECU's frame comes.
Arrive(i) == arrived' = arrived \cup {i}
             /\ UNCHANGED <<rule, earlier, granted, clock, polling, shown, out>>

\* On the bus now: what has come from the ECUs, and of an awake car every broadcast whose
\* interval has passed since its governor was last shown it.
OnBus(awake) == arrived \cup
    {i \in BusIds : awake /\ Covering(i) # {} /\ clock - shown[Governor(i)][i] >= Every[i]}

\* Each of the frames S goes out, at most once, if its governor's rule owes it, or by
\* SPEC.md 15.5's fallback when nothing matches it; no other does.
Forward(S) ==
    LET passed == {i \in S : Covering(i) # {} /\ Owed(Governor(i), i)}
    IN  /\ out' = {[id |-> i, by |-> Governor(i)] : i \in passed}
                  \cup {[id |-> i, by |-> Nobody] :
                           i \in {j \in S \cap EcuIds : polling /\ Covering(j) = {}}}
        /\ granted' = [k \in Keys |-> [i \in Ids |->
               IF i \in passed /\ Governor(i) = k THEN clock ELSE granted[k][i]]]
        /\ shown' = [k \in Keys |-> [i \in BusIds |->
               IF i \in S /\ Governor(i) = k THEN clock ELSE shown[k][i]]]
        /\ arrived' = {} /\ UNCHANGED <<rule, earlier, clock>>

\* The device looks at the bus.
Frames(awake) == Forward(OnBus(awake)) /\ UNCHANGED polling

\* The poll set goes: what has come for it is judged while it still stands (SPEC.md 15.7).
PollStop == Forward(arrived) /\ polling' = FALSE

GateNext ==
    \/ \E k \in Keys : Remove(k) \/ \E r \in Rules : Install(k, r)
    \/ Clear \/ Elapse \/ PollSet \/ PollStop
    \/ \E i \in EcuIds : Arrive(i)
    \/ \E awake \in BOOLEAN : Frames(awake)

GateSpec == GateInit /\ [][GateNext]_gateVars
=============================================================================

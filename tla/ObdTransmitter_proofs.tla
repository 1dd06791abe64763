------------------------ MODULE ObdTransmitter_proofs ------------------------
(***************************************************************************)
(* Proofs about the OBD role of ObdTransmitter, for every car, poll set,   *)
(* latency, timeout and floor its assumptions admit.                       *)
(*                                                                         *)
(* TypeInv says where every instant lies.  FloorInv ties the deadline of   *)
(* the next try of a silent bus to the tries made.  PaceInv says how the   *)
(* loop stands to the clock when control writes fall between polls, and    *)
(* WireInv, on top of it, that a loop which does not wait faces a free     *)
(* bus, which is OneOnTheBus at the next request.  The second half is the  *)
(* schedule: ScanInv says which entries a scan has passed, TurnInv whom a  *)
(* waiting group has let go first, and MinInv what a stamp stands for.     *)
(***************************************************************************)
EXTENDS ObdTransmitter, WellFoundedInduction, FiniteSetTheorems, TLAPS

-----------------------------------------------------------------------------
(* Least, Greatest and Once *)

\* A nonempty set of naturals has a least element.
LEMMA LeastNat ==
    ASSUME NEW S \in SUBSET Nat, S # {}
    PROVE  Least(S) \in S /\ \A u \in S : Least(S) <= u
<1>1. PICK m \in S : \A u \in S : <<u, m>> \notin OpToRel(<, Nat)
  BY WFMin, NatLessThanWellFounded, Zenon
<1>2. \A u \in S : ~(u < m)
  BY <1>1, Zenon DEF OpToRel
<1>3. \E t \in S : \A u \in S : t <= u
  BY <1>2
<1> QED
  BY <1>3 DEF Least

\* A nonempty set of integers has a greatest element, if one number is beyond them all.
LEMMA GreatestBounded ==
    ASSUME NEW S \in SUBSET Int, S # {}, NEW b \in Int, \A u \in S : u <= b
    PROVE  Greatest(S) \in S /\ \A u \in S : u <= Greatest(S)
<1> DEFINE Below == {b - u : u \in S}
<1>1. Below \in SUBSET Nat /\ Below # {}
  <2>1. \A u \in S : b - u \in Nat
    OBVIOUS
  <2> QED
    BY <2>1
<1>2. PICK d \in Below : \A e \in Below : d <= e
  <2> HIDE DEF Below
  <2> QED
    BY <1>1, LeastNat
<1>3. PICK t \in S : d = b - t
  OBVIOUS
<1>4. \A u \in S : u <= t
  BY <1>2, <1>3
<1>5. \E t1 \in S : \A u \in S : u <= t1
  BY <1>4
<1> QED
  BY <1>5 DEF Greatest

LEMMA GreatestOfThree ==
    ASSUME NEW a \in Int, NEW b \in Int, NEW c \in Int
    PROVE  /\ Greatest({a, b, c}) \in {a, b, c}
           /\ Greatest({a, b, c}) >= a /\ Greatest({a, b, c}) >= b /\ Greatest({a, b, c}) >= c
<1>1. \E t \in {a, b, c} : \A u \in {a, b, c} : u <= t
  OBVIOUS
<1> QED
  BY <1>1 DEF Greatest

-----------------------------------------------------------------------------
(* Types *)

Arrivals == [at : Nat, ecu : DOMAIN Ecus, echo : Nat, tx : Int]
Wires    == [at : Int, until : Int, after : Int, strayed : BOOLEAN, excused : BOOLEAN]

\* Instants that lie behind, or never were.
Past(t) == t \in Int /\ Never <= t /\ t <= now

Held(f) == f \in Frames /\ f.slot <= Len(obdPoll) /\ (f # NoFrame => f.group \in Groups /\ f.at \in Nat)

SetType ==
    /\ obdPoll \in Seq(Entries) /\ interval \in Nat /\ index \in Nat
    /\ \A i \in 1..Len(obdPoll) : Past(obdPoll[i].last)

FlagType ==
    /\ awake \in BOOLEAN /\ gatewayed \in BOOLEAN /\ echoed \in BOOLEAN
    /\ probed \in BOOLEAN /\ offer \in BOOLEAN

BusType ==
    /\ now \in Nat /\ info \in Int
    /\ Past(since) /\ Past(lastRx) /\ lastTx \in Int /\ Never <= lastTx
    /\ rx \in SUBSET Arrivals

LoopType ==
    /\ suspendedAt \in Int /\ reoffers \in 0..2 /\ nextReoffer \in Int
    /\ pc \in {"idle", "settle", "next", "hand", "dead"}
    /\ gap \in Nat /\ tries \in Int /\ Never <= tries
    /\ Past(polledAt) /\ writes \in Nat /\ switches \in Nat /\ late \in Nat

HistType ==
    /\ wire \in Wires /\ sent \in [Groups -> Int] /\ waits \in [Groups -> Nat]
    /\ adrift \subseteq Groups /\ offers \in Seq(Nat)

TypeInv ==
    /\ SetType /\ FlagType /\ BusType /\ LoopType /\ HistType
    /\ Held(pending) /\ Held(hand) /\ (pc = "hand" => hand # NoFrame)

\* The tuples of variables, to be opened wherever an action leaves them alone.
USE DEF clockVars, setVars, wireVars, suspendVars, probeVars, localVars, countVars, histVars

LEMMA GroupType == Groups \subseteq Seq(Nat)
<1> SUFFICES ASSUME NEW p \in PollSets, NEW i \in 1..Len(p.list)
             PROVE  p.list[i].group \in Seq(Nat)
  BY DEF Groups
<1> DEFINE T == [group : Seq(Nat), min : Nat]
<1>1. p.list \in Seq(T)
  BY PollSetAssumption
<1>2. p.list[i] \in T
  <2> HIDE DEF T
  <2> QED
    BY <1>1
<1> QED
  BY <1>2

\* What comes back of a request: later, once, and echoing something that was asked.
LEMMA ReplyType ==
    ASSUME now \in Nat, NEW g \in Groups, NEW lat \in Latencies
    PROVE  \A a \in Replies(g, lat) : /\ a \in Arrivals /\ a.at = now + lat /\ a.at \in Nat
                                      /\ a.tx = now /\ a.echo # 0
<1> SUFFICES ASSUME NEW e \in DOMAIN Ecus, Answers(e, g) # {}
             PROVE  g[Least(Answers(e, g))] \in Nat \ {0}
  BY CarAssumption DEF Replies, Arrivals
<1>1. Answers(e, g) \in SUBSET Nat
  BY DEF Answers
<1>2. Least(Answers(e, g)) \in Answers(e, g)
  BY <1>1, LeastNat
<1> QED
  BY <1>2, PidAssumption DEF Answers

\* When the bus is free again: at the first of the answers, and in any case after Timeout.
Until(g, lat) == Least({now + Timeout} \cup {a.at : a \in Replies(g, lat)})
LEMMA UntilType ==
    ASSUME now \in Nat, NEW g \in Groups, NEW lat \in Latencies
    PROVE  /\ Until(g, lat) \in Nat /\ Until(g, lat) <= now + Timeout
           /\ \A a \in Replies(g, lat) : Until(g, lat) <= a.at
<1> DEFINE S == {now + Timeout} \cup {a.at : a \in Replies(g, lat)}
<1>1. S \in SUBSET Nat /\ S # {} /\ now + Timeout \in S /\ \A a \in Replies(g, lat) : a.at \in S
  BY ReplyType, TimeoutAssumption
<1>2. Until(g, lat) = Least(S)
  BY DEF Until
<1> HIDE DEF S
<1>3. Until(g, lat) \in S /\ \A u \in S : Until(g, lat) <= u
  BY <1>1, <1>2, LeastNat
<1> QED
  BY <1>1, <1>3

LEMMA HeardType ==
    ASSUME BusType
    PROVE  Past(Heard) /\ lastRx <= Heard
<1> DEFINE S == {a.at : a \in Due} \cup {lastRx}
<1>1. S \in SUBSET Int /\ lastRx \in S /\ \A u \in S : Past(u)
  BY DEF BusType, Due, Arrivals, Past, Never
<1>2. Heard = Greatest(S)
  BY DEF Heard
<1> HIDE DEF S
<1>3. Greatest(S) \in S /\ \A u \in S : u <= Greatest(S)
  BY <1>1, GreatestBounded DEF Past, BusType
<1> QED
  BY <1>1, <1>2, <1>3

LEMMA ResolvedType ==
    ASSUME BusType
    PROVE  /\ Resolved \in Nat
           /\ since # Never => /\ Resolved <= since + Timeout
                              /\ Resolved \in {since + Timeout} \cup {a.at : a \in Coming}
<1>1. CASE since = Never
  BY <1>1 DEF BusType, Resolved
<1>2. CASE since # Never
  <2> DEFINE S == {since + Timeout} \cup {a.at : a \in Coming}
  <2>1. S \in SUBSET Nat /\ since + Timeout \in S
    BY <1>2, TimeoutAssumption DEF BusType, Past, Never, Coming, Arrivals
  <2>2. Resolved = Least(S)
    BY <1>2 DEF Resolved
  <2> HIDE DEF S
  <2>3. Resolved \in S /\ Resolved <= since + Timeout
    BY <2>1, <2>2, LeastNat
  <2> QED
    BY <2>1, <2>3 DEF S
<1> QED
  BY <1>1, <1>2

LEMMA ProbeStartType ==
    ASSUME BusType
    PROVE  ProbeStart \in Nat /\ ProbeStart >= now /\ ProbeStart >= Resolved /\ ProbeStart > lastTx
<1> DEFINE x == IF lastTx = Never THEN now ELSE lastTx + 1
<1>1. x \in Int /\ lastTx \in Int /\ x > lastTx /\ now \in Nat /\ Resolved \in Nat
  BY ResolvedType DEF BusType, Never
<1>2. ProbeStart = Greatest({now, Resolved, x})
  BY DEF ProbeStart
<1> HIDE DEF x
<1>3. /\ ProbeStart \in {now, Resolved, x}
      /\ ProbeStart >= now /\ ProbeStart >= Resolved /\ ProbeStart >= x
  <2>1. now \in Int /\ Resolved \in Int /\ x \in Int
    BY <1>1
  <2> QED
    BY <1>2, <2>1, GreatestOfThree, Zenon
<1> QED
  BY <1>1, <1>3

LEMMA AskedType == Asked \in 1..3
  BY WindowAssumption DEF Asked

LEMMA OnceIs ==
    ASSUME NEW list, Len(list) \in Nat, NEW g
    PROVE  Once(list, g) <=> \E i \in 1..Len(list) :
                               \A j \in 1..Len(list) : list[j].group = g <=> j = i
<1> DEFINE S == {i \in 1..Len(list) : list[i].group = g}
<1>1. IsFiniteSet(S)
  <2>1. IsFiniteSet(1..Len(list)) /\ S \subseteq 1..Len(list)
    BY FS_Interval, 1 \in Int
  <2> QED
    BY <2>1, FS_Subset
<1>2. Once(list, g) <=> \E i : S = {i}
  BY <1>1, FS_Singleton DEF Once
<1>3. ASSUME NEW i, S = {i}
      PROVE  i \in 1..Len(list) /\ \A j \in 1..Len(list) : list[j].group = g <=> j = i
  BY <1>3, i \in S
<1>4. ASSUME NEW i \in 1..Len(list), \A j \in 1..Len(list) : list[j].group = g <=> j = i
      PROVE  S = {i}
  BY <1>4
<1> QED
  BY <1>2, <1>3, <1>4

\* What Transmit does to the schedule: one entry is stamped.
LEMMA StampType ==
    ASSUME SetType, now \in Nat, NEW i \in 0..Len(obdPoll)
    PROVE  LET s == IF i = 0 THEN obdPoll ELSE [obdPoll EXCEPT ![i].last = now]
           IN  /\ s \in Seq(Entries) /\ Len(s) = Len(obdPoll)
               /\ \A j \in 1..Len(obdPoll) : /\ s[j].group = obdPoll[j].group
                                            /\ s[j].min = obdPoll[j].min
                                            /\ s[j].last = IF j = i THEN now ELSE obdPoll[j].last
<1> DEFINE s == IF i = 0 THEN obdPoll ELSE [obdPoll EXCEPT ![i].last = now]
<1>1. CASE i = 0
  BY <1>1 DEF SetType
<1>2. CASE i # 0
  <2>1. i \in 1..Len(obdPoll) /\ obdPoll[i] \in Entries
    BY <1>2 DEF SetType
  <2>2. [obdPoll[i] EXCEPT !.last = now] \in Entries
    BY <2>1 DEF Entries, Instants
  <2>3. s = [obdPoll EXCEPT ![i] = [obdPoll[i] EXCEPT !.last = now]]
    BY <1>2
  <2>4. s \in Seq(Entries) /\ Len(s) = Len(obdPoll)
    BY <2>1, <2>2, <2>3 DEF SetType
  <2>5. \A j \in 1..Len(obdPoll) : s[j] = IF j = i THEN [obdPoll[i] EXCEPT !.last = now]
                                                   ELSE obdPoll[j]
    BY <2>1, <2>3 DEF SetType
  <2>6. \A j \in 1..Len(obdPoll) : obdPoll[j] \in Entries
    BY DEF SetType
  <2> HIDE DEF s
  <2>7. \A j \in 1..Len(obdPoll) : /\ s[j].group = obdPoll[j].group /\ s[j].min = obdPoll[j].min
                                  /\ s[j].last = IF j = i THEN now ELSE obdPoll[j].last
    BY <2>5, <2>6 DEF Entries
  <2> QED
    BY <2>4, <2>7 DEF s
<1> QED
  BY <1>1, <1>2

LEMMA TransmitType ==
    ASSUME TypeInv, NEW i \in 0..Len(obdPoll), NEW g \in Groups, NEW lat \in Latencies,
           Transmit(i, g, lat), now' = now, UNCHANGED <<interval, index>>
    PROVE  /\ SetType' /\ Len(obdPoll') = Len(obdPoll)
           /\ wire' \in Wires /\ sent' \in [Groups -> Int] /\ adrift' \subseteq Groups
           /\ offers' = <<>>
           /\ rx' \in SUBSET Arrivals
           /\ since' = now /\ lastTx' = now /\ echoed' = FALSE /\ pending' = NoFrame
           /\ suspendedAt' = Never /\ reoffers' = 0 /\ nextReoffer' = Never
<1>1. SetType' /\ Len(obdPoll') = Len(obdPoll)
  <2>1. SetType /\ now \in Nat
    BY DEF TypeInv, BusType
  <2>2. obdPoll' = IF i = 0 THEN obdPoll ELSE [obdPoll EXCEPT ![i].last = now]
    BY DEF Transmit
  <2>3. /\ obdPoll' \in Seq(Entries) /\ Len(obdPoll') = Len(obdPoll)
        /\ \A j \in 1..Len(obdPoll) : obdPoll'[j].last = IF j = i THEN now ELSE obdPoll[j].last
    BY <2>1, <2>2, StampType
  <2> QED
    BY <2>1, <2>3 DEF SetType, Past, Never
<1>2. wire' \in Wires
  <2>1. Until(g, lat) \in Int
    BY UntilType DEF TypeInv, BusType
  <2>2. wire' = [at |-> now, until |-> Until(g, lat), after |-> wire.until, strayed |-> FALSE,
                 excused |-> wire.strayed]
    BY DEF Transmit, Until
  <2>3. wire.until \in Int /\ wire.strayed \in BOOLEAN /\ now \in Int
    BY DEF TypeInv, HistType, Wires, BusType
  <2> QED
    BY <2>1, <2>2, <2>3 DEF Wires
<1>3. rx' \in SUBSET Arrivals
  BY ReplyType DEF TypeInv, BusType, Transmit
<1>4. sent' \in [Groups -> Int] /\ adrift' \subseteq Groups
  BY DEF TypeInv, BusType, HistType, Transmit
<1> QED
  BY <1>1, <1>2, <1>3, <1>4 DEF Transmit, Resume

LEMMA DeliverType ==
    ASSUME TypeInv, Deliver
    PROVE  echoed' \in BOOLEAN /\ wire' \in Wires
<1>1. echoed' \in BOOLEAN
  BY Zenon DEF Deliver, TypeInv, FlagType
<1>2. wire.strayed \in BOOLEAN /\ wire \in Wires
  BY DEF TypeInv, HistType, Wires
<1>3. wire' = [wire EXCEPT !.strayed = @ \/ (since # Never /\ \E a \in Due : Strays(a))]
  BY DEF Deliver
<1>4. (wire.strayed \/ (since # Never /\ \E a \in Due : Strays(a))) \in BOOLEAN
  OBVIOUS
<1> QED
  BY <1>1, <1>2, <1>3, <1>4 DEF Wires

LEMMA PollBeginType ==
    ASSUME TypeInv, PollBegin
    PROVE  TypeInv'
<1>0. FlagType'
  BY DeliverType, Zenon DEF PollBegin, TypeInv, FlagType
<1>1. echoed' \in BOOLEAN /\ wire' \in Wires
  BY DeliverType DEF PollBegin
<1>2. BusType'
  BY <1>1, HeardType DEF PollBegin, TypeInv, BusType, Past, Never
<1>3. SetType' /\ Held(pending)' /\ Held(hand)'
  BY DEF PollBegin, TypeInv, SetType, Held, Past, NoFrame
<1>4. LoopType' /\ (pc' = "hand" => hand' # NoFrame)
  BY DEF PollBegin, TypeInv, LoopType, SetType, BusType, Past, Never
<1>5. HistType'
  BY <1>1 DEF PollBegin, TypeInv, HistType
<1> QED
  BY <1>0, <1>2, <1>3, <1>4, <1>5 DEF TypeInv

LEMMA PollSettleType ==
    ASSUME TypeInv, PollSettle
    PROVE  TypeInv'
<1>0. FlagType'
  BY Zenon DEF PollSettle, Transmit, TypeInv, FlagType
<1>1. CASE pending # NoFrame /\ awake
  <2>1. PICK lat \in Latencies : Transmit(pending.slot, pending.group, lat)
    BY <1>1 DEF PollSettle
  <2>2. pending.slot \in 0..Len(obdPoll) /\ pending.group \in Groups
    BY <1>1 DEF TypeInv, Held, Frames, SetType
  <2>3. UNCHANGED <<interval, index>> /\ now' = now
    BY DEF PollSettle
  <2>4. /\ SetType' /\ Len(obdPoll') = Len(obdPoll)
        /\ wire' \in Wires /\ sent' \in [Groups -> Int] /\ adrift' \subseteq Groups
        /\ offers' = <<>> /\ rx' \in SUBSET Arrivals
        /\ since' = now /\ lastTx' = now /\ echoed' = FALSE /\ pending' = NoFrame
        /\ suspendedAt' = Never /\ reoffers' = 0 /\ nextReoffer' = Never
    BY <2>1, <2>2, <2>3, TransmitType
  <2>5. BusType'
    <3>1. UNCHANGED <<now, awake, gatewayed, lastRx, probed, info>>
      BY DEF PollSettle
    <3> QED
      BY <2>4, <3>1 DEF TypeInv, BusType, Past, Never
  <2>6. Held(pending)' /\ Held(hand)' /\ (pc' = "hand" => hand' # NoFrame)
    BY <2>4 DEF PollSettle, TypeInv, Held, Frames, NoFrame, SetType, Instants, Never
  <2>7. LoopType' /\ HistType'
    BY <2>4 DEF PollSettle, TypeInv, LoopType, HistType, Past, Never
  <2> QED
    BY <1>0, <2>4, <2>5, <2>6, <2>7 DEF TypeInv
<1>2. CASE ~(pending # NoFrame /\ awake)
  <2>1. SetType' /\ BusType'
    BY <1>2 DEF PollSettle, TypeInv, SetType, BusType, Past, Never
  <2>2. Held(pending)' /\ Held(hand)' /\ (pc' = "hand" => hand' # NoFrame)
    BY <1>2 DEF PollSettle, TypeInv, Held, Frames, NoFrame, SetType, Instants, Never
  <2>3. suspendedAt' \in Int /\ reoffers' \in 0..2 /\ nextReoffer' \in Int /\ offers' \in Seq(Nat)
    <3>1. CASE Resume
      BY <3>1 DEF Resume, Never
    <3>2. CASE /\ suspendedAt' = now /\ reoffers' = 0 /\ nextReoffer' = now + ReofferFirst
               /\ offers' = IF offers = <<>> THEN <<now>> ELSE offers
      BY <3>2, FloorAssumption DEF TypeInv, HistType, BusType
    <3>3. CASE UNCHANGED <<suspendVars, offers>>
      BY <3>3 DEF TypeInv, HistType, LoopType
    <3> QED
      BY <1>2, <3>1, <3>2, <3>3 DEF PollSettle
  <2>4. LoopType'
    BY <2>3 DEF PollSettle, TypeInv, LoopType, Past, Never
  <2>5. HistType'
    BY <1>2, <2>3 DEF PollSettle, TypeInv, HistType
  <2> QED
    BY <1>0, <2>1, <2>2, <2>4, <2>5 DEF TypeInv
<1> QED
  BY <1>1, <1>2

LEMMA PollNextType ==
    ASSUME TypeInv, PollNext
    PROVE  TypeInv'
<1>1. BusType' /\ HistType'
  BY DEF PollNext, TypeInv, BusType, HistType, Past
<1>6. FlagType'
  <2>1. offer' = offer \/ offer' = (suspendedAt # Never)
    BY Zenon DEF PollNext
  <2> QED
    BY <2>1, Zenon DEF PollNext, TypeInv, FlagType
<1>2. SetType'
  BY DEF PollNext, TypeInv, SetType, Past
<1>5. LoopType'
  <2>1. tries' \in Int /\ Never <= tries'
    BY DEF PollNext, TypeInv, SetType, LoopType, Never
  <2>2. pc' \in {"idle", "settle", "next", "hand", "dead"}
    BY DEF PollNext
  <2> QED
    BY <2>1, <2>2 DEF PollNext, TypeInv, LoopType, Past
<1>3. Held(pending)'
  BY DEF PollNext, TypeInv, Held, NoFrame
<1>4. Held(hand)' /\ (pc' = "hand" => hand' # NoFrame)
  <2>1. CASE pc' # "hand"
    <3>1. hand' = hand /\ obdPoll' = obdPoll
      BY <2>1 DEF PollNext
    <3> QED
      BY <2>1, <3>1 DEF TypeInv, Held, NoFrame
  <2>2. CASE pc' = "hand"
    <3>1. obdPoll # <<>>
      BY <2>2 DEF PollNext
    <3> DEFINE i == 1 + (index % Len(obdPoll))
    <3>2. i \in 1..Len(obdPoll) /\ hand' = [slot |-> i, group |-> obdPoll[i].group, at |-> now]
      BY <2>2, <3>1 DEF PollNext, TypeInv, SetType
    <3> HIDE DEF i
    <3>3. obdPoll[i] \in Entries
      BY <3>2 DEF TypeInv, SetType
    <3> QED
      BY <3>1, <3>2, <3>3 DEF Held, NoFrame, Frames, Entries, Instants, PollNext, TypeInv, BusType
  <2> QED
    BY <2>1, <2>2
<1> QED
  BY <1>1, <1>2, <1>3, <1>4, <1>5, <1>6 DEF TypeInv

LEMMA PollHandType ==
    ASSUME TypeInv, PollHand
    PROVE  TypeInv'
<1>0. FlagType'
  BY Zenon DEF PollHand, Transmit, TypeInv, FlagType
<1>1. hand # NoFrame /\ hand.slot \in 0..Len(obdPoll) /\ hand.group \in Groups
  BY DEF PollHand, TypeInv, Held, Frames, SetType
<1>2. waits' \in [Groups -> Nat]
  BY DEF PollHand, TypeInv, HistType
<1>3. CASE awake
  <2>1. PICK lat \in Latencies : Transmit(hand.slot, hand.group, lat)
    BY <1>3 DEF PollHand
  <2>2. UNCHANGED <<interval, index>> /\ now' = now
    BY DEF PollHand
  <2>3. /\ SetType' /\ Len(obdPoll') = Len(obdPoll)
        /\ wire' \in Wires /\ sent' \in [Groups -> Int] /\ adrift' \subseteq Groups
        /\ offers' = <<>> /\ rx' \in SUBSET Arrivals
        /\ since' = now /\ lastTx' = now /\ echoed' = FALSE /\ pending' = NoFrame
        /\ suspendedAt' = Never /\ reoffers' = 0 /\ nextReoffer' = Never
    BY <1>1, <2>1, <2>2, TransmitType
  <2>4. BusType'
    <3>1. UNCHANGED <<now, awake, gatewayed, lastRx, probed, info>>
      BY DEF PollHand
    <3> QED
      BY <2>3, <3>1 DEF TypeInv, BusType, Past, Never
  <2>5. Held(pending)' /\ Held(hand)' /\ (pc' = "hand" => hand' # NoFrame)
    BY <2>3 DEF PollHand, TypeInv, Held, Frames, NoFrame, SetType, Instants, Never
  <2>6. LoopType'
    BY <2>3 DEF PollHand, TypeInv, LoopType, Past, Never
  <2>7. HistType'
    BY <1>2, <2>3 DEF TypeInv, HistType
  <2> QED
    BY <1>0, <2>3, <2>4, <2>5, <2>6, <2>7 DEF TypeInv
<1>4. CASE ~awake
  <2>1. SetType' /\ BusType'
    BY <1>4 DEF PollHand, TypeInv, SetType, BusType, Past
  <2>2. Held(pending)' /\ Held(hand)' /\ (pc' = "hand" => hand' # NoFrame)
    BY <1>4 DEF PollHand, TypeInv, Held, Frames, NoFrame, SetType, Instants, Never
  <2>3. reoffers' \in 0..2 /\ nextReoffer' \in Int /\ offers' \in Seq(Nat)
    <3>1. reoffers \in 0..2 /\ nextReoffer \in Int /\ offers \in Seq(Nat) /\ now \in Nat
      BY DEF TypeInv, LoopType, HistType, BusType
    <3>2. {reoffers', nextReoffer'} \subseteq Int /\ reoffers' \in 0..2
      BY <1>4, <3>1, FloorAssumption DEF PollHand
    <3>3. offers' = offers \/ offers' = Append(offers, now)
      BY <1>4 DEF PollHand
    <3>4. offers' \in Seq(Nat)
      BY <3>1, <3>3
    <3> QED
      BY <3>2, <3>4
  <2>4. LoopType'
    BY <1>4, <2>3 DEF PollHand, TypeInv, LoopType, Past, Never
  <2>5. HistType'
    BY <1>2, <1>4, <2>3 DEF PollHand, TypeInv, HistType
  <2> QED
    BY <1>0, <2>1, <2>2, <2>4, <2>5 DEF TypeInv
<1> QED
  BY <1>3, <1>4

\* What a replacement carries over: of each entry, the latest stamp of those it matches.
Latest(s, i) == {Never} \cup {obdPoll[j].last : j \in Matching(s, i)}
LEMMA LatestType ==
    ASSUME SetType, now \in Nat, NEW s, NEW i
    PROVE  Past(Greatest(Latest(s, i))) /\ \A u \in Latest(s, i) : u <= Greatest(Latest(s, i))
<1>1. Latest(s, i) \in SUBSET Int /\ Latest(s, i) # {} /\ \A u \in Latest(s, i) : Past(u)
  BY DEF SetType, Matching, Past, Never, Latest
<1>2. \A u \in Latest(s, i) : u <= now
  BY <1>1 DEF Past
<1>3. Greatest(Latest(s, i)) \in Latest(s, i)
      /\ \A u \in Latest(s, i) : u <= Greatest(Latest(s, i))
  BY <1>1, <1>2, GreatestBounded
<1> QED
  BY <1>1, <1>3

LEMMA CarriedType ==
    ASSUME SetType, now \in Nat, NEW p \in PollSets
    PROVE  /\ Carried(p.list) \in Seq(Entries) /\ Len(Carried(p.list)) = Len(p.list)
           /\ Len(p.list) \in Nat \ {0}
           /\ \A i \in 1..Len(p.list) :
                 /\ Carried(p.list)[i].group = p.list[i].group
                 /\ Carried(p.list)[i].min = p.list[i].min
                 /\ Carried(p.list)[i].last = Greatest(Latest(p.list, i))
                 /\ Past(Carried(p.list)[i].last)
<1> DEFINE s == p.list
           T == [group : Seq(Nat), min : Nat]
           e(i) == [group |-> s[i].group, min |-> s[i].min, last |-> Greatest(Latest(s, i))]
<1>1. s \in Seq(T) /\ s # <<>>
  BY PollSetAssumption
<1>2. \A i \in 1..Len(s) : s[i].group \in Groups
  BY DEF Groups
<1>3. \A i \in 1..Len(s) : s[i] \in T
  <2> HIDE DEF T, s
  <2> QED
    BY <1>1
<1>4. \A i \in 1..Len(s) : Past(Greatest(Latest(s, i)))
  BY LatestType
<1>5. \A i \in 1..Len(s) : e(i) \in Entries
  BY <1>2, <1>3, <1>4 DEF Entries, Past, Instants
<1>6. Carried(s) = [i \in 1..Len(s) |-> e(i)]
  BY DEF Carried, Latest
<1>7. Len(s) \in Nat \ {0}
  <2> HIDE DEF T, s
  <2> QED
    BY <1>1
<1>8. \A i \in 1..Len(s) : e(i).group = s[i].group /\ e(i).min = s[i].min
                          /\ e(i).last = Greatest(Latest(s, i))
  OBVIOUS
<1>9. Carried(s) \in Seq(Entries) /\ Len(Carried(s)) = Len(s)
      /\ \A i \in 1..Len(s) : Carried(s)[i] = e(i)
  <2> HIDE DEF e, s
  <2> QED
    BY <1>5, <1>6, <1>7
<1> HIDE DEF e
<1> QED
  BY <1>4, <1>7, <1>8, <1>9

LEMMA StopType ==
    ASSUME TypeInv, Stop, UNCHANGED <<now, pc>>
    PROVE  /\ SetType' /\ Held(pending)' /\ Held(hand)' /\ (pc' = "hand" => hand' # NoFrame)
           /\ suspendedAt' = Never /\ reoffers' = 0 /\ nextReoffer' = Never /\ offers' = <<>>
           /\ sent' \in [Groups -> Int] /\ waits' \in [Groups -> Nat] /\ adrift' = {}
<1>1. SetType'
  BY DEF Stop, SetType
<1>2. Held(pending)'
  BY DEF Stop, Held, Withdrawn, NoFrame, Frames, Instants, Never
<1>3. Held(hand)' /\ (pc' = "hand" => hand' # NoFrame)
  <2>1. hand \in Frames /\ (hand # NoFrame => hand.group \in Groups /\ hand.at \in Nat)
    BY DEF TypeInv, Held
  <2>2. hand' = [hand EXCEPT !.slot = 0] /\ Len(obdPoll') = 0
    BY DEF Stop
  <2>3. hand' = [slot |-> 0, group |-> hand.group, at |-> hand.at]
    BY <2>1, <2>2 DEF Frames
  <2>4. pc = "hand" => hand # NoFrame
    BY DEF TypeInv
  <2> QED
    BY <2>1, <2>2, <2>3, <2>4 DEF Held, Frames, NoFrame, Never
<1> QED
  BY <1>1, <1>2, <1>3 DEF Stop, Resume, Never

LEMMA WriteStopType ==
    ASSUME TypeInv, WriteStop \/ WriteReset
    PROVE  TypeInv'
<1>0. FlagType'
  BY DeliverType, Zenon DEF WriteStop, WriteReset, TypeInv, FlagType
<1>1. Stop /\ UNCHANGED <<now, pc>>
  BY DEF WriteStop, WriteReset
<1>2. /\ SetType' /\ Held(pending)' /\ Held(hand)' /\ (pc' = "hand" => hand' # NoFrame)
      /\ suspendedAt' = Never /\ reoffers' = 0 /\ nextReoffer' = Never /\ offers' = <<>>
      /\ sent' \in [Groups -> Int] /\ waits' \in [Groups -> Nat] /\ adrift' = {}
  BY <1>1, StopType
<1>3. BusType'
  BY HeardType DEF WriteStop, WriteReset, TypeInv, BusType, Past
<1>4. LoopType'
  BY <1>2 DEF WriteStop, WriteReset, Writes, TypeInv, LoopType, Past, Never
<1>5. wire' \in Wires
  BY DeliverType DEF WriteStop, WriteReset, TypeInv, HistType
<1>6. HistType'
  BY <1>2, <1>5 DEF HistType
<1> QED
  BY <1>0, <1>2, <1>3, <1>4, <1>6 DEF TypeInv

LEMMA LinkEdgeType ==
    ASSUME TypeInv, LinkEdge
    PROVE  TypeInv'
<1>0. FlagType'
  BY Zenon DEF LinkEdge, TypeInv, FlagType
<1>1. Stop /\ UNCHANGED <<now, pc>>
  BY DEF LinkEdge
<1>2. /\ SetType' /\ Held(pending)' /\ Held(hand)' /\ (pc' = "hand" => hand' # NoFrame)
      /\ suspendedAt' = Never /\ reoffers' = 0 /\ nextReoffer' = Never /\ offers' = <<>>
      /\ sent' \in [Groups -> Int] /\ waits' \in [Groups -> Nat] /\ adrift' = {}
  BY <1>1, StopType
<1>3. BusType'
  BY DEF LinkEdge, TypeInv, BusType, Past, Never
<1>4. LoopType'
  BY <1>2 DEF LinkEdge, TypeInv, LoopType, Past, Never
<1>5. HistType'
  BY <1>2 DEF LinkEdge, TypeInv, HistType
<1> QED
  BY <1>0, <1>2, <1>3, <1>4, <1>5 DEF TypeInv

\* What the probe of an awake car puts on the bus.
MaskResponses == {[at |-> ProbeStart + k, ecu |-> e, echo |-> 0, tx |-> ProbeStart] :
                    k \in 0..(Asked - 1), e \in DOMAIN Ecus}
LEMMA MaskType ==
    ASSUME BusType
    PROVE  \A a \in MaskResponses : /\ a \in Arrivals /\ a.echo = 0 /\ a.tx = ProbeStart
                                    /\ ProbeStart <= a.at /\ a.at <= ProbeStart + Asked - 1
<1> SUFFICES ASSUME NEW k \in 0..(Asked - 1), NEW e \in DOMAIN Ecus
             PROVE  ProbeStart + k \in Nat /\ ProbeStart <= ProbeStart + k
                    /\ ProbeStart + k <= ProbeStart + Asked - 1 /\ ProbeStart \in Nat
  BY DEF MaskResponses, Arrivals
<1> QED
  BY ProbeStartType, AskedType

\* What a WriteInfo does to the wire, when the car is awake.
LEMMA WriteInfoType ==
    ASSUME TypeInv, WriteInfo
    PROVE  TypeInv'
<1>0. FlagType'
  <2>1. echoed' \in BOOLEAN
    <3>1. CASE awake
      <4>1. echoed' = (echoed \/ \E a \in Due : Echoes(a))
        BY <3>1 DEF WriteInfo
      <4> QED
        BY <4>1, Zenon
    <3>2. CASE ~awake
      BY <3>2, DeliverType DEF WriteInfo
    <3> QED
      BY <3>1, <3>2
  <2>2. probed' = (DOMAIN Ecus # {}) \/ probed' = FALSE
    BY DEF WriteInfo
  <2>3. UNCHANGED <<awake, gatewayed, offer>>
    BY DEF WriteInfo
  <2> QED
    BY <2>1, <2>2, <2>3, Zenon DEF TypeInv, FlagType
<1>1. Stop /\ UNCHANGED <<now, pc>>
  BY DEF WriteInfo
<1>2. /\ SetType' /\ Held(pending)' /\ Held(hand)' /\ (pc' = "hand" => hand' # NoFrame)
      /\ suspendedAt' = Never /\ reoffers' = 0 /\ nextReoffer' = Never /\ offers' = <<>>
      /\ sent' \in [Groups -> Int] /\ waits' \in [Groups -> Nat] /\ adrift' = {}
  BY <1>1, StopType
<1>3. ProbeStart \in Nat /\ Asked \in 1..3 /\ Timeout \in Nat
  BY ProbeStartType, AskedType, TimeoutAssumption DEF TypeInv
<1>4. rx' \in SUBSET Arrivals
  <2>1. rx' \subseteq rx \cup MaskResponses
    BY DEF WriteInfo, MaskResponses
  <2> QED
    BY <2>1, MaskType DEF TypeInv, BusType
<1>5. lastTx' \in Nat \cup {lastTx} /\ info' \in Int
  BY <1>3 DEF WriteInfo, ProbeDone
<1>6. BusType'
  <2>1. lastRx' = Heard /\ UNCHANGED <<now, since>>
    BY DEF WriteInfo
  <2> QED
    BY <1>4, <1>5, <2>1, HeardType DEF TypeInv, BusType, Past, Never
<1>7. LoopType'
  BY <1>2 DEF WriteInfo, Writes, TypeInv, LoopType, Past, Never
<1>8. wire' \in Wires
  <2>1. CASE awake
    <3> DEFINE x == wire.strayed \/ \E a \in Coming : Strays(a)
    <3>1. x \in BOOLEAN /\ wire.until \in Int /\ wire.strayed \in BOOLEAN
      <4>1. wire.until \in Int /\ wire.strayed \in BOOLEAN
        BY DEF TypeInv, HistType, Wires
      <4>2. x \in BOOLEAN
        BY Zenon
      <4> QED
        BY <4>1, <4>2, Zenon
    <3>2. wire' = [at |-> ProbeStart, until |-> ProbeStart + Asked, after |-> wire.until,
                   strayed |-> FALSE, excused |-> x]
      BY <2>1 DEF WriteInfo
    <3> HIDE DEF x
    <3> QED
      BY <1>3, <3>1, <3>2 DEF Wires
  <2>2. CASE ~awake
    BY <2>2, DeliverType DEF WriteInfo
  <2> QED
    BY <2>1, <2>2
<1>9. HistType'
  BY <1>2, <1>8 DEF HistType
<1> QED
  BY <1>0, <1>2, <1>6, <1>7, <1>9 DEF TypeInv

LEMMA WritePollSetType ==
    ASSUME TypeInv, NEW p \in PollSets, WritePollSet(p.list, p.ms)
    PROVE  TypeInv'
<1>0. FlagType'
  BY Zenon DEF WritePollSet, TypeInv, FlagType
<1>1. SetType' /\ Len(obdPoll') \in Nat
  <2>1. obdPoll' = Carried(p.list) /\ interval' = p.ms /\ index' = index /\ now' = now
    BY DEF WritePollSet, CursorKept
  <2>2. SetType /\ now \in Nat /\ p.ms \in Nat
    BY PollSetAssumption DEF TypeInv, BusType
  <2>3. /\ obdPoll' \in Seq(Entries) /\ Len(obdPoll') = Len(p.list) /\ Len(obdPoll') \in Nat
        /\ \A i \in 1..Len(p.list) : Past(obdPoll'[i].last)
    BY <2>1, <2>2, CarriedType
  <2> QED
    BY <2>1, <2>2, <2>3 DEF SetType, Past
<1>2. ASSUME NEW f, NEW g, Held(f), g = [f EXCEPT !.slot = 0]
      PROVE  /\ g \in Frames /\ g.slot = 0 /\ (g # NoFrame => g.group \in Groups /\ g.at \in Nat)
             /\ (g = NoFrame => f = NoFrame)
  <2>1. f \in Frames
    BY <1>2 DEF Held
  <2>2. g = [slot |-> 0, group |-> f.group, at |-> f.at] /\ f = [slot |-> f.slot, group |-> f.group, at |-> f.at]
    BY <1>2, <2>1 DEF Frames
  <2> QED
    BY <1>2, <2>1, <2>2 DEF Held, Frames, NoFrame, Never
<1>3. Held(pending)' /\ Held(hand)' /\ (pc' = "hand" => hand' # NoFrame)
  <2>1. Held(pending) /\ Held(hand) /\ (pc = "hand" => hand # NoFrame)
    BY DEF TypeInv
  <2>2. pending' = [pending EXCEPT !.slot = 0] /\ hand' = [hand EXCEPT !.slot = 0] /\ pc' = pc
    BY DEF WritePollSet
  <2>3. /\ pending' \in Frames /\ pending'.slot = 0
        /\ (pending' # NoFrame => pending'.group \in Groups /\ pending'.at \in Nat)
    BY <1>2, <2>1, <2>2
  <2>4. /\ hand' \in Frames /\ hand'.slot = 0 /\ (hand' = NoFrame => hand = NoFrame)
        /\ (hand' # NoFrame => hand'.group \in Groups /\ hand'.at \in Nat)
    BY <1>2, <2>1, <2>2
  <2> QED
    BY <1>1, <2>1, <2>2, <2>3, <2>4 DEF Held
<1>4. BusType'
  BY DEF WritePollSet, TypeInv, BusType, Past
<1>5. LoopType'
  BY DEF WritePollSet, Writes, Resume, TypeInv, LoopType, Past, Never
<1>6. HistType'
  <2>1. sent' \in [Groups -> Int] /\ waits' \in [Groups -> Nat]
    BY DEF WritePollSet, TypeInv, HistType, Never
  <2>2. adrift' \subseteq Groups
    BY DEF WritePollSet, TypeInv, HistType, Held
  <2> QED
    BY <2>1, <2>2 DEF WritePollSet, Resume, TypeInv, HistType
<1> QED
  BY <1>0, <1>1, <1>3, <1>4, <1>5, <1>6 DEF TypeInv

LEMMA RestType ==
    ASSUME TypeInv, InfoDue \/ Advance \/ Ignition \/ UNCHANGED vars
    PROVE  TypeInv'
<1>0. FlagType'
  <2>1. awake' \in BOOLEAN
    BY Zenon DEF InfoDue, Advance, Ignition, vars, TypeInv, FlagType
  <2> QED
    BY <2>1, Zenon DEF InfoDue, Advance, Ignition, vars, TypeInv, FlagType
<1>1. /\ UNCHANGED <<obdPoll, interval, index, since, lastRx, lastTx, rx, pending, hand, pc,
                     histVars, suspendVars, gap, tries, polledAt, writes>>
      /\ now' \in {now, now + 1} /\ info' \in {info, Never}
      /\ switches' \in {switches, switches + 1} /\ late' \in {late, late + 1}
  BY DEF InfoDue, Advance, Ignition, vars
<1>2. SetType' /\ BusType'
  <2>1. now \in Nat /\ now' \in Nat /\ now <= now'
    BY <1>1 DEF TypeInv, BusType
  <2>2. \A t : Past(t) => Past(t)'
    BY <2>1 DEF Past
  <2>3. SetType'
    BY <1>1, <2>2 DEF TypeInv, SetType, Past
  <2>4. BusType'
    BY <1>1, <2>1 DEF TypeInv, BusType, Past, Never
  <2> QED
    BY <2>3, <2>4
<1>3. LoopType' /\ HistType'
  BY <1>1 DEF TypeInv, LoopType, HistType, BusType, Past, Never
<1>4. Held(pending)' /\ Held(hand)' /\ (pc' = "hand" => hand' # NoFrame)
  BY <1>1 DEF TypeInv, Held, NoFrame
<1> QED
  BY <1>0, <1>2, <1>3, <1>4 DEF TypeInv

LEMMA TypeInit == Init => TypeInv
<1> SUFFICES ASSUME Init PROVE TypeInv
  OBVIOUS
<1>1. FlagType
  BY FlagAssumption, Zenon DEF Init, FlagType
<1>2. SetType /\ BusType /\ LoopType
  BY DEF Init, SetType, BusType, LoopType, Past, Never
<1>3. HistType
  BY DEF Init, HistType, Wires, Never
<1>4. Held(pending) /\ Held(hand) /\ pc # "hand"
  BY DEF Init, Held, NoFrame, Frames, Never, Instants
<1> QED
  BY <1>1, <1>2, <1>3, <1>4 DEF TypeInv

LEMMA TypeNext == TypeInv /\ [Next]_vars => TypeInv'
<1> SUFFICES ASSUME TypeInv, [Next]_vars PROVE TypeInv'
  OBVIOUS
<1>1. CASE Poll
  BY <1>1, PollBeginType, PollSettleType, PollNextType, PollHandType DEF Poll
<1>2. CASE Control
  BY <1>2, WriteStopType, WriteInfoType, WritePollSetType DEF Control
<1>3. CASE InfoDue \/ Advance \/ Ignition \/ Horizon \/ UNCHANGED vars
  BY <1>3, RestType DEF Horizon
<1> QED
  BY <1>1, <1>2, <1>3, LinkEdgeType DEF Next

LEMMA TypeInvariant == Spec => []TypeInv
  BY TypeInit, TypeNext, PTL DEF Spec

\* Every variable of the role keeps its type, for any car, any poll sets and any timing, a
\* control write inside a poll included.
THEOREM TypeCorrect == Spec => []TypeOK
<1>1. TypeInv => TypeOK
  <2> SUFFICES ASSUME TypeInv PROVE TypeOK
    OBVIOUS
  <2>1. awake \in BOOLEAN /\ gatewayed \in BOOLEAN /\ echoed \in BOOLEAN /\ probed \in BOOLEAN
    BY Zenon DEF TypeInv, FlagType
  <2>2. \A a \in rx : a.at \in Nat
    BY DEF TypeInv, BusType, Arrivals
  <2>3. pending \in Frames /\ pending.slot \in 0..Len(obdPoll)
    BY DEF TypeInv, Held, SetType, Frames
  <2> QED
    BY <2>1, <2>2, <2>3 DEF TypeInv, SetType, BusType, LoopType, Past, TypeOK, Instants
<1> QED
  BY <1>1, TypeInvariant, PTL

-----------------------------------------------------------------------------
(* The floors of a silent bus *)

\* The loop is between its decision to offer and the offer.
Offering == (pc = "next" /\ tries # Never) \/ pc = "hand"

\* What it decided is a try of a silent bus.
Trying == Offering /\ offer

LastOffer == offers[Len(offers)]
FloorOf(i) == IF i = 2 THEN ReofferFirst ELSE IF i = 3 THEN ReofferSecond ELSE ReofferLater

\* The deadline of the next try stands a floor beyond the last one, and which floor is as
\* the count of tries says; a decision to try was taken at that deadline or after it.
FloorInv ==
    /\ ReofferFloors
    /\ offers # <<>> => LastOffer <= now
    /\ suspendedAt = Never => Len(offers) <= 1
    /\ suspendedAt # Never =>
          /\ Len(offers) >= 1
          /\ (Len(offers) = 1 => reoffers = 0 /\ nextReoffer >= LastOffer + ReofferFirst)
          /\ (Len(offers) = 2 => reoffers = 1 /\ nextReoffer = LastOffer + ReofferSecond)
          /\ (Len(offers) >= 3 => reoffers = 2 /\ nextReoffer = LastOffer + ReofferLater)
    /\ Trying => IF suspendedAt = Never THEN offers = <<>> ELSE now >= nextReoffer

LEMMA FloorResume ==
    ASSUME suspendedAt' = Never, offers' = <<>>
    PROVE  FloorInv'
<1>1. Len(offers') = 0
  OBVIOUS
<1> QED
  BY <1>1 DEF FloorInv, ReofferFloors

LEMMA FloorSame ==
    ASSUME TypeInv, FloorInv, UNCHANGED <<offers, suspendVars>>, now' \in {now, now + 1},
           Trying' => Trying \/ (suspendedAt # Never /\ now >= nextReoffer)
    PROVE  FloorInv'
<1>1. ReofferFloors'
  BY DEF FloorInv, ReofferFloors
<1>2. offers # <<>> => LastOffer \in Nat
  BY DEF TypeInv, HistType, LastOffer
<1>3. LastOffer' = LastOffer
  BY DEF LastOffer
<1>4. Trying' => IF suspendedAt = Never THEN offers = <<>> ELSE now >= nextReoffer
  BY DEF FloorInv
<1>5. now \in Nat /\ nextReoffer \in Int
  BY DEF TypeInv, BusType, LoopType
<1> QED
  BY <1>1, <1>2, <1>3, <1>4, <1>5 DEF FloorInv

LEMMA FloorHand ==
    ASSUME TypeInv, FloorInv, PollHand, ~awake, offer
    PROVE  FloorInv'
<1>1. /\ offers' = Append(offers, now) /\ now' = now /\ suspendedAt' = suspendedAt
      /\ reoffers' = IF reoffers = 2 THEN 2 ELSE reoffers + 1
      /\ nextReoffer' = now + IF reoffers = 0 THEN ReofferSecond ELSE ReofferLater
  BY DEF PollHand
<1>2. /\ offers \in Seq(Nat) /\ now \in Nat /\ reoffers \in 0..2 /\ nextReoffer \in Int
      /\ ReofferFirst \in Nat /\ ReofferSecond \in Nat /\ ReofferLater \in Nat
  BY FloorAssumption DEF TypeInv, HistType, BusType, LoopType
<1> DEFINE n == Len(offers)
<1>3. /\ n \in Nat /\ Len(offers') = n + 1 /\ offers'[n + 1] = now
      /\ \A i \in 1..n : offers'[i] = offers[i] /\ offers[i] \in Nat
      /\ (offers = <<>> <=> n = 0)
  BY <1>1, <1>2
<1>4. LastOffer' = now /\ (n > 0 => LastOffer = offers[n])
  BY <1>3 DEF LastOffer
<1>5. IF suspendedAt = Never THEN n = 0 ELSE n >= 1 /\ now >= nextReoffer
  <2>1. Trying
    BY Zenon DEF PollHand, Offering, Trying
  <2> QED
    BY <1>3, <2>1 DEF FloorInv
<1> HIDE DEF n
<1>6. n >= 1 => now - offers[n] >= FloorOf(n + 1)
  <2> SUFFICES ASSUME n >= 1 PROVE now - offers[n] >= FloorOf(n + 1)
    OBVIOUS
  <2>1. offers[n] \in Nat /\ offers[n] = LastOffer /\ suspendedAt # Never /\ now >= nextReoffer
    BY <1>3, <1>4, <1>5
  <2>2. /\ (n = 1 => nextReoffer >= LastOffer + ReofferFirst)
        /\ (n = 2 => nextReoffer = LastOffer + ReofferSecond)
        /\ (n >= 3 => nextReoffer = LastOffer + ReofferLater)
    BY <2>1 DEF FloorInv, n
  <2> QED
    BY <1>2, <1>3, <2>1, <2>2 DEF FloorOf
<1>7. ReofferFloors'
  <2> SUFFICES ASSUME NEW i \in 2..(n + 1)
               PROVE  offers'[i] - offers'[i - 1] >= FloorOf(i)
    BY <1>3 DEF ReofferFloors, FloorOf
  <2>1. CASE i \in 2..n
    <3>1. offers'[i] = offers[i] /\ offers'[i - 1] = offers[i - 1]
      BY <1>3, <2>1
    <3>2. offers[i] - offers[i - 1] >= FloorOf(i)
      BY <2>1 DEF FloorInv, ReofferFloors, FloorOf, n
    <3> QED
      BY <3>1, <3>2
  <2>2. CASE i = n + 1
    <3>1. n >= 1 /\ offers'[i] = now /\ offers'[i - 1] = offers[n]
      BY <1>3, <2>2
    <3> QED
      BY <1>6, <2>2, <3>1
  <2> QED
    BY <1>3, <2>1, <2>2
<1>8. ~Trying'
  <2>1. pc' = "idle"
    BY DEF PollHand
  <2> QED
    BY <2>1 DEF Offering, Trying
<1>9. /\ (suspendedAt = Never => Len(offers') <= 1)
      /\ (suspendedAt # Never =>
            /\ Len(offers') >= 1
            /\ (Len(offers') = 1 => FALSE)
            /\ (Len(offers') = 2 => reoffers' = 1 /\ nextReoffer' = now + ReofferSecond)
            /\ (Len(offers') >= 3 => reoffers' = 2 /\ nextReoffer' = now + ReofferLater))
  <2>1. suspendedAt # Never => /\ n >= 1 /\ (n = 1 => reoffers = 0) /\ (n = 2 => reoffers = 1)
                               /\ (n >= 3 => reoffers = 2)
    BY <1>5 DEF FloorInv, n
  <2> QED
    BY <1>1, <1>2, <1>3, <1>5, <2>1
<1> QED
  BY <1>1, <1>2, <1>4, <1>7, <1>8, <1>9 DEF FloorInv

LEMMA FloorNext == TypeInv /\ FloorInv /\ [Next]_vars => FloorInv'
<1> SUFFICES ASSUME TypeInv, FloorInv, [Next]_vars PROVE FloorInv'
  OBVIOUS
<1>1. CASE PollBegin
  <2>1. ~Trying' /\ UNCHANGED <<offers, suspendVars, now>>
    BY <1>1 DEF PollBegin, Offering, Trying
  <2> QED
    BY <2>1, FloorSame
<1>2. CASE PollSettle
  <2>1. ~Trying' /\ now' = now
    BY <1>2 DEF PollSettle, Offering, Trying
  <2>2. CASE Resume
    BY <2>2, FloorResume DEF Resume
  <2>3. CASE /\ suspendedAt = Never /\ suspendedAt' = now /\ reoffers' = 0
             /\ nextReoffer' = now + ReofferFirst
             /\ offers' = IF offers = <<>> THEN <<now>> ELSE offers
    <3>1. offers \in Seq(Nat) /\ now \in Nat /\ Len(offers) <= 1 /\ ReofferFirst \in Nat
      BY <2>3, FloorAssumption DEF TypeInv, HistType, BusType, FloorInv
    <3>2. Len(offers') = 1 /\ offers'[1] \in Nat /\ offers'[1] <= now
      <4>1. CASE offers = <<>>
        BY <2>3, <3>1, <4>1
      <4>2. CASE offers # <<>>
        <5>0. Len(offers) \in Nat /\ Len(offers) # 0
          BY <3>1, <4>2
        <5>1. Len(offers) = 1
          <6>1. Len(offers) <= 1
            BY <3>1
          <6> QED
            BY <5>0, <6>1
        <5>2. offers' = offers
          BY <2>3, <4>2
        <5>3. offers[1] \in Nat
          <6>1. \A i \in 1..Len(offers) : offers[i] \in Nat
            BY <3>1
          <6> QED
            BY <5>1, <6>1
        <5> QED
          BY <4>2, <5>1, <5>2, <5>3 DEF FloorInv, LastOffer
      <4> QED
        BY <4>1, <4>2
    <3>3. LastOffer' = offers'[1]
      BY <3>2 DEF LastOffer
    <3>4. ReofferFloors'
      BY <3>2 DEF ReofferFloors
    <3>5. suspendedAt' # Never
      BY <2>3, <3>1 DEF Never
    <3> QED
      <4>1. nextReoffer' >= offers'[1] + ReofferFirst /\ reoffers' = 0
        BY <2>3, <3>1, <3>2
      <4>2. LastOffer' <= now'
        BY <2>1, <3>2, <3>3
      <4>3. ~(Len(offers') = 2) /\ ~(Len(offers') >= 3) /\ Len(offers') >= 1
        BY <3>2
      <4>4. nextReoffer' >= LastOffer' + ReofferFirst
        BY <3>3, <4>1
      <4> QED
        BY <2>1, <3>4, <3>5, <4>1, <4>2, <4>3, <4>4, Zenon DEF FloorInv
  <2>4. CASE UNCHANGED <<suspendVars, offers>>
    BY <2>1, <2>4, FloorSame
  <2> QED
    BY <1>2, <2>2, <2>3, <2>4 DEF PollSettle, Transmit, Suspends
<1>3. CASE PollNext
  <2>1. UNCHANGED <<offers, suspendVars, now>>
    BY <1>3 DEF PollNext
  <2>2. Trying' => Trying \/ (suspendedAt # Never /\ now >= nextReoffer)
    <3>1. CASE pc = "next" /\ tries = Never
      <4>1. Offering' => MayOffer /\ offer' = (suspendedAt # Never)
        BY <1>3, <3>1 DEF PollNext, Offering, Never
      <4>2. MayOffer => suspendedAt = Never \/ now >= nextReoffer
        BY DEF MayOffer
      <4> QED
        BY <4>1, <4>2, Zenon DEF Trying
    <3>2. CASE pc = "next" /\ tries # Never
      <4>1. offer' = offer
        BY <1>3, <3>2 DEF PollNext
      <4> QED
        BY <3>2, <4>1, Zenon DEF Offering, Trying
    <3> QED
      BY <1>3, <3>1, <3>2 DEF PollNext
  <2> QED
    BY <2>1, <2>2, FloorSame
<1>4. CASE PollHand
  <2>1. CASE awake
    BY <1>4, <2>1, FloorResume DEF PollHand, Transmit, Resume
  <2>2. CASE ~awake /\ ~offer
    <3>1. UNCHANGED <<offers, suspendVars, now>> /\ ~Trying'
      BY <1>4, <2>2 DEF PollHand, Offering, Trying
    <3> QED
      BY <3>1, FloorSame
  <2> QED
    BY <1>4, <2>1, <2>2, FloorHand
<1>5. CASE Control \/ LinkEdge
  BY <1>5, FloorResume DEF Control, LinkEdge, WriteStop, WriteReset, WriteInfo, WritePollSet, Stop, Resume
<1>6. CASE InfoDue \/ Advance \/ Ignition \/ Horizon \/ UNCHANGED vars
  <2>1. UNCHANGED <<offers, suspendVars, pc, tries, offer>> /\ now' \in {now, now + 1}
        /\ (now' # now => pc = "idle")
    BY <1>6 DEF InfoDue, Advance, Ignition, Horizon, vars
  <2>2. Trying' => Trying
    BY <2>1, Zenon DEF Offering, Trying
  <2> QED
    BY <2>1, <2>2, FloorSame
<1> QED
  BY <1>1, <1>2, <1>3, <1>4, <1>5, <1>6 DEF Next, Poll

\* A silent bus is tried again no sooner than the floors allow, whatever the floors, the set
\* and its replacements, a control write inside a poll included.
THEOREM FloorsAreKept == Spec => []ReofferFloors
<1>1. Init => FloorInv
  BY DEF Init, FloorInv, ReofferFloors, Offering, Trying
<1>2. FloorInv => ReofferFloors
  BY DEF FloorInv
<1> QED
  BY <1>1, <1>2, FloorNext, TypeInvariant, PTL DEF Spec

-----------------------------------------------------------------------------
(* One request on the bus *)

\* How the loop stands to the clock, when no control write can be inside a poll: a poll has
\* a set and transmits once, at an instant later than any request before it, of a probe too.
PaceInv ==
    /\ pc # "dead" /\ (pc # "idle" => obdPoll # <<>> /\ polledAt = now)
    /\ obdPoll # <<>> => probed /\ info = Never
    /\ pending # NoFrame => since = Never
    /\ since <= lastTx /\ (info # Never => lastTx < info)
    /\ pc = "idle" /\ probed /\ info = Never => lastTx < now \/ (lastTx = now /\ polledAt = now)
    /\ pc = "settle" => lastTx < now
    /\ pc = "next" => lastTx < now \/ (lastTx = now /\ since = now)
    /\ Offering => since = Never /\ pending = NoFrame /\ lastTx < now
    /\ pc = "hand" => hand.slot \in 1..Len(obdPoll) /\ hand.group = obdPoll[hand.slot].group

LEMMA PaceBegin ==
    ASSUME TypeInv, PaceInv, PollBegin
    PROVE  PaceInv'
<1>1. /\ pc = "idle" /\ polledAt < now /\ polledAt' = now /\ pc' \in {"idle", "settle"}
      /\ (pc' = "settle" => obdPoll # <<>>)
      /\ UNCHANGED <<now, obdPoll, pending, since, lastTx, probed, info>>
  BY DEF PollBegin
<1>2. now \in Nat /\ lastTx \in Int
  BY DEF TypeInv, BusType
<1>3. probed /\ info = Never => lastTx < now
  BY <1>1, <1>2 DEF PaceInv
<1> QED
  BY <1>1, <1>3 DEF PaceInv, Offering

LEMMA PaceSettle ==
    ASSUME TypeInv, PaceInv, PollSettle
    PROVE  PaceInv'
<1>1. /\ pc = "settle" /\ pc' = "next" /\ tries' = Never /\ lastTx < now
      /\ UNCHANGED <<now, polledAt, probed, info>>
  BY DEF PollSettle, PaceInv
<1>2. now \in Nat /\ lastTx \in Int /\ obdPoll # <<>> /\ polledAt = now /\ probed /\ info = Never
  BY <1>1 DEF TypeInv, BusType, PaceInv
<1>3. CASE pending # NoFrame /\ awake
  <2>1. PICK lat \in Latencies : Transmit(pending.slot, pending.group, lat)
    BY <1>3 DEF PollSettle
  <2>2. pending.slot \in 0..Len(obdPoll) /\ pending.group \in Groups
    BY <1>3 DEF TypeInv, Held, Frames, SetType
  <2>3. Len(obdPoll') = Len(obdPoll) /\ since' = now /\ lastTx' = now /\ pending' = NoFrame
    BY <1>1, <2>1, <2>2, TransmitType DEF PollSettle
  <2>4. obdPoll' # <<>>
    BY <1>2, <2>3 DEF TypeInv, SetType
  <2> QED
    BY <1>1, <1>2, <2>3, <2>4 DEF PaceInv, Offering
<1>4. CASE ~(pending # NoFrame /\ awake)
  <2>1. since' \in {since, Never} /\ pending' \in {pending, NoFrame} /\ UNCHANGED <<obdPoll, lastTx>>
    BY <1>4 DEF PollSettle
  <2>2. since <= lastTx /\ Never <= lastTx /\ (pending # NoFrame => since = Never)
    BY DEF PaceInv, TypeInv, BusType
  <2> QED
    BY <1>1, <1>2, <2>1, <2>2 DEF PaceInv, Offering
<1> QED
  BY <1>3, <1>4

LEMMA PaceScan ==
    ASSUME TypeInv, PaceInv, PollNext
    PROVE  PaceInv'
<1>1. /\ pc = "next" /\ obdPoll # <<>> /\ polledAt = now /\ probed /\ info = Never
      /\ (pending # NoFrame => since = Never) /\ since <= lastTx
      /\ UNCHANGED <<now, obdPoll, pending, since, lastTx, probed, info, polledAt>>
  BY DEF PollNext, PaceInv
<1>2. now \in Nat /\ lastTx \in Int /\ since \in Int
  BY DEF TypeInv, BusType, Past
<1>3. lastTx < now \/ (lastTx = now /\ since = now)
  BY <1>1 DEF PaceInv
<1>4. pc' \in {"next", "idle", "hand"}
  BY <1>1 DEF PollNext
<1>5. Offering' => since = Never /\ pending = NoFrame /\ lastTx < now
  <2>1. CASE tries = Never
    <3>1. Offering' => MayOffer
      BY <1>1, <2>1 DEF PollNext, Offering, Never
    <3> QED
      BY <1>2, <1>3, <3>1 DEF MayOffer, Quiet, Never
  <2>2. CASE tries # Never
    BY <1>1, <2>2 DEF PaceInv, Offering
  <2> QED
    BY <2>1, <2>2
<1>6. pc' = "hand" => /\ hand'.slot \in 1..Len(obdPoll) /\ hand'.group = obdPoll[hand'.slot].group
  <2> SUFFICES ASSUME pc' = "hand"
               PROVE  hand'.slot \in 1..Len(obdPoll) /\ hand'.group = obdPoll[hand'.slot].group
    OBVIOUS
  <2> DEFINE i == 1 + (index % Len(obdPoll))
  <2>1. i \in 1..Len(obdPoll) /\ hand' = [slot |-> i, group |-> obdPoll[i].group, at |-> now]
    BY <1>1 DEF PollNext, TypeInv, SetType
  <2> HIDE DEF i
  <2> QED
    BY <2>1
<1> QED
  BY <1>1, <1>2, <1>3, <1>4, <1>5, <1>6 DEF PaceInv

LEMMA PaceHand ==
    ASSUME TypeInv, PaceInv, PollHand
    PROVE  PaceInv'
<1>1. /\ pc = "hand" /\ pc' = "idle" /\ obdPoll # <<>> /\ polledAt = now /\ probed /\ info = Never
      /\ since = Never /\ pending = NoFrame /\ lastTx < now
      /\ UNCHANGED <<now, probed, info, polledAt, interval, index>>
  BY DEF PollHand, PaceInv, Offering
<1>2. now \in Nat /\ lastTx \in Int /\ Never <= lastTx
  BY DEF TypeInv, BusType
<1>3. CASE awake
  <2>1. PICK lat \in Latencies : Transmit(hand.slot, hand.group, lat)
    BY <1>3 DEF PollHand
  <2>2. hand.slot \in 0..Len(obdPoll) /\ hand.group \in Groups
    BY <1>1 DEF TypeInv, Held, Frames, SetType
  <2>3. Len(obdPoll') = Len(obdPoll) /\ since' = now /\ lastTx' = now /\ pending' = NoFrame
    BY <1>1, <2>1, <2>2, TransmitType
  <2>4. obdPoll' # <<>>
    BY <1>1, <2>3 DEF TypeInv, SetType
  <2> QED
    BY <1>1, <1>2, <2>3, <2>4 DEF PaceInv, Offering
<1>4. CASE ~awake
  <2>1. UNCHANGED <<since, lastTx, obdPoll>>
    BY <1>4 DEF PollHand
  <2> QED
    BY <1>1, <1>2, <2>1 DEF PaceInv, Offering
<1> QED
  BY <1>3, <1>4

\* A control write stops the set between two polls, or replaces it.
LEMMA PaceControl ==
    ASSUME ~Concurrent, TypeInv, PaceInv, Control \/ LinkEdge
    PROVE  PaceInv'
<1>1. pc = "idle" /\ pc' = "idle" /\ UNCHANGED <<now, since, polledAt>>
  BY DEF Control, WriteStop, WriteReset, WriteInfo, WritePollSet, LinkEdge, Writes
<1>2. /\ now \in Nat /\ lastTx \in Int /\ Never <= lastTx /\ since \in Int /\ since <= lastTx
      /\ ProbeStart \in Nat /\ ProbeStart > lastTx /\ Asked \in 1..3 /\ Timeout \in Nat \ {0}
  BY ProbeStartType, AskedType, TimeoutAssumption DEF TypeInv, BusType, Past, PaceInv
<1>3. CASE WriteStop \/ WriteReset
  <2>1. obdPoll' = <<>> /\ pending' = NoFrame /\ UNCHANGED <<lastTx, probed, info>>
    BY <1>3 DEF WriteStop, WriteReset, Stop, Withdrawn
  <2> QED
    BY <1>1, <2>1 DEF PaceInv, Offering
<1>4. CASE LinkEdge
  <2>1. /\ obdPoll' = <<>> /\ pending' = NoFrame /\ UNCHANGED lastTx
        /\ probed' = FALSE /\ info' = Never
    BY <1>4 DEF LinkEdge, Stop, Withdrawn
  <2> QED
    BY <1>1, <1>2, <2>1 DEF PaceInv, Offering
<1>5. CASE WriteInfo
  <2>1. obdPoll' = <<>> /\ pending' = NoFrame
    BY <1>5 DEF WriteInfo, Stop, Withdrawn
  <2>2. \/ lastTx' = ProbeStart + Asked - 1 /\ info' = ProbeStart + Asked
        \/ lastTx' = lastTx /\ info' = ProbeStart + Timeout
    BY <1>5 DEF WriteInfo, ProbeDone
  <2>3. since <= lastTx' /\ lastTx' < info' /\ info' # Never
    BY <1>2, <2>2 DEF Never
  <2> QED
    BY <1>1, <2>1, <2>3 DEF PaceInv, Offering
<1>6. ASSUME NEW p \in PollSets, WritePollSet(p.list, p.ms)
      PROVE  PaceInv'
  <2>1. /\ probed /\ info = Never /\ UNCHANGED <<lastTx, probed, info>>
        /\ pending' = [pending EXCEPT !.slot = 0]
    BY <1>6 DEF WritePollSet, Writes
  <2>2. pending' # NoFrame => pending # NoFrame
    BY <2>1 DEF NoFrame
  <2> QED
    BY <1>1, <2>1, <2>2 DEF PaceInv, Offering
<1> QED
  BY <1>3, <1>4, <1>5, <1>6 DEF Control

LEMMA PaceNext ==
    ASSUME ~Concurrent
    PROVE  TypeInv /\ PaceInv /\ [Next]_vars => PaceInv'
<1> SUFFICES ASSUME TypeInv, PaceInv, [Next]_vars PROVE PaceInv'
  OBVIOUS
<1>1. CASE InfoDue
  <2>1. /\ pc = "idle" /\ info # Never /\ now >= info /\ info' = Never
        /\ UNCHANGED <<now, pc, obdPoll, pending, since, lastTx, probed, polledAt>>
    BY <1>1 DEF InfoDue
  <2>2. now \in Nat /\ lastTx \in Int /\ info \in Int /\ lastTx < info
    BY <2>1 DEF TypeInv, BusType, PaceInv
  <2>3. lastTx < now
    BY <2>1, <2>2
  <2> QED
    BY <2>1, <2>3 DEF PaceInv, Offering
<1>2. CASE Advance
  <2>1. /\ pc = "idle" /\ now' = now + 1
        /\ UNCHANGED <<pc, obdPoll, pending, since, lastTx, probed, info, polledAt>>
    BY <1>2 DEF Advance
  <2>2. now \in Nat /\ lastTx \in Int
    BY DEF TypeInv, BusType
  <2> QED
    BY <2>1, <2>2 DEF PaceInv, Offering
<1>3. CASE Ignition \/ Horizon \/ UNCHANGED vars
  <2>1. UNCHANGED <<now, pc, obdPoll, pending, since, lastTx, probed, info, polledAt, tries, hand>>
    BY <1>3 DEF Ignition, Horizon, vars
  <2> QED
    BY <2>1 DEF PaceInv, Offering
<1> QED
  BY <1>1, <1>2, <1>3, PaceBegin, PaceSettle, PaceScan, PaceHand, PaceControl DEF Next, Poll

LEMMA PaceInvariant ==
    ASSUME ~Concurrent
    PROVE  Spec => [](TypeInv /\ PaceInv)
<1>1. Init => PaceInv
  BY DEF Init, PaceInv, Offering, Never
<1> QED
  BY <1>1, TypeInit, TypeNext, PaceNext, PTL DEF Spec

\* What is on its way answers a request already made, and a mask response comes before the
\* end of its probe.
RxInv == \A a \in rx : a.tx <= lastTx /\ (a.echo = 0 => a.at <= lastTx)

\* The outstanding request is the last one, as long as no probe came after it; none of its
\* answers comes before the bus is free again, which it is after Timeout.
UntilInv ==
    since # Never /\ since = wire.at =>
        wire.until <= since + Timeout /\ \A a \in rx : a.tx = since => a.at >= wire.until

\* The bus is free, or will be before another request can go out, or a straggler freed the
\* loop early; otherwise the loop still waits.
FreeInv ==
    \/ wire.until <= now \/ wire.until <= lastTx + 1 \/ wire.strayed
    \/ since # Never /\ since = wire.at /\ ~echoed

WireInv == RxInv /\ UntilInv /\ FreeInv /\ OneOnTheBus

LEMMA WireType ==
    ASSUME TypeInv
    PROVE  /\ wire.at \in Int /\ wire.until \in Int /\ wire.after \in Int
           /\ wire.strayed \in BOOLEAN /\ wire.excused \in BOOLEAN
           /\ now \in Nat /\ lastTx \in Int /\ since \in Int /\ Timeout \in Nat \ {0}
           /\ \A a \in rx : a.at \in Nat /\ a.tx \in Int
<1>1. wire \in Wires
  BY DEF TypeInv, HistType
<1>2. wire.strayed \in BOOLEAN /\ wire.excused \in BOOLEAN
  BY <1>1 DEF Wires
<1>3. wire.at \in Int /\ wire.until \in Int /\ wire.after \in Int
  BY <1>1 DEF Wires
<1>4. /\ now \in Nat /\ lastTx \in Int /\ since \in Int
      /\ \A a \in rx : a.at \in Nat /\ a.tx \in Int
  BY DEF TypeInv, BusType, Past, Arrivals
<1> QED
  BY <1>2, <1>3, <1>4, TimeoutAssumption

\* Arrivals that are received free the bus only if they may.
LEMMA WireDeliver ==
    ASSUME TypeInv, WireInv, Deliver, rx' = rx \ Due, UNCHANGED <<now, since, lastTx>>
    PROVE  WireInv'
<1> DEFINE x == wire.strayed \/ (since # Never /\ \E a \in Due : Strays(a))
<1>1. wire' = [wire EXCEPT !.strayed = x] /\ wire \in Wires
  BY DEF Deliver, TypeInv, HistType
<1> HIDE DEF x
<1>2. wire'.at = wire.at /\ wire'.until = wire.until /\ wire'.after = wire.after
  BY <1>1 DEF Wires
<1>3. (wire'.excused <=> wire.excused) /\ (wire'.strayed <=> x)
  BY <1>1 DEF Wires
<1>4. RxInv' /\ UntilInv'
  BY <1>2 DEF WireInv, RxInv, UntilInv
<1>5. OneOnTheBus'
  BY <1>2, <1>3 DEF WireInv, OneOnTheBus
<1>6. FreeInv'
  <2>1. CASE wire.until <= now \/ wire.until <= lastTx + 1
    BY <1>2, <2>1 DEF FreeInv
  <2>2. CASE wire.strayed
    <3>1. x
      BY <2>2 DEF x
    <3> QED
      BY <1>3, <3>1 DEF FreeInv
  <2>3. CASE since # Never /\ since = wire.at /\ ~echoed
    <3>1. CASE ~echoed'
      BY <1>2, <2>3, <3>1 DEF FreeInv
    <3>2. CASE echoed'
      <4>1. PICK a \in Due : Echoes(a)
        BY <2>3, <3>2, Zenon DEF Deliver
      <4>2. CASE a.tx # since
        <5>1. x
          BY <2>3, <4>1, <4>2, Zenon DEF x, Strays, Echoes
        <5> QED
          BY <1>3, <5>1 DEF FreeInv
      <4>3. CASE a.tx = since
        <5>1. a \in rx /\ a.at <= now
          BY DEF Due
        <5>2. a.at >= wire.until
          BY <2>3, <4>3, <5>1 DEF WireInv, UntilInv
        <5>3. wire.until <= now
          BY <5>1, <5>2, WireType
        <5> QED
          BY <1>2, <5>3 DEF FreeInv
      <4> QED
        BY <4>2, <4>3
    <3> QED
      BY <3>1, <3>2
  <2> QED
    BY <2>1, <2>2, <2>3 DEF WireInv, FreeInv
<1> QED
  BY <1>4, <1>5, <1>6 DEF WireInv

LEMMA WireSame ==
    ASSUME TypeInv, WireInv, UNCHANGED <<lastTx, since, echoed, wire>>, rx' \subseteq rx,
           now' \in {now, now + 1}
    PROVE  WireInv'
<1>1. RxInv' /\ UntilInv' /\ OneOnTheBus'
  BY DEF WireInv, RxInv, UntilInv, OneOnTheBus
<1>2. wire.until <= now => wire.until <= now'
  BY WireType
<1>3. FreeInv'
  BY <1>2 DEF WireInv, FreeInv
<1> QED
  BY <1>1, <1>3 DEF WireInv

\* A request goes out on a free bus.
LEMMA WireTransmit ==
    ASSUME TypeInv, WireInv, NEW i \in 0..Len(obdPoll), NEW g \in Groups, NEW lat \in Latencies,
           Transmit(i, g, lat), now' = now, lastTx < now, since = Never
    PROVE  WireInv'
<1>1. /\ wire' = [at |-> now, until |-> Until(g, lat), after |-> wire.until, strayed |-> FALSE,
                  excused |-> wire.strayed]
      /\ rx' = rx \cup Replies(g, lat) /\ since' = now /\ lastTx' = now /\ echoed' = FALSE
  BY DEF Transmit, Until
<1>2. wire'.at = now /\ wire'.until = Until(g, lat) /\ wire'.after = wire.until
  BY <1>1
<1>3. wire'.excused <=> wire.strayed
  BY <1>1
<1>4. /\ Until(g, lat) \in Nat /\ Until(g, lat) <= now + Timeout
      /\ \A a \in Replies(g, lat) : /\ Until(g, lat) <= a.at /\ a.tx = now /\ a.echo # 0
  BY UntilType, ReplyType, WireType
<1>5. \A a \in rx : a.tx < now /\ a.tx # now /\ (a.echo = 0 => a.at <= now)
  BY WireType DEF WireInv, RxInv
<1>6. RxInv'
  BY <1>1, <1>4, <1>5, WireType DEF RxInv
<1>7. UntilInv'
  BY <1>1, <1>2, <1>4, <1>5 DEF UntilInv
<1>8. FreeInv'
  BY <1>1, <1>2, WireType DEF FreeInv, Never
<1>9. OneOnTheBus'
  <2>1. wire.until <= now \/ wire.until <= lastTx + 1 \/ wire.strayed
    BY DEF WireInv, FreeInv
  <2>2. wire.until <= now \/ wire.strayed
    BY <2>1, WireType
  <2> QED
    BY <1>2, <1>3, <2>2 DEF OneOnTheBus
<1> QED
  BY <1>6, <1>7, <1>8, <1>9 DEF WireInv

\* So does the first request of a probe: it waits for the outstanding one.
LEMMA WireProbe ==
    ASSUME TypeInv, WireInv, since <= lastTx, WriteInfo, awake
    PROVE  WireInv'
<1> DEFINE x == wire.strayed \/ \E a \in Coming : Strays(a)
<1>1. /\ wire' = [at |-> ProbeStart, until |-> ProbeStart + Asked, after |-> wire.until,
                  strayed |-> FALSE, excused |-> x]
      /\ rx' \subseteq rx \cup MaskResponses
      /\ lastTx' = ProbeStart + Asked - 1 /\ since' = since /\ now' = now
  BY DEF WriteInfo, MaskResponses
<1> HIDE DEF x
<1>2. wire'.at = ProbeStart /\ wire'.until = ProbeStart + Asked /\ wire'.after = wire.until
  BY <1>1
<1>3. wire'.excused <=> x
  BY <1>1
<1>4. /\ ProbeStart \in Nat /\ ProbeStart >= now /\ ProbeStart >= Resolved /\ ProbeStart > lastTx
      /\ Asked \in 1..3 /\ Resolved \in Nat
  BY ProbeStartType, AskedType, ResolvedType DEF TypeInv
<1>5. RxInv'
  <2> SUFFICES ASSUME NEW a \in rx \cup MaskResponses
               PROVE  a.tx <= lastTx' /\ (a.echo = 0 => a.at <= lastTx')
    BY <1>1 DEF RxInv
  <2>1. CASE a \in rx
    BY <1>1, <1>4, <2>1, WireType DEF WireInv, RxInv
  <2>2. CASE a \in MaskResponses
    <3>1. a.tx = ProbeStart /\ a.at <= ProbeStart + Asked - 1
      BY <2>2, MaskType DEF TypeInv
    <3> QED
      BY <1>1, <1>4, <3>1
  <2> QED
    BY <2>1, <2>2
<1>6. UntilInv'
  BY <1>1, <1>2, <1>4, WireType DEF UntilInv
<1>7. FreeInv'
  BY <1>1, <1>2, <1>4 DEF FreeInv
<1>8. wire.until <= ProbeStart \/ x
  <2>1. CASE wire.until <= now \/ wire.until <= lastTx + 1
    BY <1>4, <2>1, WireType
  <2>2. CASE wire.strayed
    BY <2>2 DEF x
  <2>3. CASE since # Never /\ since = wire.at
    <3>1. Resolved \in {since + Timeout} \cup {a.at : a \in Coming}
      BY <2>3, ResolvedType DEF TypeInv
    <3>2. CASE Resolved = since + Timeout
      BY <1>4, <2>3, <3>2, WireType DEF WireInv, UntilInv
    <3>3. ASSUME NEW a \in Coming, Resolved = a.at
          PROVE  wire.until <= ProbeStart \/ x
      <4>1. a \in rx /\ Echoes(a)
        BY <3>3 DEF Coming
      <4>2. CASE a.tx = since
        BY <1>4, <2>3, <3>3, <4>1, <4>2, WireType DEF WireInv, UntilInv
      <4>3. CASE a.tx # since
        BY <4>1, <4>3, Zenon DEF x, Strays, Echoes
      <4> QED
        BY <4>2, <4>3
    <3> QED
      BY <3>1, <3>2, <3>3
  <2> QED
    BY <2>1, <2>2, <2>3 DEF WireInv, FreeInv
<1>9. OneOnTheBus'
  BY <1>2, <1>3, <1>8 DEF OneOnTheBus
<1> QED
  BY <1>5, <1>6, <1>7, <1>9 DEF WireInv

LEMMA WireSettle ==
    ASSUME TypeInv, PaceInv, WireInv, PollSettle
    PROVE  WireInv'
<1>1. CASE pending # NoFrame /\ awake
  <2>1. PICK lat \in Latencies : Transmit(pending.slot, pending.group, lat)
    BY <1>1 DEF PollSettle
  <2>2. pending.slot \in 0..Len(obdPoll) /\ pending.group \in Groups
    BY <1>1 DEF TypeInv, Held, Frames, SetType
  <2>3. lastTx < now /\ since = Never /\ now' = now
    BY <1>1 DEF PaceInv, PollSettle
  <2> QED
    BY <2>1, <2>2, <2>3, WireTransmit
<1>2. CASE ~(pending # NoFrame /\ awake)
  <2>1. /\ UNCHANGED <<now, lastTx, echoed, wire, rx>>
        /\ since' = IF since # Never /\ Released THEN Never ELSE since
    BY <1>2 DEF PollSettle
  <2>2. CASE since' = since
    BY <2>1, <2>2, WireSame
  <2>3. CASE since # Never /\ Released /\ since' = Never
    <3>1. RxInv' /\ UntilInv' /\ OneOnTheBus'
      BY <2>1, <2>3 DEF WireInv, RxInv, UntilInv, OneOnTheBus
    <3>2. ~echoed /\ since = wire.at => wire.until <= now
      BY <2>3, WireType DEF Released, WireInv, UntilInv
    <3>3. FreeInv'
      BY <2>1, <3>2 DEF WireInv, FreeInv
    <3> QED
      BY <3>1, <3>3 DEF WireInv
  <2> QED
    BY <2>1, <2>2, <2>3
<1> QED
  BY <1>1, <1>2

LEMMA WireHand ==
    ASSUME TypeInv, PaceInv, WireInv, PollHand
    PROVE  WireInv'
<1>1. CASE awake
  <2>1. PICK lat \in Latencies : Transmit(hand.slot, hand.group, lat)
    BY <1>1 DEF PollHand
  <2>2. hand.slot \in 0..Len(obdPoll) /\ hand.group \in Groups
    BY DEF TypeInv, Held, Frames, SetType, PollHand
  <2>3. lastTx < now /\ since = Never /\ now' = now
    BY <1>1 DEF PaceInv, PollHand, Offering
  <2> QED
    BY <2>1, <2>2, <2>3, WireTransmit
<1>2. CASE ~awake
  BY <1>2, WireSame DEF PollHand
<1> QED
  BY <1>1, <1>2

LEMMA WireNext ==
    ASSUME ~Concurrent
    PROVE  TypeInv /\ PaceInv /\ WireInv /\ [Next]_vars => WireInv'
<1> SUFFICES ASSUME TypeInv, PaceInv, WireInv, [Next]_vars PROVE WireInv'
  OBVIOUS
<1>1. CASE PollBegin
  BY <1>1, WireDeliver DEF PollBegin
<1>2. CASE PollNext \/ InfoDue \/ Advance \/ Ignition \/ Horizon \/ UNCHANGED vars
  BY <1>2, WireSame DEF PollNext, InfoDue, Advance, Ignition, Horizon, vars
<1>3. CASE WriteReset \/ LinkEdge \/ \E p \in PollSets : WritePollSet(p.list, p.ms)
  BY <1>3, WireSame DEF WriteReset, LinkEdge, WritePollSet
<1>4. CASE WriteStop
  BY <1>4, WireDeliver DEF WriteStop
<1>5. CASE WriteInfo /\ ~awake
  BY <1>5, WireDeliver DEF WriteInfo
<1>6. CASE WriteInfo /\ awake
  BY <1>6, WireProbe DEF PaceInv
<1> QED
  BY <1>1, <1>2, <1>3, <1>4, <1>5, <1>6, WireSettle, WireHand DEF Next, Poll, Control

LEMMA WireInvariant ==
    ASSUME ~Concurrent
    PROVE  Spec => [](TypeInv /\ PaceInv /\ WireInv)
<1>1. Init => WireInv
  BY DEF Init, WireInv, RxInv, UntilInv, FreeInv, OneOnTheBus, Never
<1> QED
  BY <1>1, PaceInvariant, WireNext, PTL DEF Spec

\* No request meets one the car has not answered and that is not Timeout old, whatever the
\* cars, the latencies and the timeout, across stops, replacements, probes and link edges,
\* unless a straggler echoed it.  Assumed: control writes fall between polls.
THEOREM OneRequestOnTheBus == ASSUME ~Concurrent PROVE Spec => []OneOnTheBus
<1>1. WireInv => OneOnTheBus
  BY DEF WireInv
<1> QED
  BY <1>1, WireInvariant, PTL

\* The answer to OBD_INFO leaves after the last of the probe's requests and of the mask
\* responses.
THEOREM InfoWaitsForTheProbe == ASSUME ~Concurrent PROVE Spec => InfoWhenComplete
<1> DEFINE Step == pc = "idle" /\ info # Never /\ info' = Never /\ probed' =>
                      now > lastTx /\ \A a \in rx : a.echo = 0 => a.at <= now
<1>1. TypeInv /\ PaceInv /\ WireInv /\ [Next]_vars => Step
  <2> SUFFICES ASSUME TypeInv, PaceInv, WireInv, [Next]_vars,
                      info # Never, info' = Never, probed'
               PROVE  now > lastTx /\ \A a \in rx : a.echo = 0 => a.at <= now
    OBVIOUS
  <2>1. ~LinkEdge
    BY DEF LinkEdge
  <2>2. ~Control
    <3>1. Control => Writes
      <4>1. (WriteStop => Writes) /\ (WriteReset => Writes)
        BY Zenon DEF WriteStop, WriteReset
      <4>3. WriteInfo => Writes
        BY DEF WriteInfo, Writes
      <4>2. \A p \in PollSets : WritePollSet(p.list, p.ms) => Writes
        BY Zenon DEF WritePollSet
      <4> QED
        BY <4>1, <4>2, <4>3, Zenon DEF Control
    <3> QED
      BY <3>1 DEF Writes
  <2>3. ~Poll /\ ~Advance /\ ~Ignition /\ ~Horizon /\ ~UNCHANGED vars
    BY DEF Poll, PollBegin, PollSettle, PollNext, PollHand, Advance, Ignition, Horizon, vars
  <2>4. now >= info
    BY <2>1, <2>2, <2>3 DEF Next, InfoDue
  <2>5. lastTx < info /\ info \in Int /\ now \in Nat /\ lastTx \in Int
    BY DEF PaceInv, TypeInv, BusType
  <2> QED
    BY <2>4, <2>5, WireType DEF WireInv, RxInv
<1>2. InfoWhenComplete <=> [][Step]_vars
  BY DEF InfoWhenComplete
<1> HIDE DEF Step
<1> QED
  BY <1>1, <1>2, WireInvariant, PTL DEF Spec

-----------------------------------------------------------------------------
(* The schedule: the cursor only ever advances, so the entries still to come,   *)
(* and those passed in this scan, are its places before and after its own.     *)

\* The tuples of variables, to be opened wherever an action leaves them alone.
USE DEF clockVars, setVars, wireVars, suspendVars, probeVars, localVars, countVars, histVars

-----------------------------------------------------------------------------
(* The cursor *)

\* The entry the cursor stands at when it has advanced j times.
At(j) == 1 + (j % Len(obdPoll))

LEMMA ModIs ==
    ASSUME NEW n \in Nat \ {0}, NEW q \in Nat, NEW r \in 0..(n - 1)
    PROVE  (n * q + r) % n = r
<1>1. n * q \in Nat
  OBVIOUS
<1> QED
  BY <1>1, SMTT(20)

LEMMA ModOf ==
    ASSUME NEW n \in Nat \ {0}, NEW c \in Nat
    PROVE  c % n \in 0..(n - 1) /\ c \div n \in Nat /\ c = n * (c \div n) + (c % n)
  OBVIOUS

\* One round from any place meets every entry.
LEMMA Round ==
    ASSUME NEW n \in Nat \ {0}, NEW c \in Nat, NEW i \in 1..n
    PROVE  \E j \in c..(c + n - 1) : 1 + (j % n) = i
<1> DEFINE q == c \div n
           r == c % n
<1>1. q \in Nat /\ r \in 0..(n - 1) /\ c = n * q + r
  BY ModOf
<1> HIDE DEF q, r
<1>2. n * q \in Nat /\ n * (q + 1) = n * q + n
  BY <1>1
<1>3. CASE i - 1 >= r
  <2> DEFINE j == n * q + (i - 1)
  <2>1. j % n = i - 1
    BY <1>1, ModIs
  <2>2. j \in c..(c + n - 1)
    BY <1>1, <1>2, <1>3
  <2> HIDE DEF j
  <2> QED
    BY <2>1, <2>2
<1>4. CASE i - 1 < r
  <2> DEFINE j == n * (q + 1) + (i - 1)
  <2>1. j % n = i - 1
    <3>1. q + 1 \in Nat /\ i - 1 \in 0..(n - 1)
      BY <1>1
    <3> QED
      BY <3>1, ModIs
  <2>2. j \in c..(c + n - 1)
    BY <1>1, <1>2, <1>4
  <2> HIDE DEF j
  <2> QED
    BY <2>1, <2>2
<1> QED
  BY <1>1, <1>3, <1>4

LEMMA SetSize ==
    ASSUME TypeInv, obdPoll # <<>>
    PROVE  /\ Len(obdPoll) \in Nat \ {0} /\ index \in Nat
           /\ \A j \in Nat : At(j) \in 1..Len(obdPoll)
           /\ \A i \in 1..Len(obdPoll) : obdPoll[i] \in Entries
<1>1. obdPoll \in Seq(Entries) /\ index \in Nat
  BY DEF TypeInv, SetType
<1>2. Len(obdPoll) \in Nat \ {0} /\ \A i \in 1..Len(obdPoll) : obdPoll[i] \in Entries
  BY <1>1
<1>3. ASSUME NEW j \in Nat PROVE At(j) \in 1..Len(obdPoll)
  <2>1. j % Len(obdPoll) \in 0..(Len(obdPoll) - 1)
    BY <1>2, ModOf
  <2> QED
    BY <1>2, <2>1 DEF At
<1> QED
  BY <1>1, <1>2, <1>3

\* A step of the scan looks at the entry under the cursor.
LEMMA ScanStep ==
    ASSUME TypeInv, PaceInv, PollNext, tries > 0
    PROVE  /\ index' = index + 1
           /\ \/ /\ DueEntry(obdPoll[At(index)]) /\ pc' = "hand"
                 /\ hand' = [slot |-> At(index), group |-> obdPoll[At(index)].group, at |-> now]
              \/ /\ ~DueEntry(obdPoll[At(index)]) /\ pc' = "next" /\ tries' = tries - 1
                 /\ hand' = hand
<1>1. obdPoll # <<>> /\ pc = "next"
  BY DEF PaceInv, PollNext
<1> DEFINE i == 1 + (index % Len(obdPoll))
<1>2. i = At(index)
  BY DEF At
<1>3. tries # Never /\ tries # 0
  BY DEF Never
<1>4. /\ index' = index + 1
      /\ IF DueEntry(obdPoll[i])
           THEN hand' = [slot |-> i, group |-> obdPoll[i].group, at |-> now] /\ pc' = "hand"
           ELSE tries' = tries - 1 /\ UNCHANGED <<pc, hand>>
  BY <1>1, <1>3 DEF PollNext
<1> HIDE DEF i
<1> QED
  BY <1>1, <1>2, <1>4

-----------------------------------------------------------------------------
(* No turn is missed *)

\* A request still outstanding after the settling is young, and every entry passed in this
\* scan was not due.
ScanInv ==
    pc = "next" =>
        /\ since # Never => now - since < Timeout
        /\ tries # Never =>
              /\ tries \in 0..Len(obdPoll) /\ index >= Len(obdPoll) - tries
              /\ \A j \in (index - (Len(obdPoll) - tries))..(index - 1) : ~DueEntry(obdPoll[At(j)])

LEMMA ScanSettle ==
    ASSUME TypeInv, PollSettle
    PROVE  ScanInv'
<1>1. tries' = Never /\ now' = now /\ now \in Nat /\ Timeout \in Nat \ {0} /\ since \in Int
  BY WireType DEF PollSettle
<1>2. since' # Never => now - since' < Timeout
  <2>1. CASE since' = now
    BY <1>1, <2>1
  <2>2. CASE since' = IF since # Never /\ Released THEN Never ELSE since
    BY <1>1, <2>2 DEF Released
  <2> QED
    BY <2>1, <2>2 DEF PollSettle, Transmit
<1> QED
  BY <1>1, <1>2 DEF ScanInv

LEMMA ScanNext ==
    ASSUME TypeInv, PaceInv, ScanInv, PollNext
    PROVE  ScanInv'
<1>1. pc = "next" /\ obdPoll # <<>> /\ UNCHANGED <<now, since, obdPoll>>
  BY DEF PollNext, PaceInv
<1> DEFINE n == Len(obdPoll)
<1>2. n \in Nat \ {0} /\ index \in Nat /\ tries \in Int /\ Never <= tries
  BY <1>1, SetSize DEF TypeInv, LoopType
<1>3. \A e : DueEntry(e)' <=> DueEntry(e)
  BY <1>1 DEF DueEntry
<1>4. \A j : At(j)' = At(j)
  BY <1>1 DEF At
<1>5. (since # Never => now - since < Timeout)'
  BY <1>1 DEF ScanInv
<1>6. CASE tries = Never
  <2>1. pc' = "next" => tries' = n /\ index' = index
    BY <1>1, <1>6 DEF PollNext, Never
  <2> QED
    BY <1>1, <1>2, <1>5, <2>1 DEF ScanInv
<1>7. CASE tries = 0
  <2>1. pc' = "idle"
    BY <1>7 DEF PollNext, Never
  <2> QED
    BY <2>1 DEF ScanInv
<1>8. CASE tries > 0
  <2>1. /\ tries \in 0..n /\ index >= n - tries
        /\ \A j \in (index - (n - tries))..(index - 1) : ~DueEntry(obdPoll[At(j)])
    BY <1>1, <1>8 DEF ScanInv, Never
  <2> SUFFICES ASSUME pc' = "next" PROVE ScanInv'
    BY DEF ScanInv
  <2>2. index' = index + 1 /\ ~DueEntry(obdPoll[At(index)]) /\ tries' = tries - 1
    BY <1>8, ScanStep
  <2>3. /\ tries' \in 0..n /\ index' >= n - tries'
        /\ index' - (n - tries') = index - (n - tries) /\ index' - 1 = index
    BY <1>2, <1>8, <2>1, <2>2
  <2>4. \A j \in (index - (n - tries))..index : ~DueEntry(obdPoll[At(j)])
    <3> SUFFICES ASSUME NEW j \in (index - (n - tries))..index PROVE ~DueEntry(obdPoll[At(j)])
      OBVIOUS
    <3>1. CASE j = index
      BY <2>2, <3>1
    <3>2. CASE j # index
      BY <1>2, <2>1, <3>2
    <3> QED
      BY <3>1, <3>2
  <2> QED
    BY <1>1, <1>3, <1>4, <1>5, <2>3, <2>4 DEF ScanInv, At, DueEntry
<1> QED
  BY <1>2, <1>6, <1>7, <1>8 DEF Never
LEMMA ScanKeeps == ASSUME ~Concurrent PROVE TypeInv /\ PaceInv /\ ScanInv /\ [Next]_vars => ScanInv'
<1> SUFFICES ASSUME TypeInv, PaceInv, ScanInv, [Next]_vars PROVE ScanInv'
  OBVIOUS
<1>1. CASE PollBegin \/ PollHand \/ Advance \/ LinkEdge
  BY <1>1 DEF PollBegin, PollHand, Advance, LinkEdge, ScanInv
<1>2. CASE Control
  BY <1>2 DEF Control, WriteStop, WriteReset, WriteInfo, WritePollSet, Writes, ScanInv
<1>3. CASE InfoDue \/ Ignition \/ Horizon \/ UNCHANGED vars
  <2>1. UNCHANGED <<now, since, obdPoll, index, pc, tries>>
    BY <1>3 DEF InfoDue, Ignition, Horizon, vars
  <2>2. (\A e : DueEntry(e)' <=> DueEntry(e)) /\ (\A j : At(j)' = At(j))
    BY <2>1 DEF DueEntry, At
  <2> QED
    BY <2>1, <2>2 DEF ScanInv, DueEntry, At
<1> QED
  BY <1>1, <1>2, <1>3, ScanSettle, ScanNext DEF Next, Poll

LEMMA ScanInvariant ==
    ASSUME ~Concurrent
    PROVE  Spec => [](TypeInv /\ PaceInv /\ ScanInv)
<1>1. Init => ScanInv
  BY DEF Init, ScanInv
<1> QED
  BY <1>1, PaceInvariant, ScanKeeps, PTL DEF Spec

\* After a scan that found nothing, nothing is due.
LEMMA ScanEnds ==
    ASSUME TypeInv, PaceInv, ScanInv, pc = "next", tries = 0
    PROVE  \A i \in 1..Len(obdPoll) : ~DueEntry(obdPoll[i])
<1> DEFINE n == Len(obdPoll)
<1>1. n \in Nat \ {0} /\ index \in Nat /\ index - n \in Nat
      /\ \A j \in (index - n)..(index - 1) : ~DueEntry(obdPoll[At(j)])
  <2>1. n \in Nat \ {0} /\ index \in Nat
    BY SetSize DEF PaceInv
  <2>2. /\ index >= n - 0
        /\ \A j \in (index - (n - 0))..(index - 1) : ~DueEntry(obdPoll[At(j)])
    BY DEF ScanInv, Never
  <2> QED
    BY <2>1, <2>2
<1> SUFFICES ASSUME NEW i \in 1..n PROVE ~DueEntry(obdPoll[i])
  OBVIOUS
<1> HIDE DEF n
<1>2. PICK j \in (index - n)..(index - n + n - 1) : 1 + (j % n) = i
  BY <1>1, Round
<1>3. j \in (index - n)..(index - 1) /\ At(j) = i
  BY <1>1, <1>2 DEF At, n
<1> QED
  BY <1>1, <1>3

\* A poll that ends without a request on the bus or pending has a reason that stands at its
\* end: no turn is missed, whatever the set, the spacing, the latencies and the timeout.
THEOREM TurnsAreTaken == ASSUME ~Concurrent PROVE Spec => NoMissedTurn
<1> DEFINE Ends == pc # "idle" /\ pc' = "idle"
           Reason == \/ lastTx' = now \/ pending' # NoFrame
                     \/ since' # Never /\ now - since' < Timeout
                     \/ lastTx # Never /\ now - lastTx < gap
                     \/ suspendedAt' # Never
                     \/ \A i \in 1..Len(obdPoll) : ~DueEntry(obdPoll[i])
<1>1. TypeInv /\ PaceInv /\ ScanInv /\ [Next]_vars => (Ends => Reason)
  <2> SUFFICES ASSUME TypeInv, PaceInv, ScanInv, [Next]_vars, Ends PROVE Reason
    OBVIOUS
  <2>1. PollNext \/ PollHand
    BY DEF Next, Poll, PollBegin, PollSettle, Control, WriteStop, WriteReset, WriteInfo,
           WritePollSet, LinkEdge, InfoDue, Advance, Ignition, Horizon, vars
  <2>2. CASE PollHand
    <3>1. CASE awake
      BY <2>2, <3>1 DEF PollHand, Transmit
    <3>2. CASE ~awake
      <4>1. pending' = hand /\ hand # NoFrame
        BY <2>2, <3>2 DEF PollHand, TypeInv
      <4> QED
        BY <4>1
    <3> QED
      BY <3>1, <3>2
  <2>3. CASE PollNext
    <3>1. pc = "next" /\ UNCHANGED <<lastTx, pending, since, suspendedAt>>
      BY <2>3 DEF PollNext
    <3>2. CASE tries = 0
      BY <3>1, <3>2, ScanEnds
    <3>3. CASE tries = Never /\ ~MayOffer
      <4>1. since # Never => now - since < Timeout
        BY <3>1 DEF ScanInv
      <4>2. now \in Nat /\ lastTx \in Int /\ gap \in Nat
        BY DEF TypeInv, BusType, LoopType
      <4> QED
        BY <3>1, <3>3, <4>1, <4>2 DEF MayOffer, Quiet, Spaced
    <3> QED
      BY <2>3, <3>2, <3>3 DEF PollNext
  <2> QED
    BY <2>1, <2>2, <2>3
<1>2. NoMissedTurn <=> [][Ends => Reason]_vars
  BY DEF NoMissedTurn
<1> HIDE DEF Ends, Reason
<1> QED
  BY <1>1, <1>2, ScanInvariant, PTL DEF Spec
-----------------------------------------------------------------------------
(* No group is starved *)

\* What a transmission or a handing over leaves of the schedule.
LEMMA LayoutStays ==
    ASSUME TypeInv, PollSettle \/ PollHand
    PROVE  /\ Len(obdPoll') = Len(obdPoll) /\ index' = index
           /\ \A i \in 1..Len(obdPoll) : obdPoll'[i].group = obdPoll[i].group
                                         /\ obdPoll'[i].min = obdPoll[i].min
<1>1. index' = index /\ now \in Nat /\ SetType
  BY DEF PollSettle, PollHand, TypeInv, BusType
<1>2. CASE obdPoll' = obdPoll
  BY <1>1, <1>2
<1>3. ASSUME NEW f \in {pending, hand}, f # NoFrame, NEW lat, Transmit(f.slot, f.group, lat)
      PROVE  /\ Len(obdPoll') = Len(obdPoll)
             /\ \A i \in 1..Len(obdPoll) : obdPoll'[i].group = obdPoll[i].group
                                           /\ obdPoll'[i].min = obdPoll[i].min
  <2>1. f.slot \in 0..Len(obdPoll)
    BY <1>3 DEF TypeInv, Held, Frames, SetType
  <2>2. obdPoll' = IF f.slot = 0 THEN obdPoll ELSE [obdPoll EXCEPT ![f.slot].last = now]
    BY <1>3 DEF Transmit
  <2> QED
    BY <1>1, <2>1, <2>2, StampType
<1>4. pc = "hand" => hand # NoFrame
  BY DEF TypeInv
<1> QED
  BY <1>1, <1>2, <1>3, <1>4 DEF PollSettle, PollHand

\* The cursor comes to entry i before its group has waited a round; while a request is
\* handed over, the groups it passes are about to wait one turn more.
Ahead(i, w) == \E j \in Nat : index <= j /\ At(j) = i /\ w + (j - index) < Len(obdPoll)
TurnInv ==
    \A i \in 1..Len(obdPoll) : obdPoll[i].min = 0 =>
        /\ waits[obdPoll[i].group] < Len(obdPoll)
        /\ pc # "hand" => Ahead(i, waits[obdPoll[i].group])
        /\ pc = "hand" /\ obdPoll[i].group # hand.group => Ahead(i, waits[obdPoll[i].group] + 1)

\* A group that has not waited comes within a round.
LEMMA FreshRound ==
    ASSUME NEW list \in Seq(Entries), NEW c \in Nat, NEW i \in 1..Len(list)
    PROVE  \E j \in Nat : c <= j /\ 1 + (j % Len(list)) = i /\ 0 + (j - c) < Len(list)
<1> DEFINE n == Len(list)
<1>1. n \in Nat \ {0} /\ i \in 1..n
  OBVIOUS
<1> HIDE DEF n
<1>2. PICK j \in c..(c + n - 1) : 1 + (j % n) = i
  BY <1>1, Round
<1>3. j \in Nat /\ c <= j /\ 0 + (j - c) < n
  BY <1>1, <1>2
<1> QED
  BY <1>2, <1>3 DEF n

LEMMA TurnSame ==
    ASSUME TypeInv, TurnInv, UNCHANGED <<index, waits>>, pc # "hand", pc' # "hand",
           Len(obdPoll') = Len(obdPoll),
           \A i \in 1..Len(obdPoll) : obdPoll'[i].group = obdPoll[i].group
                                      /\ obdPoll'[i].min = obdPoll[i].min
    PROVE  TurnInv'
<1>1. \A j : At(j)' = At(j)
  BY DEF At
<1>2. ASSUME NEW i \in 1..Len(obdPoll), Ahead(i, waits[obdPoll[i].group])
      PROVE  Ahead(i, waits[obdPoll[i].group])'
  BY <1>1, <1>2 DEF Ahead, At
<1> QED
  BY <1>2 DEF TurnInv

LEMMA TurnScan ==
    ASSUME TypeInv, PaceInv, TurnInv, PollNext
    PROVE  TurnInv'
<1>1. pc = "next" /\ obdPoll # <<>> /\ UNCHANGED <<waits, obdPoll>>
  BY DEF PollNext, PaceInv
<1>2. /\ Len(obdPoll) \in Nat \ {0} /\ index \in Nat /\ waits \in [Groups -> Nat]
      /\ \A i \in 1..Len(obdPoll) : obdPoll[i] \in Entries /\ waits[obdPoll[i].group] \in Nat
  <2>1. /\ Len(obdPoll) \in Nat \ {0} /\ index \in Nat /\ waits \in [Groups -> Nat]
        /\ \A i \in 1..Len(obdPoll) : obdPoll[i] \in Entries
    BY <1>1, SetSize DEF TypeInv, HistType
  <2> QED
    BY <2>1 DEF Entries
<1>3. CASE index' = index /\ pc' # "hand"
  BY <1>1, <1>3, TurnSame
<1>4. CASE ~(index' = index /\ pc' # "hand")
  <2>1. tries > 0
    BY <1>1, <1>4 DEF PollNext
  <2>2. index' = index + 1 /\ (pc' = "hand" <=> DueEntry(obdPoll[At(index)]))
        /\ (pc' = "hand" => hand'.group = obdPoll[At(index)].group)
    BY <2>1, ScanStep
  <2>3. ASSUME NEW i \in 1..Len(obdPoll), obdPoll[i].min = 0, i # At(index)
        PROVE  Ahead(i, waits[obdPoll[i].group] + 1)'
    <3>1. PICK j \in Nat : /\ index <= j /\ At(j) = i
                           /\ waits[obdPoll[i].group] + (j - index) < Len(obdPoll)
      BY <1>1, <2>3 DEF TurnInv, Ahead
    <3>2. j # index
      BY <2>3, <3>1
    <3>3. index + 1 <= j /\ waits[obdPoll[i].group] + 1 + (j - (index + 1)) < Len(obdPoll)
      BY <1>2, <3>1, <3>2
    <3>4. At(j)' = i
      BY <1>1, <3>1 DEF At
    <3> QED
      BY <1>1, <2>2, <3>3, <3>4 DEF Ahead
  <2>4. ASSUME NEW i \in 1..Len(obdPoll), Ahead(i, waits[obdPoll[i].group] + 1)'
        PROVE  Ahead(i, waits[obdPoll[i].group])'
    <3>1. PICK j \in Nat : /\ index' <= j /\ At(j)' = i
                           /\ waits[obdPoll[i].group] + 1 + (j - index') < Len(obdPoll)
      BY <1>1, <2>4 DEF Ahead
    <3>2. index' \in Nat /\ waits[obdPoll[i].group] \in Nat
      BY <1>2, <2>2
    <3>3. waits[obdPoll[i].group] + (j - index') < Len(obdPoll)
      BY <1>2, <3>1, <3>2
    <3> QED
      BY <1>1, <3>1, <3>3 DEF Ahead
  <2>5. \A i \in 1..Len(obdPoll) : obdPoll[i].min = 0 => waits[obdPoll[i].group] < Len(obdPoll)
    BY DEF TurnInv
  <2>6. \A i \in 1..Len(obdPoll) : obdPoll[i].min = 0 /\ pc' # "hand" => i # At(index)
    BY <2>2 DEF DueEntry
  <2>7. \A i \in 1..Len(obdPoll) : pc' = "hand" /\ obdPoll[i].group # hand'.group => i # At(index)
    BY <2>2
  <2> QED
    BY <1>1, <2>3, <2>4, <2>5, <2>6, <2>7 DEF TurnInv
<1> QED
  BY <1>3, <1>4

LEMMA TurnHand ==
    ASSUME TypeInv, TypeInv', TurnInv, PollHand
    PROVE  TurnInv'
<1>1. /\ pc = "hand" /\ pc' = "idle"
      /\ waits' = [g \in Groups |-> IF g = hand.group THEN 0 ELSE waits[g] + 1]
  BY DEF PollHand
<1>2. /\ Len(obdPoll') = Len(obdPoll) /\ index' = index
      /\ \A i \in 1..Len(obdPoll) : obdPoll'[i].group = obdPoll[i].group
                                    /\ obdPoll'[i].min = obdPoll[i].min
  BY LayoutStays
<1>3. \A i \in 1..Len(obdPoll') : Ahead(i, 0)'
  <2>1. obdPoll' \in Seq(Entries) /\ index' \in Nat
    BY DEF TypeInv, SetType
  <2> QED
    BY <2>1, FreshRound DEF Ahead, At
<1>4. ASSUME NEW i \in 1..Len(obdPoll), obdPoll[i].min = 0
      PROVE  waits'[obdPoll[i].group] < Len(obdPoll) /\ Ahead(i, waits[obdPoll[i].group])'
  <2> DEFINE g == obdPoll[i].group
  <2>1. g \in Groups /\ waits[g] \in Nat /\ Len(obdPoll) \in Nat \ {0} /\ index \in Nat
    <3>1. obdPoll \in Seq(Entries) /\ waits \in [Groups -> Nat]
      BY DEF TypeInv, SetType, HistType
    <3>2. obdPoll[i] \in Entries /\ obdPoll # <<>>
      BY <3>1
    <3> QED
      BY <3>1, <3>2, SetSize DEF Entries
  <2>2. CASE g = hand.group
    <3>1. waits'[g] = 0
      BY <1>1, <2>1, <2>2
    <3>2. Ahead(i, 0)'
      BY <1>2, <1>3
    <3> QED
      BY <1>2, <2>1, <3>1, <3>2 DEF Ahead
  <2>3. CASE g # hand.group
    <3>1. waits'[g] = waits[g] + 1
      BY <1>1, <2>1, <2>3
    <3>2. PICK j \in Nat : index <= j /\ At(j) = i /\ waits[g] + 1 + (j - index) < Len(obdPoll)
      BY <1>1, <1>4, <2>3 DEF TurnInv, Ahead
    <3>3. At(j)' = i
      BY <1>2, <3>2 DEF At
    <3>4. waits'[g] < Len(obdPoll) /\ waits'[g] + (j - index) < Len(obdPoll)
      BY <2>1, <3>1, <3>2
    <3> QED
      BY <1>2, <3>2, <3>3, <3>4 DEF Ahead
  <2> QED
    BY <2>2, <2>3
<1> QED
  BY <1>1, <1>2, <1>4 DEF TurnInv

\* A replacement leaves the cursor; one that changes the schedule starts the waiting afresh.
LEMMA TurnReplace ==
    ASSUME ~Concurrent, TypeInv, TypeInv', TurnInv, NEW p \in PollSets, WritePollSet(p.list, p.ms)
    PROVE  TurnInv'
<1>1. /\ pc = "idle" /\ pc' = "idle" /\ index' = index /\ obdPoll' = Carried(p.list)
      /\ waits' = IF Layout(obdPoll) = p.list THEN waits ELSE [g \in Groups |-> 0]
  BY DEF WritePollSet, Writes, CursorKept
<1>2. /\ Len(obdPoll') = Len(p.list) /\ Len(p.list) \in Nat \ {0}
      /\ \A i \in 1..Len(p.list) : obdPoll'[i].group = p.list[i].group
                                   /\ obdPoll'[i].min = p.list[i].min
  BY <1>1, CarriedType DEF TypeInv, BusType
<1>3. CASE Layout(obdPoll) = p.list
  <2>1. Len(obdPoll) = Len(p.list)
    BY <1>3 DEF Layout, TypeInv, SetType
  <2>2. \A i \in 1..Len(obdPoll) : p.list[i].group = obdPoll[i].group /\ p.list[i].min = obdPoll[i].min
    BY <1>3 DEF Layout
  <2> QED
    BY <1>1, <1>2, <1>3, <2>1, <2>2, TurnSame
<1>4. CASE waits' = [g \in Groups |-> 0]
  <2>1. \A i \in 1..Len(obdPoll') : Ahead(i, 0)'
    <3>1. obdPoll' \in Seq(Entries) /\ index' \in Nat
      BY DEF TypeInv, SetType
    <3> QED
      BY <3>1, FreshRound DEF Ahead, At
  <2>2. \A i \in 1..Len(obdPoll') : waits'[obdPoll'[i].group] = 0
    <3>1. \A i \in 1..Len(obdPoll') : obdPoll'[i].group \in Groups
      BY <1>2 DEF Groups
    <3> QED
      BY <1>4, <3>1
  <2> QED
    BY <1>1, <1>2, <2>1, <2>2 DEF TurnInv, Ahead
<1> QED
  BY <1>1, <1>3, <1>4

LEMMA TurnKeeps ==
    ASSUME ~Concurrent
    PROVE  TypeInv /\ PaceInv /\ TurnInv /\ [Next]_vars => TurnInv'
<1> SUFFICES ASSUME TypeInv, PaceInv, TurnInv, [Next]_vars PROVE TurnInv'
  OBVIOUS
<1>0. TypeInv'
  BY TypeNext
<1>1. CASE PollSettle
  <2>1. pc # "hand" /\ pc' # "hand" /\ waits' = waits
    BY <1>1 DEF PollSettle
  <2> QED
    BY <1>1, <2>1, LayoutStays, TurnSame
<1>2. CASE PollBegin \/ InfoDue \/ Advance \/ Ignition
  <2>1. pc # "hand" /\ pc' # "hand" /\ UNCHANGED <<index, obdPoll, waits>>
    BY <1>2 DEF PollBegin, InfoDue, Advance, Ignition
  <2> QED
    BY <2>1, TurnSame
<1>3. CASE Horizon \/ UNCHANGED vars
  <2>1. UNCHANGED <<index, obdPoll, waits, pc, hand>>
    BY <1>3 DEF Horizon, vars
  <2> QED
    BY <2>1 DEF TurnInv, Ahead, At
<1>4. CASE WriteStop \/ WriteReset \/ WriteInfo \/ LinkEdge
  <2>1. obdPoll' = <<>>
    BY <1>4 DEF WriteStop, WriteReset, WriteInfo, LinkEdge, Stop
  <2> QED
    BY <2>1 DEF TurnInv
<1> QED
  BY <1>0, <1>1, <1>2, <1>3, <1>4, TurnScan, TurnHand, TurnReplace DEF Next, Poll, Control

\* A group without a minimum waits less than a round, whatever the set and its replacements,
\* one that arrives faster than the schedule cycles included.
THEOREM GroupsHaveTheirTurn == ASSUME ~Concurrent PROVE Spec => []NoGroupStarved
<1>1. Init => TurnInv
  BY DEF Init, TurnInv
<1>2. TurnInv => NoGroupStarved
  BY DEF TurnInv, NoGroupStarved
<1> QED
  BY <1>1, <1>2, PaceInvariant, TurnKeeps, PTL DEF Spec

-----------------------------------------------------------------------------
(* Minimum intervals *)

\* A request chosen from the set in force, and due.
Place(f) == f.slot # 0 => /\ f.slot \in 1..Len(obdPoll) /\ obdPoll[f.slot].group = f.group
                          /\ DueEntry(obdPoll[f.slot])

\* Entry i's stamp is the last transmission of its group, if the group has no other entry
\* and no frame asks for it that a replacement cut off from the set.
Stamped(i) ==
    LET g == obdPoll[i].group IN
      Once(obdPoll, g) /\ g \notin adrift /\ sent[g] # Never => obdPoll[i].last = sent[g]

MinInv ==
    /\ Place(pending) /\ (pc = "hand" => Place(hand))
    /\ pending # NoFrame /\ pending.slot = 0 => pending.group \in adrift
    /\ \A i \in 1..Len(obdPoll) : Stamped(i)

LEMMA OnceSame ==
    ASSUME NEW s, NEW u, Len(s) \in Nat, Len(s) = Len(u),
           \A i \in 1..Len(s) : s[i].group = u[i].group, NEW g
    PROVE  Once(s, g) <=> Once(u, g)
<1>1. {i \in 1..Len(s) : s[i].group = g} = {i \in 1..Len(u) : u[i].group = g}
  OBVIOUS
<1> QED
  BY <1>1 DEF Once

\* The one place of a group that has one.
LEMMA OnlyPlace ==
    ASSUME NEW s, Len(s) \in Nat,
           NEW i \in 1..Len(s), NEW j \in 1..Len(s),
           Once(s, s[i].group), s[j].group = s[i].group
    PROVE  i = j
  BY OnceIs

\* In a list that names a group once, its occurrence is the first.
LEMMA FirstOccurrence ==
    ASSUME NEW s, Len(s) \in Nat, NEW i \in 1..Len(s),
           Once(s, s[i].group)
    PROVE  Occurrence(s, i) = 1
<1>1. {j \in 1..i : s[j].group = s[i].group} = {i}
  <2>1. i \in 1..i /\ 1..i \subseteq 1..Len(s)
    OBVIOUS
  <2> QED
    BY <2>1, OnlyPlace
<1> QED
  BY <1>1, FS_Singleton DEF Occurrence

LEMMA MinTransmit ==
    ASSUME TypeInv, MinInv, NEW f \in {pending, hand}, f # NoFrame, Place(f),
           NEW lat \in Latencies, Transmit(f.slot, f.group, lat),
           UNCHANGED <<now, interval, index>>, pc' # "hand"
    PROVE  MinInv'
<1>1. f.slot \in 0..Len(obdPoll) /\ f.group \in Groups
  BY DEF TypeInv, Held, Frames, SetType
<1>2. /\ obdPoll' = IF f.slot = 0 THEN obdPoll ELSE [obdPoll EXCEPT ![f.slot].last = now]
      /\ sent' = [sent EXCEPT ![f.group] = now]
      /\ adrift' = IF f.slot = 0 THEN adrift \cup {f.group} ELSE adrift \ {f.group}
      /\ pending' = NoFrame
  BY DEF Transmit
<1>3. /\ obdPoll' \in Seq(Entries) /\ Len(obdPoll') = Len(obdPoll)
      /\ \A j \in 1..Len(obdPoll) :
            /\ obdPoll'[j].group = obdPoll[j].group
            /\ obdPoll'[j].last = IF j = f.slot THEN now ELSE obdPoll[j].last
  BY <1>1, <1>2, StampType DEF TypeInv, BusType
<1>4. obdPoll \in Seq(Entries) /\ sent \in [Groups -> Int]
  BY DEF TypeInv, SetType, HistType
<1>5. ASSUME NEW i \in 1..Len(obdPoll) PROVE Stamped(i)'
  <2> DEFINE g == obdPoll[i].group
  <2>1. obdPoll'[i].group = g /\ (Once(obdPoll', g) <=> Once(obdPoll, g))
    BY <1>3, <1>4, OnceSame
  <2> SUFFICES ASSUME Once(obdPoll, g), g \notin adrift', sent'[g] # Never
               PROVE  obdPoll'[i].last = sent'[g]
    BY <2>1 DEF Stamped
  <2>2. CASE g = f.group
    <3>1. f.slot # 0 /\ f.slot \in 1..Len(obdPoll) /\ obdPoll[f.slot].group = g
      BY <1>2, <2>2 DEF Place
    <3>2. i = f.slot
      BY <1>4, <3>1, OnlyPlace
    <3>3. sent'[g] = now
      BY <1>1, <1>2, <1>4, <2>2
    <3> QED
      BY <1>3, <3>2, <3>3
  <2>3. CASE g # f.group
    <3>1. sent'[g] = sent[g] /\ g \notin adrift
      BY <1>1, <1>2, <1>4, <2>3
    <3>2. i # f.slot
      BY <1>1, <2>3 DEF Place
    <3>3. obdPoll'[i].last = obdPoll[i].last
      BY <1>3, <3>2
    <3> QED
      BY <3>1, <3>3 DEF MinInv, Stamped
  <2> QED
    BY <2>2, <2>3
<1>6. Place(pending)' /\ pending' = NoFrame
  BY <1>2 DEF Place, NoFrame
<1> QED
  BY <1>3, <1>5, <1>6 DEF MinInv

\* An entry that is due stays due while time passes.
LEMMA StaysDue ==
    ASSUME now \in Nat, now' \in {now, now + 1}, NEW e \in Entries, DueEntry(e)
    PROVE  DueEntry(e)'
  BY DEF DueEntry, Entries, Instants

LEMMA MinSame ==
    ASSUME TypeInv, MinInv, UNCHANGED <<obdPoll, sent, adrift>>, now' \in {now, now + 1},
           pending' = pending \/ pending' = NoFrame \/ (pending' = hand /\ pc = "hand" /\ hand.slot # 0),
           pc' = "hand" => Place(hand)'
    PROVE  MinInv'
<1>1. ASSUME NEW f, f \in Frames, Place(f) PROVE Place(f)'
  <2>1. \A i \in 1..Len(obdPoll) : obdPoll[i] \in Entries
    BY DEF TypeInv, SetType
  <2>2. now \in Nat
    BY DEF TypeInv, BusType
  <2>3. f.slot # 0 => DueEntry(obdPoll[f.slot])'
    BY <1>1, <2>1, <2>2, StaysDue DEF Place, DueEntry
  <2> QED
    BY <1>1, <2>3 DEF Place, DueEntry
<1>2. Place(pending) /\ pending \in Frames /\ hand \in Frames /\ (pc = "hand" => Place(hand))
  BY DEF MinInv, TypeInv, Held
<1>3. Place(pending)'
  <2>1. CASE pending' = NoFrame
    BY <2>1 DEF Place, NoFrame
  <2>2. CASE pending' = pending
    BY <1>1, <1>2, <2>2 DEF Place
  <2>3. CASE pending' = hand /\ pc = "hand"
    <3>1. Place(hand) /\ hand \in Frames
      BY <1>2, <2>3
    <3>2. PICK f : f = hand
      OBVIOUS
    <3>3. Place(f)'
      BY <1>1, <3>1, <3>2
    <3> QED
      BY <2>3, <3>2, <3>3 DEF Place
  <2> QED
    BY <2>1, <2>2, <2>3
<1>4. (pending # NoFrame /\ pending.slot = 0 => pending.group \in adrift)'
  BY DEF MinInv
<1>5. \A i \in 1..Len(obdPoll) : Stamped(i)'
  BY DEF MinInv, Stamped, Once
<1> QED
  BY <1>3, <1>4, <1>5 DEF MinInv

LEMMA MinScan ==
    ASSUME TypeInv, PaceInv, MinInv, PollNext
    PROVE  MinInv'
<1>1. UNCHANGED <<now, obdPoll, pending, sent, adrift>>
  BY DEF PollNext
<1>2. pc' = "hand" => Place(hand)'
  <2> SUFFICES ASSUME pc' = "hand" PROVE Place(hand)'
    OBVIOUS
  <2>1. tries > 0
    BY DEF PollNext
  <2>2. DueEntry(obdPoll[At(index)])
        /\ hand' = [slot |-> At(index), group |-> obdPoll[At(index)].group, at |-> now]
    BY <2>1, ScanStep
  <2>3. At(index) \in 1..Len(obdPoll)
    BY SetSize DEF PaceInv, PollNext
  <2>4. PICK a \in 1..Len(obdPoll) : a = At(index)
    BY <2>3
  <2>5. DueEntry(obdPoll[a]) /\ hand'.slot = a /\ hand'.group = obdPoll[a].group
    BY <2>2, <2>4
  <2> QED
    BY <1>1, <2>5 DEF Place, DueEntry
<1> QED
  BY <1>1, <1>2, MinSame

\* A stamp is carried to the one entry of its group in the new set.
LEMMA CarriedStamp ==
    ASSUME TypeInv, NEW p \in PollSets, NEW i \in 1..Len(p.list),
           NEW j \in 1..Len(obdPoll), obdPoll[j].group = p.list[i].group,
           Once(p.list, p.list[i].group), Once(obdPoll, p.list[i].group)
    PROVE  Carried(p.list)[i].last = obdPoll[j].last
<1> DEFINE s == p.list
           last == obdPoll[j].last
<1>1. Len(s) \in Nat /\ Len(obdPoll) \in Nat
  BY CarriedType DEF TypeInv, BusType, SetType
<1>2. Occurrence(s, i) = 1 /\ Occurrence(obdPoll, j) = 1
  BY <1>1, FirstOccurrence
<1>3. Matching(s, i) = {j}
  <2>1. j \in Matching(s, i)
    BY <1>2 DEF Matching
  <2>2. ASSUME NEW k \in Matching(s, i) PROVE k = j
    <3>1. k \in 1..Len(obdPoll) /\ obdPoll[k].group = obdPoll[j].group
      BY DEF Matching
    <3>2. Once(obdPoll, obdPoll[j].group)
      OBVIOUS
    <3> QED
      BY <1>1, <3>1, <3>2, OnlyPlace
  <2> QED
    BY <2>1, <2>2
<1>4. Latest(s, i) = {Never, last}
  BY <1>3 DEF Latest
<1>5. last \in Int /\ Never <= last /\ last <= now /\ now \in Nat /\ Never \in Int
  BY DEF TypeInv, SetType, BusType, Past, Never
<1>6. Carried(s)[i].last = Greatest(Latest(s, i))
  BY CarriedType DEF TypeInv, BusType
<1> HIDE DEF s, last
<1>7. Greatest({Never, last}) \in {Never, last}
      /\ \A u \in {Never, last} : u <= Greatest({Never, last})
  <2>1. {Never, last} \in SUBSET Int /\ {Never, last} # {} /\ now \in Int
        /\ \A u \in {Never, last} : u <= now
    BY <1>5
  <2> QED
    BY <2>1, GreatestBounded
<1>8. Greatest({Never, last}) = last
  BY <1>5, <1>7
<1> QED
  BY <1>4, <1>6, <1>8 DEF s, last

LEMMA MinReplace ==
    ASSUME ~Concurrent, TypeInv, MinInv, NEW p \in PollSets, WritePollSet(p.list, p.ms)
    PROVE  MinInv'
<1>1. /\ pc = "idle" /\ pc' = "idle" /\ obdPoll' = Carried(p.list)
      /\ pending' = [pending EXCEPT !.slot = 0]
      /\ sent' = [g \in Groups |-> IF Once(p.list, g) /\ Once(obdPoll, g) THEN sent[g] ELSE Never]
      /\ adrift' = IF pending = NoFrame THEN adrift ELSE adrift \cup {pending.group}
  BY DEF WritePollSet, Writes
<1>2. /\ Len(obdPoll') = Len(p.list) /\ Len(p.list) \in Nat \ {0} /\ Len(obdPoll) \in Nat
      /\ \A i \in 1..Len(p.list) : obdPoll'[i].group = p.list[i].group
  BY <1>1, CarriedType DEF TypeInv, BusType, SetType
<1>3. pending \in Frames
  BY DEF TypeInv, Held
<1>4. pending'.slot = 0 /\ pending'.group = pending.group /\ (pending' # NoFrame => pending # NoFrame)
  BY <1>1, <1>3 DEF Frames, NoFrame
<1>5. ASSUME NEW i \in 1..Len(p.list) PROVE Stamped(i)'
  <2> DEFINE g == p.list[i].group
  <2>1. obdPoll'[i].group = g /\ g \in Groups
    BY <1>2 DEF Groups
  <2> SUFFICES ASSUME g \notin adrift', sent'[g] # Never
               PROVE  obdPoll'[i].last = sent'[g]
    BY <2>1 DEF Stamped
  <2>2. Once(p.list, g) /\ Once(obdPoll, g) /\ sent'[g] = sent[g] /\ g \notin adrift
    BY <1>1, <2>1
  <2>3. PICK j \in 1..Len(obdPoll) : obdPoll[j].group = g
    BY <1>2, <2>2, OnceIs
  <2>4. obdPoll[j].last = sent[g]
    BY <2>2, <2>3 DEF MinInv, Stamped
  <2>5. obdPoll'[i].last = obdPoll[j].last
    BY <1>1, <2>2, <2>3, CarriedStamp
  <2> QED
    BY <2>2, <2>4, <2>5
<1> QED
  BY <1>1, <1>2, <1>4, <1>5 DEF MinInv, Place

LEMMA MinKeeps ==
    ASSUME ~Concurrent
    PROVE  TypeInv /\ PaceInv /\ MinInv /\ [Next]_vars => MinInv'
<1> SUFFICES ASSUME TypeInv, PaceInv, MinInv, [Next]_vars PROVE MinInv'
  OBVIOUS
<1>1. CASE PollSettle
  <2>1. pc' # "hand" /\ UNCHANGED <<now, interval, index>>
    BY <1>1 DEF PollSettle
  <2>2. CASE pending # NoFrame /\ awake
    <3>1. PICK lat \in Latencies : Transmit(pending.slot, pending.group, lat)
      BY <1>1, <2>2 DEF PollSettle
    <3>2. Place(pending)
      BY DEF MinInv
    <3> QED
      BY <2>1, <2>2, <3>1, <3>2, MinTransmit
  <2>3. CASE ~(pending # NoFrame /\ awake)
    <3>1. UNCHANGED <<obdPoll, sent, adrift>> /\ pending' \in {pending, NoFrame}
      BY <1>1, <2>3 DEF PollSettle
    <3> QED
      BY <2>1, <3>1, MinSame
  <2> QED
    BY <2>2, <2>3
<1>2. CASE PollHand
  <2>1. /\ pc = "hand" /\ pc' # "hand" /\ UNCHANGED <<now, interval, index>>
        /\ hand # NoFrame /\ hand.slot # 0 /\ Place(hand)
    BY <1>2 DEF PollHand, PaceInv, MinInv, TypeInv
  <2>2. CASE awake
    <3>1. PICK lat \in Latencies : Transmit(hand.slot, hand.group, lat)
      BY <1>2, <2>2 DEF PollHand
    <3> QED
      BY <2>1, <3>1, MinTransmit
  <2>3. CASE ~awake
    <3>1. UNCHANGED <<obdPoll, sent, adrift>> /\ pending' = hand
      BY <1>2, <2>3 DEF PollHand
    <3> QED
      BY <2>1, <3>1, MinSame
  <2> QED
    BY <2>2, <2>3
<1>3. CASE PollBegin \/ InfoDue \/ Advance \/ Ignition
  <2>1. pc' # "hand" /\ UNCHANGED <<obdPoll, sent, adrift, pending>> /\ now' \in {now, now + 1}
    BY <1>3 DEF PollBegin, InfoDue, Advance, Ignition
  <2> QED
    BY <2>1, MinSame
<1>4. CASE Horizon \/ UNCHANGED vars
  <2>1. UNCHANGED <<now, obdPoll, sent, adrift, pending, pc, hand>>
    BY <1>4 DEF Horizon, vars
  <2>2. \A e : DueEntry(e)' <=> DueEntry(e)
    BY <2>1 DEF DueEntry
  <2> QED
    BY <2>1, <2>2 DEF MinInv, Place, DueEntry, Stamped, Once
<1>5. CASE WriteStop \/ WriteReset \/ WriteInfo \/ LinkEdge
  <2>1. obdPoll' = <<>> /\ pending' = NoFrame /\ pc' = pc
    BY <1>5 DEF WriteStop, WriteReset, WriteInfo, LinkEdge, Stop, Withdrawn
  <2>2. pc = "idle"
    BY <1>5 DEF WriteStop, WriteReset, WriteInfo, LinkEdge, Writes
  <2> QED
    BY <2>1, <2>2 DEF MinInv, Place, NoFrame
<1> QED
  BY <1>1, <1>2, <1>3, <1>4, <1>5, MinScan, MinReplace DEF Next, Poll, Control

LEMMA MinInvariant ==
    ASSUME ~Concurrent
    PROVE  Spec => [](TypeInv /\ PaceInv /\ MinInv)
<1>1. Init => MinInv
  BY DEF Init, MinInv, Place, NoFrame
<1> QED
  BY <1>1, PaceInvariant, MinKeeps, PTL DEF Spec

\* A transmission of the only entry of its group stamped as sent comes after its interval.
LEMMA MinKept ==
    ASSUME TypeInv, MinInv, NEW f \in {pending, hand}, f # NoFrame, Place(f),
           f.slot = 0 => f.group \in adrift,
           sent' = [sent EXCEPT ![f.group] = now],
           NEW g \in Groups, sent'[g] # sent[g], Once(obdPoll, g), sent[g] # Never, g \notin adrift
    PROVE  now - sent[g] >= obdPoll[MinOf(g)].min
<1>1. g = f.group
  BY DEF TypeInv, HistType
<1>2. f.slot \in 1..Len(obdPoll) /\ obdPoll[f.slot].group = g /\ DueEntry(obdPoll[f.slot])
  BY <1>1 DEF Place
<1>3. Len(obdPoll) \in Nat /\ obdPoll[f.slot] \in Entries /\ now \in Nat
  BY <1>2 DEF TypeInv, SetType, BusType
<1>4. MinOf(g) = f.slot
  <2>1. \A i \in 1..Len(obdPoll) : obdPoll[i].group = g => i = f.slot
    BY <1>2, <1>3, OnlyPlace
  <2> QED
    BY <1>2, <2>1 DEF MinOf
<1>5. obdPoll[f.slot].last = sent[g] /\ Past(obdPoll[f.slot].last)
  BY <1>2 DEF MinInv, Stamped, TypeInv, SetType
<1>6. obdPoll[f.slot].min = 0 \/ now - sent[g] >= obdPoll[f.slot].min
  BY <1>2, <1>5 DEF DueEntry
<1>7. now - sent[g] >= 0
  BY <1>3, <1>5 DEF Past
<1> QED
  BY <1>3, <1>4, <1>6, <1>7

\* No group is on the bus again before its minimum interval, whatever the set and however
\* often it is replaced, but for one a frame asks for that pends over a replacement.
THEOREM IntervalsAreKept == ASSUME ~Concurrent PROVE Spec => MinIntervalKeptInSet
<1> DEFINE Kept == \A g \in Groups :
                      Sends(g) /\ Once(obdPoll, g) /\ sent[g] # Never /\ g \notin adrift =>
                          now - sent[g] >= obdPoll[MinOf(g)].min
<1>1. TypeInv /\ PaceInv /\ MinInv /\ [Next]_vars => Kept
  <2> SUFFICES ASSUME TypeInv, PaceInv, MinInv, [Next]_vars,
                      NEW g \in Groups, pc \in {"settle", "hand"}, sent'[g] # sent[g],
                      Once(obdPoll, g), sent[g] # Never, g \notin adrift
               PROVE  now - sent[g] >= obdPoll[MinOf(g)].min
    BY DEF Sends
  <2>1. PollSettle \/ PollHand
    BY DEF Next, Poll, PollBegin, PollNext, Control, Writes, WriteStop, WriteReset, WriteInfo,
           WritePollSet, LinkEdge, InfoDue, Advance, Ignition, Horizon, vars
  <2>2. CASE PollSettle
    <3>1. /\ pending # NoFrame /\ Place(pending) /\ (pending.slot = 0 => pending.group \in adrift)
          /\ sent' = [sent EXCEPT ![pending.group] = now]
      BY <2>2 DEF PollSettle, Transmit, MinInv
    <3> QED
      BY <3>1, MinKept
  <2>3. CASE PollHand
    <3>1. hand # NoFrame /\ Place(hand) /\ hand.slot # 0
      BY <2>3 DEF PollHand, MinInv, PaceInv, TypeInv
    <3>2. sent' = [sent EXCEPT ![hand.group] = now]
      BY <2>3 DEF PollHand, Transmit
    <3> QED
      BY <3>1, <3>2, MinKept
  <2> QED
    BY <2>1, <2>2, <2>3
<1>2. MinIntervalKeptInSet <=> [][Kept]_vars
  BY DEF MinIntervalKeptInSet
<1> HIDE DEF Kept
<1> QED
  BY <1>1, <1>2, MinInvariant, PTL DEF Spec
=============================================================================

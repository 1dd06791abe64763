-------------------------- MODULE Peripheral_proofs --------------------------
(***************************************************************************)
(* Proofs about Peripheral, for every value of its constants.  A theorem   *)
(* that needs a statement group of the code to run undisturbed says so in  *)
(* an assumption on Preempt, and in nothing else.                          *)
(***************************************************************************)
EXTENDS Peripheral, TLAPS

\* The tuples of variables, to be opened wherever an action leaves them alone.
USE DEF linkVars, stackVars, trkVars, ctlVars, readyVars, streamVars,
        pumpVars, histVars, peripheralVars

-----------------------------------------------------------------------------
(* Type correctness *)

LEMMA OrderType == Len(StreamOrder) \in Nat \ {0} /\ StreamOrder \in Seq(Streams)
<1>1. StreamOrder \in Seq({"gps", "can", "imu"}) /\ Len(StreamOrder) > 0
  BY OrderAssumption
<1>2. \A i \in 1..Len(StreamOrder) : StreamOrder[i] \in Streams
  BY DEF Streams
<1> QED
  BY <1>1, <1>2

LEMMA RotatedType ==
    ASSUME NEW t \in Nat \ {0}
    PROVE  Rotated(t) \in Seq(Streams)
<1>1. Len(StreamOrder) \in Nat \ {0}
  BY OrderType
<1>2. \A i \in 1..Len(StreamOrder) :
         1 + ((t + i - 2) % Len(StreamOrder)) \in 1..Len(StreamOrder)
  BY <1>1
<1>3. \A i \in 1..Len(StreamOrder) :
         StreamOrder[1 + ((t + i - 2) % Len(StreamOrder))] \in Streams
  BY <1>2, OrderType
<1>4. Rotated(t) \in [1..Len(StreamOrder) -> Streams]
  BY <1>3 DEF Rotated
<1> QED
  BY <1>1, <1>4

LEMMA NoPayloadType == NoPayload \in Payloads
  BY DEF NoPayload, Payloads

LEMMA ItemsType == \A p \in Payloads : Items(p) \in Nat /\ RecordRefused(p) = Items(p)
  BY DEF Items, Payloads, RecordRefused

LEMMA InitType == Init => TypeOK
<1> SUFFICES ASSUME Init PROVE TypeOK
  OBVIOUS
<1>0. FlagsOK
  BY Zenon DEF Init, FlagsOK
<1>1. LinkTypeOK
  BY DEF Init, LinkTypeOK
<1>2. SharedTypeOK
  BY NoPayloadType, SeqAssumption DEF Init, SharedTypeOK
<1>3. PumpTypeOK
  BY OrderType DEF Init, PumpTypeOK, PumpPlaces
<1>4. HistoryTypeOK
  BY SeqAssumption DEF Init, HistoryTypeOK
<1> QED
  BY <1>0, <1>1, <1>2, <1>3, <1>4 DEF TypeOK

LEMMA EdgeType ==
    ASSUME TypeOK, NEW flag \in BOOLEAN, TakeEdge(flag)
    PROVE  SharedTypeOK'
<1>1. trkCentral' \in Centrals \cup {NoCentral}
  BY DEF TakeEdge, TypeOK, SharedTypeOK, LinkTypeOK, Identity
<1>2. CASE OnConnected
  <2>1. ResetTransport /\ probe' = "none"
    BY <1>2 DEF OnConnected
  <2>2. seq' \in [Streams -> 0..(SeqMod - 1)] /\ dropped' \in [Streams -> Nat]
        /\ debt' \in [Streams -> Int]
    BY <1>2, SeqAssumption DEF OnConnected, FreshSeq
  <2> QED
    BY <1>1, <2>1, <2>2, NoPayloadType DEF ResetTransport, SharedTypeOK
<1>3. CASE OnDisconnected
  <2>1. debt' \in [Streams -> Int]
    BY <1>3, ItemsType DEF OnDisconnected, TypeOK, SharedTypeOK
  <2>2. ResetTransport /\ probe' = "none" /\ UNCHANGED <<seq, dropped>>
    BY <1>3 DEF OnDisconnected
  <2> QED
    BY <1>1, <2>1, <2>2, NoPayloadType DEF ResetTransport, TypeOK, SharedTypeOK
<1>4. CASE UNCHANGED <<ctlVars, streamVars, readyVars, probe>>
  BY <1>1, <1>4 DEF TypeOK, SharedTypeOK
<1> QED
  BY <1>2, <1>3, <1>4 DEF TakeEdge

LEMMA EdgeFlags ==
    ASSUME FlagsOK, NEW flag \in BOOLEAN, TakeEdge(flag)
    PROVE  trkUp' \in BOOLEAN /\ ready' \in BOOLEAN /\ blocked' \in BOOLEAN
           /\ overdue' \in BOOLEAN
  BY Zenon DEF FlagsOK, TakeEdge, OnConnected, OnDisconnected, ResetTransport

LEMMA PollType ==
    ASSUME TypeOK, NEW burst \in [Streams -> 0..MaxBurst], PumpPoll(burst)
    PROVE  /\ pending' \in [Streams -> Payloads]
           /\ dropped' \in [Streams -> Nat]
           /\ debt' \in [Streams -> Int]
<1> SUFFICES ASSUME NEW s \in Streams
             PROVE  /\ PollStream(s, burst[s]).hold \in Payloads
                    /\ PollStream(s, burst[s]).drop \in Nat
                    /\ PollStream(s, burst[s]).owe \in Int
  BY DEF PumpPoll
<1> DEFINE b == burst[s]
<1>1. /\ b \in Nat /\ dropped[s] \in Nat /\ debt[s] \in Int /\ link \in Nat
      /\ pending[s] \in Payloads /\ RecordRefused(pending[s]) \in Nat
  BY BoundAssumption, ItemsType DEF TypeOK, SharedTypeOK, LinkTypeOK
<1>2. \A n, d \in Nat : [n |-> n, d |-> d, link |-> link] \in Payloads
  BY <1>1 DEF Payloads
<1> HIDE DEF b
<1>3. CASE b = 0
  BY <1>1, <1>3 DEF PollStream, b
<1>4. CASE b > 0 /\ s \notin snap
  BY <1>1, <1>4 DEF PollStream, b
<1>5. CASE b = 1 /\ s \in snap
  BY <1>1, <1>2, <1>5 DEF PollStream, b
<1>6. CASE b > 1 /\ s \in snap
  BY <1>1, <1>2, <1>6 DEF PollStream, b
<1> QED
  BY <1>1, <1>3, <1>4, <1>5, <1>6
LEMMA VerdictType ==
    ASSUME NEW R, NEW q \in Seq(R), NEW x,
           \A i \in 1..Len(q) : [q[i] EXCEPT !.verdict = x] \in R
    PROVE  [q EXCEPT ![Len(q)] = [@ EXCEPT !.verdict = x]] \in Seq(R)
<1> DEFINE r == [q EXCEPT ![Len(q)] = [@ EXCEPT !.verdict = x]]
<1>1. Len(q) \in Nat /\ q \in [1..Len(q) -> R]
  OBVIOUS
<1>2. r \in [1..Len(q) -> R]
  BY <1>1
<1> QED
  BY <1>1, <1>2

LEMMA ModType == \A a \in Nat, m \in Nat \ {0} : a % m \in 0..(m - 1)
  OBVIOUS

LEMMA CallbackType == TypeOK /\ Callback => TypeOK'
<1> SUFFICES ASSUME TypeOK, Callback PROVE TypeOK'
  OBVIOUS
<1> USE DEF TypeOK, LinkTypeOK, SharedTypeOK, PumpTypeOK, HistoryTypeOK
<1>1. CASE OtherGatt
  <2>1. SharedTypeOK'
    BY <1>1, EdgeType DEF OtherGatt, ObserveLinkUp
  <2>2. FlagsOK'
    BY <1>1, EdgeFlags, Zenon DEF OtherGatt, ObserveLinkUp, FlagsOK
  <2> QED
    BY <1>1, <2>1, <2>2 DEF OtherGatt, Requests
<1>2. CASE \E kind \in {"quick", "probe"} : WriteArrives(kind)
  <2>1. SharedTypeOK'
    BY <1>2, EdgeType DEF WriteArrives, ObserveLinkUp
  <2>2. FlagsOK'
    BY <1>2, EdgeFlags, Zenon DEF WriteArrives, ObserveLinkUp, FlagsOK
  <2> QED
    BY <1>2, <2>1, <2>2 DEF WriteArrives, Requests
<1>3. CASE WriteAdmit
  <2>1. FlagsOK'
    BY <1>3, Zenon DEF WriteAdmit, FlagsOK
  <2>2. Admit \in {"done", "busy", "discarded"}
    BY DEF Admit
  <2>3. reqs' \in Seq(Requests)
    <3>2. reqs' = [reqs EXCEPT ![Len(reqs)] = [@ EXCEPT !.verdict = Admit]]
      BY <1>3 DEF WriteAdmit
    <3>3. reqs \in Seq(Requests)
      OBVIOUS
    <3>4. \A i \in 1..Len(reqs) : [reqs[i] EXCEPT !.verdict = Admit] \in Requests
      <4> TAKE i \in 1..Len(reqs)
      <4>1. reqs[i] \in Requests
        BY <3>3
      <4> QED
        BY <2>2, <4>1 DEF Requests
    <3>5. [reqs EXCEPT ![Len(reqs)] = [@ EXCEPT !.verdict = Admit]] \in Seq(Requests)
      BY <3>3, <3>4, VerdictType
    <3> QED
      BY <3>2, <3>5
  <2>4. probe' \in {"none", "running", "due"}
    BY <1>3 DEF WriteAdmit
  <2>5. cb' \in {"idle", "admit", "hold", "pend", "hook"}
    BY <1>3 DEF WriteAdmit
  <2> QED
    BY <1>3, <2>1, <2>3, <2>4, <2>5 DEF WriteAdmit
<1>4. CASE WriteEnd
  <2>1. FlagsOK'
    BY <1>4, Zenon DEF WriteEnd, FlagsOK
  <2> QED
    BY <1>4, <2>1 DEF WriteEnd
<1>5. CASE ReadyHook
  <2>1. FlagsOK'
    BY <1>5, Zenon DEF ReadyHook, FlagsOK
  <2> QED
    BY <1>5, <2>1 DEF ReadyHook
<1>6. CASE ReadyHookEnd
  <2>1. FlagsOK'
    BY <1>6, Zenon DEF ReadyHookEnd, FlagsOK
  <2> QED
    BY <1>6, <2>1 DEF ReadyHookEnd
<1> QED
  BY <1>1, <1>2, <1>3, <1>4, <1>5, <1>6 DEF Callback

LEMMA PumpType == TypeOK /\ Pump => TypeOK'
<1> SUFFICES ASSUME TypeOK, Pump PROVE TypeOK'
  OBVIOUS
<1> USE DEF TypeOK, LinkTypeOK, SharedTypeOK, PumpTypeOK, HistoryTypeOK
<1>1. CASE PumpRead
  <2>1. FlagsOK'
    BY <1>1, Zenon DEF PumpRead, FlagsOK, IsConnected
  <2> QED
    BY <1>1, <2>1 DEF PumpRead, Goto, PumpPlaces
<1>2. CASE PumpEdge
  <2>1. seen \in BOOLEAN
    BY Zenon DEF FlagsOK
  <2>2. SharedTypeOK'
    BY <1>2, <2>1, EdgeType DEF PumpEdge
  <2>3. FlagsOK'
    BY <1>2, <2>1, EdgeFlags, Zenon DEF PumpEdge, FlagsOK
  <2> QED
    BY <1>2, <2>2, <2>3 DEF PumpEdge, Goto, PumpPlaces
<1>3. CASE PumpSubs
  <2>1. FlagsOK'
    BY <1>3, Zenon DEF PumpSubs, FlagsOK
  <2> QED
    BY <1>3, <2>1 DEF PumpSubs, Goto, PumpPlaces
<1>4. CASE PumpDue
  <2>1. FlagsOK'
    BY <1>4, Zenon DEF PumpDue, FlagsOK
  <2> QED
    BY <1>4, <2>1 DEF PumpDue, Goto, PumpPlaces
<1>5. CASE PumpTake
  <2>1. FlagsOK'
    BY <1>5, Zenon DEF PumpTake, FlagsOK
  <2> QED
    BY <1>5, <2>1 DEF PumpTake, Goto, PumpPlaces
<1>6. CASE PumpHold
  <2>1. FlagsOK'
    BY <1>6, Zenon DEF PumpHold, FlagsOK
  <2> QED
    BY <1>6, <2>1 DEF PumpHold, Goto, PumpPlaces
<1>7. CASE PumpRetry
  <2>1. FlagsOK'
    BY <1>7, Zenon DEF PumpRetry, FlagsOK
  <2> QED
    BY <1>7, <2>1 DEF PumpRetry, Goto, PumpPlaces
<1>15. CASE PumpElapsed
  <2>1. FlagsOK'
    BY <1>15, Zenon DEF PumpElapsed, FlagsOK
  <2> QED
    BY <1>15, <2>1 DEF PumpElapsed, Goto, PumpPlaces
<1>8. CASE PumpControl
  <2>1. FlagsOK'
    <3>1. room' \in BOOLEAN
      <4>1. room' = room \/ Used
        BY <1>8, Zenon DEF PumpControl
      <4>2. (IF Fills THEN BOOLEAN ELSE {room}) \subseteq BOOLEAN
        BY Zenon DEF FlagsOK
      <4> QED
        BY <4>1, <4>2, Zenon DEF Used, FlagsOK
    <3> QED
      BY <1>8, <3>1, Zenon DEF PumpControl, FlagsOK
  <2> QED
    <3>0. /\ \/ answered' = answered
             \/ queue # <<>> /\ answered' = answered \cup {Head(queue)}
          /\ left' = left \/ left' = <<>>
      BY <1>8, Zenon DEF PumpControl
    <3>a. queue # <<>> => Head(queue) \in Nat
      OBVIOUS
    <3>b. answered \cup {Head(queue)} \subseteq Nat \/ queue = <<>>
      BY <3>a
    <3>1. answered' \subseteq Nat
      <4>1. CASE answered' = answered
        BY <4>1
      <4>2. CASE queue # <<>> /\ answered' = answered \cup {Head(queue)}
        BY <3>b, <4>2
      <4> QED
        BY <3>0, <4>1, <4>2
    <3>2. left' \in Seq(Streams)
      <4>1. CASE left' = left
        BY <4>1
      <4>2. CASE left' = <<>>
        BY <4>2
      <4> QED
        BY <3>0, <4>1, <4>2
    <3>3. pc' \in PumpPlaces
      BY <1>8 DEF PumpControl, Goto, PumpPlaces
    <3> QED
      BY <1>8, <2>1, <3>1, <3>2, <3>3 DEF PumpControl
<1>9. CASE PumpPop
  <2>1. FlagsOK'
    BY <1>9, Zenon DEF PumpPop, FlagsOK
  <2> QED
    <3>1. queue' \in Seq(Nat)
      <4>1. CASE queue = <<>>
        BY <1>9, <4>1 DEF PumpPop
      <4>2. CASE queue # <<>>
        <5>1. queue' = Tail(queue)
          BY <1>9, <4>2 DEF PumpPop
        <5> QED
          BY <4>2, <5>1
      <4> QED
        BY <4>1, <4>2
    <3>2. pc' \in PumpPlaces
      BY <1>9 DEF PumpPop, Goto, PumpPlaces
    <3> QED
      BY <1>9, <2>1, <3>1, <3>2 DEF PumpPop
<1>10. CASE PumpRefused
  <2>1. FlagsOK'
    BY <1>10, Zenon DEF PumpRefused, FlagsOK, ArmRetry
  <2> QED
    BY <1>10, <2>1 DEF PumpRefused, Goto, PumpPlaces
<1>11. CASE \E burst \in [Streams -> 0..MaxBurst] : PumpPoll(burst)
  <2> PICK burst \in [Streams -> 0..MaxBurst] : PumpPoll(burst)
    BY <1>11
  <2>1. FlagsOK'
    BY Zenon DEF PumpPoll, FlagsOK
  <2>2. pending' \in [Streams -> Payloads] /\ dropped' \in [Streams -> Nat]
        /\ debt' \in [Streams -> Int]
    BY PollType
  <2> QED
    BY <2>1, <2>2 DEF PumpPoll, Goto, PumpPlaces
<1>12. CASE PumpGate
  <2>1. FlagsOK'
    BY <1>12, Zenon DEF PumpGate, FlagsOK
  <2>2. NextTurn(turn) \in 1..Len(StreamOrder)
    <3>1. turn \in Nat /\ Len(StreamOrder) \in Nat \ {0}
      BY OrderType
    <3>2. turn % Len(StreamOrder) \in 0..(Len(StreamOrder) - 1)
      BY <3>1, ModType
    <3> QED
      BY <3>1, <3>2 DEF NextTurn
  <2>3. turn' \in 1..Len(StreamOrder) /\ left' \in Seq(Streams)
    BY <1>12, <2>2, RotatedType DEF PumpGate
  <2> QED
    BY <1>12, <2>1, <2>3 DEF PumpGate, Goto, PumpPlaces
<1>13. CASE PumpOffer
  <2>1. FlagsOK'
    <3>1. room' \in BOOLEAN
      <4>1. room' = room \/ Used
        BY <1>13, Zenon DEF PumpOffer
      <4>2. (IF Fills THEN BOOLEAN ELSE {room}) \subseteq BOOLEAN
        BY Zenon DEF FlagsOK
      <4> QED
        BY <4>1, <4>2, Zenon DEF Used, FlagsOK
    <3> QED
      BY <1>13, <3>1, Zenon DEF PumpOffer, FlagsOK
  <2>2. Head(left) \in Streams /\ Tail(left) \in Seq(Streams)
    BY <1>13 DEF PumpOffer
  <2>3. heard' \in [Streams -> 0..(SeqMod - 1)]
    <3>1. seq[Head(left)] + 1 \in Nat /\ SeqMod \in Nat \ {0}
      BY <2>2, SeqAssumption, SMTT(20)
    <3>2. (seq[Head(left)] + 1) % SeqMod \in 0..(SeqMod - 1)
      BY <3>1, ModType
    <3>3. \/ UNCHANGED heard
          \/ heard' = [heard EXCEPT ![Head(left)] = (seq[Head(left)] + 1) % SeqMod]
      BY <1>13 DEF PumpOffer
    <3> QED
      BY <2>2, <3>2, <3>3
  <2>4. left' \in Seq(Streams) /\ pc' \in PumpPlaces
    BY <1>13, <2>2 DEF PumpOffer, Goto, PumpPlaces
  <2> QED
    BY <1>13, <2>1, <2>3, <2>4 DEF PumpOffer
<1>16. CASE PumpCommit
  <2>1. FlagsOK'
    BY <1>16, Zenon DEF PumpCommit, FlagsOK
  <2>2. Tail(left) \in Seq(Streams)
    BY <1>16 DEF PumpCommit
  <2>3. pending' \in [Streams -> Payloads]
    BY <1>16, NoPayloadType DEF PumpCommit
  <2>4. debt' \in [Streams -> Int]
    <3>1. \A s \in Streams : debt[s] - Items(pending[s]) \in Int
      BY ItemsType
    <3> QED
      BY <1>16, <3>1 DEF PumpCommit
  <2>5. seq' \in [Streams -> 0..(SeqMod - 1)]
    <3>0. SeqMod \in Nat \ {0} /\ \A s \in Streams : seq[s] + 1 \in Nat
      BY SeqAssumption
    <3>1. \A s \in Streams : (seq[s] + 1) % SeqMod \in 0..(SeqMod - 1)
      BY <3>0, ModType
    <3> QED
      BY <1>16, <3>1 DEF PumpCommit
  <2> QED
    BY <1>16, <2>1, <2>2, <2>3, <2>4, <2>5 DEF PumpCommit, Goto, PumpPlaces
<1>14. CASE PumpTickEnd
  <2>1. FlagsOK'
    BY <1>14, Zenon DEF PumpTickEnd, FlagsOK
  <2> QED
    BY <1>14, <2>1 DEF PumpTickEnd, Goto, PumpPlaces
<1> QED
  BY <1>1, <1>2, <1>3, <1>4, <1>5, <1>6, <1>7, <1>8, <1>9, <1>10, <1>11, <1>12,
     <1>13, <1>14, <1>15, <1>16 DEF Pump

LEMMA EnvironmentType == TypeOK /\ Environment => TypeOK'
<1> SUFFICES ASSUME TypeOK, Environment PROVE TypeOK'
  OBVIOUS
<1> USE DEF TypeOK, LinkTypeOK, SharedTypeOK, PumpTypeOK, HistoryTypeOK
<1>1. CASE \E c \in Centrals : Connect(c)
  <2>1. FlagsOK'
    BY <1>1, Zenon DEF Connect, FlagsOK
  <2> QED
    BY <1>1, <2>1, SeqAssumption DEF Connect, Steady
<1>2. CASE Drop
  <2>1. FlagsOK'
    BY <1>2, Zenon DEF Drop, FlagsOK
  <2> QED
    BY <1>2, <2>1 DEF Drop
<1>3. CASE \E c \in Chars : Subscribe(c)
  <2>1. FlagsOK'
    BY <1>3, Zenon DEF Subscribe, FlagsOK
  <2> QED
    BY <1>3, <2>1 DEF Subscribe, Steady
<1>4. CASE \E c \in Chars : Unsubscribe(c)
  <2>1. FlagsOK'
    BY <1>4, Zenon DEF Unsubscribe, FlagsOK
  <2> QED
    <3>0. gone' = gone \/ gone' = 1..Len(reqs)
      BY <1>4, Zenon DEF Unsubscribe
    <3>1. gone' \subseteq Nat
      <4>1. CASE gone' = gone
        BY <4>1
      <4>2. CASE gone' = 1..Len(reqs)
        BY <4>2
      <4> QED
        BY <3>0, <4>1, <4>2
    <3>2. polled' \in 0..2
      BY <1>4 DEF Unsubscribe, Steady
    <3> QED
      BY <1>4, <2>1, <3>1, <3>2 DEF Unsubscribe
<1>5. CASE Stall
  <2>1. FlagsOK'
    BY <1>5, Zenon DEF Stall, FlagsOK
  <2> QED
    BY <1>5, <2>1 DEF Stall
<1>6. CASE Drain
  <2>1. FlagsOK'
    BY <1>6, Zenon DEF Drain, FlagsOK
  <2> QED
    BY <1>6, <2>1 DEF Drain
<1>7. CASE RetryElapses
  <2>1. FlagsOK'
    BY <1>7, Zenon DEF RetryElapses, FlagsOK
  <2> QED
    BY <1>7, <2>1 DEF RetryElapses
<1>8. CASE ProbeCompletes
  <2>1. FlagsOK'
    BY <1>8, Zenon DEF ProbeCompletes, FlagsOK
  <2> QED
    BY <1>8, <2>1 DEF ProbeCompletes
<1> QED
  BY <1>1, <1>2, <1>3, <1>4, <1>5, <1>6, <1>7, <1>8 DEF Environment

LEMMA StutterType == TypeOK /\ UNCHANGED vars => TypeOK'
<1> SUFFICES ASSUME TypeOK, UNCHANGED vars PROVE TypeOK'
  OBVIOUS
<1>1. FlagsOK'
  BY Zenon DEF TypeOK, FlagsOK, vars
<1> QED
  BY <1>1 DEF TypeOK, LinkTypeOK, SharedTypeOK, PumpTypeOK, HistoryTypeOK, vars

LEMMA NextType == TypeOK /\ [Next]_vars => TypeOK'
  BY CallbackType, PumpType, EnvironmentType, StutterType DEF Next

\* Every variable keeps its type: the pump's position, the queue, the held
\* payloads, the sequence numbers and the counters, however pump and callbacks
\* interleave.
THEOREM TypeCorrect == Spec => []TypeOK
  BY InitType, NextType, PTL DEF Spec

-----------------------------------------------------------------------------
(* Loss accounting *)

LEMMA NoItems == Items(NoPayload) = 0
  BY DEF Items, NoPayload

LEMMA LossInit == Init => LossAccounted
  BY NoItems DEF Init, LossAccounted

LEMMA LossFrame == LossAccounted /\ UNCHANGED <<pending, dropped, debt>> => LossAccounted'
  BY DEF LossAccounted, Items

\* An edge starts the account afresh, or writes off what it discards.
LEMMA LossEdge ==
    ASSUME TypeOK, LossAccounted, NEW flag, TakeEdge(flag)
    PROVE  LossAccounted'
<1>1. CASE OnConnected
  BY <1>1, NoItems DEF OnConnected, ResetTransport, LossAccounted, Items
<1>2. CASE OnDisconnected
  <2>1. \A s \in Streams : /\ pending'[s] = NoPayload /\ dropped'[s] = dropped[s]
                           /\ debt'[s] = debt[s] - Items(pending[s])
    BY <1>2 DEF OnDisconnected, ResetTransport
  <2>2. \A s \in Streams : debt'[s] = dropped[s]
    <3> TAKE s \in Streams
    <3>1. Items(pending[s]) \in Nat /\ dropped[s] \in Nat /\ debt[s] \in Int
      BY ItemsType DEF TypeOK, SharedTypeOK
    <3>2. debt[s] = Items(pending[s]) + dropped[s]
      BY DEF LossAccounted
    <3> QED
      BY <2>1, <3>1, <3>2
  <2>3. \A s \in Streams : dropped[s] \in Nat
    BY DEF TypeOK, SharedTypeOK
  <2> QED
    BY <2>1, <2>2, <2>3, NoItems DEF LossAccounted, Items
<1>3. CASE UNCHANGED <<ctlVars, streamVars, readyVars, probe>>
  BY <1>3, LossFrame
<1> QED
  BY <1>1, <1>2, <1>3 DEF TakeEdge

\* Whatever a poll built, and whatever it superseded, is in the account.
LEMMA LossPoll ==
    ASSUME TypeOK, LossAccounted, NEW burst \in [Streams -> 0..MaxBurst], PumpPoll(burst)
    PROVE  LossAccounted'
<1> SUFFICES ASSUME NEW s \in Streams
             PROVE  PollStream(s, burst[s]).owe
                      = Items(PollStream(s, burst[s]).hold) + PollStream(s, burst[s]).drop
  BY DEF PumpPoll, LossAccounted, Items
<1> DEFINE b == burst[s]
<1>1. /\ b \in Nat /\ dropped[s] \in Nat /\ debt[s] \in Int
      /\ Items(pending[s]) \in Nat /\ RecordRefused(pending[s]) = Items(pending[s])
  BY BoundAssumption, ItemsType DEF TypeOK, SharedTypeOK
<1>2. debt[s] = Items(pending[s]) + dropped[s]
  BY DEF LossAccounted
<1>3. \A d : Items([n |-> 1, d |-> d, link |-> link]) = 1 + d
  BY DEF Items
<1> HIDE DEF b
<1>4. CASE b = 0
  BY <1>1, <1>2, <1>4 DEF PollStream, b
<1>5. CASE b > 0 /\ s \notin snap
  BY <1>1, <1>2, <1>5 DEF PollStream, b
<1>6. CASE b = 1 /\ s \in snap
  BY <1>1, <1>2, <1>3, <1>6 DEF PollStream, b
<1>7. CASE b > 1 /\ s \in snap
  BY <1>1, <1>2, <1>3, <1>7 DEF PollStream, b
<1> QED
  BY <1>1, <1>4, <1>5, <1>6, <1>7

LEMMA LossCommit == TypeOK /\ LossAccounted /\ PumpCommit => LossAccounted'
<1> SUFFICES ASSUME TypeOK, LossAccounted, PumpCommit PROVE LossAccounted'
  OBVIOUS
<1> DEFINE h == Head(left)
<1>1. /\ debt' = [debt EXCEPT ![h] = @ - Items(pending[h])]
      /\ pending' = [pending EXCEPT ![h] = NoPayload]
      /\ UNCHANGED dropped
  BY DEF PumpCommit
<1> SUFFICES ASSUME NEW s \in Streams
             PROVE  debt'[s] = Items(pending'[s]) + dropped'[s]
  BY DEF LossAccounted, Items
<1>2. /\ Items(pending[s]) \in Nat /\ dropped[s] \in Nat /\ debt[s] \in Int
      /\ debt \in [Streams -> Int] /\ pending \in [Streams -> Payloads]
  BY ItemsType DEF TypeOK, SharedTypeOK
<1>3. debt[s] = Items(pending[s]) + dropped[s]
  BY DEF LossAccounted
<1>4. CASE s = h
  BY <1>1, <1>2, <1>3, <1>4, NoItems
<1>5. CASE s # h
  BY <1>1, <1>2, <1>3, <1>5
<1> QED
  BY <1>4, <1>5

LEMMA LossNext == TypeOK /\ LossAccounted /\ [Next]_vars => LossAccounted'
<1> SUFFICES ASSUME TypeOK, LossAccounted, [Next]_vars PROVE LossAccounted'
  OBVIOUS
<1>1. CASE Pump
  <2>1. CASE PumpEdge
    BY <2>1, LossEdge DEF PumpEdge
  <2>2. CASE \E burst \in [Streams -> 0..MaxBurst] : PumpPoll(burst)
    BY <2>2, LossPoll
  <2>3. CASE PumpCommit
    BY <2>3, LossCommit
  <2>4. CASE PumpRead \/ PumpSubs \/ PumpDue \/ PumpTake \/ PumpHold
             \/ PumpRetry \/ PumpElapsed \/ PumpControl \/ PumpPop \/ PumpRefused
             \/ PumpGate \/ PumpOffer \/ PumpTickEnd
    BY <2>4, LossFrame DEF PumpRead, PumpSubs, PumpDue, PumpTake, PumpHold, PumpRetry,
       PumpElapsed, PumpControl, PumpPop, PumpRefused, PumpGate, PumpOffer, PumpTickEnd
  <2> QED
    BY <1>1, <2>1, <2>2, <2>3, <2>4 DEF Pump
<1>2. CASE Callback
  <2>1. CASE OtherGatt \/ \E kind \in {"quick", "probe"} : WriteArrives(kind)
    BY <2>1, LossEdge DEF OtherGatt, WriteArrives, ObserveLinkUp
  <2>2. CASE WriteAdmit \/ WriteEnd \/ ReadyHook \/ ReadyHookEnd
    BY <2>2, LossFrame DEF WriteAdmit, WriteEnd, ReadyHook, ReadyHookEnd
  <2> QED
    BY <1>2, <2>1, <2>2 DEF Callback
<1>3. CASE Environment
  BY <1>3, LossFrame DEF Environment, Connect, Drop, Subscribe, Unsubscribe, Stall,
     Drain, RetryElapses, ProbeCompletes
<1>4. CASE UNCHANGED vars
  BY <1>4, LossFrame DEF vars
<1> QED
  BY <1>1, <1>2, <1>3, <1>4 DEF Next

\* Nothing a stream produced goes uncounted: every item is held, delivered or in
\* a `dropped` count, for any number of streams, whatever runs inside a tick.
THEOREM LossAlwaysAccounted == Spec => []LossAccounted
  BY InitType, NextType, LossInit, LossNext, PTL DEF Spec

-----------------------------------------------------------------------------
(* The retry timer *)

LEMMA RetryEdge == \A flag : TakeEdge(flag) => ready' \/ UNCHANGED <<ready, blocked>>
<1> TAKE flag
<1>1. OnConnected => ready'
  BY Zenon DEF OnConnected, ResetTransport
<1>2. OnDisconnected => ready'
  BY Zenon DEF OnDisconnected, ResetTransport
<1>3. UNCHANGED <<ctlVars, streamVars, readyVars, probe>> => UNCHANGED <<ready, blocked>>
  OBVIOUS
<1> QED
  BY <1>1, <1>2, <1>3, Zenon DEF TakeEdge

LEMMA RetryNext == RetryArmed /\ [Next]_vars => RetryArmed' \/ HookDisarms
<1> SUFFICES ASSUME RetryArmed, [Next]_vars, ~HookDisarms PROVE RetryArmed'
  OBVIOUS
<1> USE DEF RetryArmed
<1>1. CASE Pump
  <2>1. CASE PumpRefused
    BY <2>1, Zenon DEF PumpRefused, ArmRetry
  <2>2. CASE PumpElapsed
    <3>1. pc # "refused" /\ UNCHANGED cb
      BY <2>2 DEF PumpElapsed
    <3>2. ready' \/ UNCHANGED <<ready, blocked>>
      BY <2>2, Zenon DEF PumpElapsed
    <3> QED
      BY <3>1, <3>2, Zenon
  <2>3. CASE PumpEdge
    <3>1. pc # "refused" /\ UNCHANGED cb
      BY <2>3 DEF PumpEdge
    <3>2. ready' \/ UNCHANGED <<ready, blocked>>
      BY <2>3, RetryEdge DEF PumpEdge
    <3> QED
      BY <3>1, <3>2, Zenon
  <2>4. CASE PumpRead \/ PumpSubs \/ PumpDue \/ PumpTake \/ PumpHold \/ PumpRetry \/ PumpControl
             \/ PumpPop \/ PumpGate \/ PumpOffer \/ PumpCommit \/ PumpTickEnd
             \/ \E burst \in [Streams -> 0..MaxBurst] : PumpPoll(burst)
    <3>1. UNCHANGED <<ready, blocked, cb>> /\ pc # "refused"
      BY <2>4 DEF PumpRead, PumpSubs, PumpDue, PumpTake, PumpHold, PumpRetry, PumpControl, PumpPop,
         PumpGate, PumpOffer, PumpCommit, PumpTickEnd, PumpPoll
    <3> QED
      BY <3>1, Zenon
  <2> QED
    BY <1>1, <2>1, <2>2, <2>3, <2>4 DEF Pump
<1>2. CASE Callback
  <2>1. CASE OtherGatt \/ \E kind \in {"quick", "probe"} : WriteArrives(kind)
    <3>1. cb # "hook" /\ UNCHANGED pc
      BY <2>1 DEF OtherGatt, WriteArrives, CallbackRuns
    <3>2. ready' \/ UNCHANGED <<ready, blocked>>
      BY <2>1, RetryEdge DEF OtherGatt, WriteArrives, ObserveLinkUp
    <3> QED
      BY <3>1, <3>2, Zenon
  <2>2. CASE WriteAdmit \/ WriteEnd
    <3>1. cb # "hook" /\ UNCHANGED <<ready, blocked, pc>>
      BY <2>2 DEF WriteAdmit, WriteEnd
    <3> QED
      BY <3>1, Zenon
  <2>3. CASE ReadyHook
    BY <2>3, Zenon DEF ReadyHook
  <2>4. CASE ReadyHookEnd
    BY <2>4, Zenon DEF ReadyHookEnd, HookDisarms
  <2> QED
    BY <1>2, <2>1, <2>2, <2>3, <2>4 DEF Callback
<1>3. CASE Environment
  <2>1. UNCHANGED <<ready, blocked, cb, pc>>
    BY <1>3 DEF Environment, Connect, Drop, Subscribe, Unsubscribe, Stall, Drain,
       RetryElapses, ProbeCompletes
  <2> QED
    BY <2>1, Zenon
<1>4. CASE UNCHANGED vars
  BY <1>4, Zenon DEF vars
<1> QED
  BY <1>1, <1>2, <1>3, <1>4 DEF Next

\* Whatever runs inside of a tick, one step alone takes the retry timer from a refused
\* pump: the second assignment of a ready hook that the refusal came in the middle of.
THEOREM OnlyTheHookDisarms == Spec => RetryKept
<1>1. [Next]_vars => [RetryArmed => RetryArmed' \/ HookDisarms]_vars
  BY RetryNext
<1> QED
  BY <1>1, PTL DEF Spec, RetryKept

-----------------------------------------------------------------------------
(* The control queue *)

\* The requests whose response something holds: queue, deferred slot, pump, callback.
Queued  == {queue[i] : i \in 1..Len(queue)}
Holding == Queued \cup ({pendingControl, inHand} \ {0})
           \cup IF cb \in {"hold", "pend"} THEN {Len(reqs)} ELSE {}

Writing == cb \in {"admit", "hold", "pend"}

\* The pump takes the deferred answer over with no write in progress, and its
\* hand is full exactly until it queues what it took.
HandInv ==
    /\ pc \in {"take", "hold"} => ~Writing
    /\ pc = "hold" <=> inHand # 0

\* One place per response: the queue, and the slots it is filled from.
Deferred == IF pendingControl = 0 THEN 0 ELSE 1
Taken    == IF inHand = 0 THEN 0 ELSE 1
Applying == IF cb \in {"hold", "pend"} THEN 1 ELSE 0
SlotsInv == Len(queue) + Deferred + Taken + Applying <= Depth + 2

LEMMA HandNext ==
    ASSUME "due" \notin Preempt
    PROVE  HandInv /\ [Next]_vars => HandInv'
<1> SUFFICES ASSUME HandInv, [Next]_vars PROVE HandInv'
  OBVIOUS
<1> USE DEF HandInv, Writing
<1>1. CASE Pump
  <2>1. UNCHANGED cb
    BY <1>1 DEF Pump, PumpRead, PumpEdge, PumpSubs, PumpDue, PumpTake, PumpHold, PumpRetry,
       PumpElapsed, PumpControl, PumpPop, PumpRefused, PumpPoll, PumpGate, PumpOffer, PumpCommit, PumpTickEnd
  <2>2. CASE PumpDue
    <3>1. ~Writing
      BY <2>2, Zenon DEF PumpDue, PumpRuns
    <3>2. UNCHANGED inHand /\ pc = "due" /\ pc' # "hold"
      BY <2>2 DEF PumpDue, Goto
    <3> QED
      BY <2>1, <3>1, <3>2
  <2>3. CASE PumpTake
    BY <2>1, <2>3 DEF PumpTake, Goto
  <2>4. CASE PumpHold
    BY <2>1, <2>4 DEF PumpHold, Goto
  <2>5. CASE PumpRead \/ PumpEdge \/ PumpSubs \/ PumpRetry \/ PumpElapsed \/ PumpControl \/ PumpPop
             \/ PumpRefused \/ PumpGate \/ PumpOffer \/ PumpCommit \/ PumpTickEnd
             \/ \E burst \in [Streams -> 0..MaxBurst] : PumpPoll(burst)
    <3>1. pc # "hold" /\ pc' \notin {"take", "hold"} /\ UNCHANGED inHand
      BY <2>5 DEF PumpRead, PumpEdge, PumpSubs, PumpRetry, PumpElapsed, PumpControl, PumpPop,
         PumpRefused, PumpGate, PumpOffer, PumpCommit, PumpTickEnd, PumpPoll, Goto
    <3> QED
      BY <3>1
  <2> QED
    BY <1>1, <2>2, <2>3, <2>4, <2>5 DEF Pump
<1>2. CASE Callback
  <2>1. CASE \E kind \in {"quick", "probe"} : WriteArrives(kind)
    <3>1. pc \notin {"take", "hold"} /\ UNCHANGED <<pc, inHand>>
      BY <2>1 DEF WriteArrives, CallbackRuns
    <3> QED
      BY <3>1
  <2>2. CASE WriteAdmit \/ WriteEnd
    <3>1. Writing /\ UNCHANGED <<pc, inHand>>
      BY <2>2 DEF WriteAdmit, WriteEnd
    <3> QED
      BY <3>1
  <2>3. CASE OtherGatt \/ ReadyHook \/ ReadyHookEnd
    BY <2>3 DEF OtherGatt, ReadyHook, ReadyHookEnd
  <2> QED
    BY <1>2, <2>1, <2>2, <2>3 DEF Callback
<1>3. CASE Environment
  BY <1>3 DEF Environment, Connect, Drop, Subscribe, Unsubscribe, Stall, Drain,
     RetryElapses, ProbeCompletes
<1>4. CASE UNCHANGED vars
  BY <1>4 DEF vars
<1> QED
  BY <1>1, <1>2, <1>3, <1>4 DEF Next

\* An edge empties the queue and the deferred slot, or leaves both.
LEMMA QueueEdge ==
    \A flag : TakeEdge(flag) => \/ queue' = <<>> /\ pendingControl' = 0
                               \/ UNCHANGED <<queue, pendingControl>>
<1> TAKE flag
<1>1. OnConnected => queue' = <<>> /\ pendingControl' = 0
  BY DEF OnConnected, ResetTransport
<1>2. OnDisconnected => queue' = <<>> /\ pendingControl' = 0
  BY DEF OnDisconnected, ResetTransport
<1> QED
  BY <1>1, <1>2 DEF TakeEdge

LEMMA SlotValues ==
    /\ Deferred \in {0, 1} /\ Taken \in {0, 1} /\ Applying \in {0, 1}
    /\ Deferred' \in {0, 1} /\ Taken' \in {0, 1} /\ Applying' \in {0, 1}
  BY DEF Deferred, Taken, Applying

\* Only a write can raise the number of places in use, and only from below.
LEMMA SlotsNext == TypeOK /\ HandInv /\ SlotsInv /\ [Next]_vars => SlotsInv'
<1>0. SUFFICES ASSUME TypeOK, HandInv, SlotsInv, [Next]_vars PROVE SlotsInv'
  OBVIOUS
<1>q. Len(queue) \in Nat /\ queue \in Seq(Nat) /\ Depth \in Nat \ {0}
  BY <1>0, DepthAssumption DEF TypeOK, SharedTypeOK
<1>s. Len(queue) + Deferred + Taken + Applying <= Depth + 2
  BY <1>0 DEF SlotsInv
<1>v. /\ Deferred \in {0, 1} /\ Taken \in {0, 1} /\ Applying \in {0, 1}
      /\ Deferred' \in {0, 1} /\ Taken' \in {0, 1} /\ Applying' \in {0, 1}
  BY SlotValues
<1>1. CASE UNCHANGED <<queue, pendingControl, inHand, cb>>
  BY <1>0, <1>1 DEF SlotsInv, Deferred, Taken, Applying
<1>2. ASSUME \/ queue' = <<>> /\ pendingControl' = 0
             \/ UNCHANGED <<queue, pendingControl>>,
             Taken' = Taken, Applying' = Applying
      PROVE  SlotsInv'
  <2>1. CASE UNCHANGED <<queue, pendingControl>>
    <3>1. Deferred' = Deferred
      BY <2>1 DEF Deferred
    <3> QED
      BY <1>2, <1>s, <2>1, <3>1 DEF SlotsInv
  <2>2. CASE queue' = <<>> /\ pendingControl' = 0
    <3>1. Deferred' = 0 /\ Len(queue') = 0
      BY <2>2 DEF Deferred
    <3> QED
      BY <1>2, <1>q, <1>s, <1>v, <3>1 DEF SlotsInv
  <2> QED
    BY <1>2, <2>1, <2>2
<1>3. CASE PumpEdge \/ OtherGatt
  <2>1. Taken' = Taken /\ Applying' = Applying
    BY <1>3 DEF PumpEdge, OtherGatt, Taken, Applying
  <2>2. \/ queue' = <<>> /\ pendingControl' = 0
        \/ UNCHANGED <<queue, pendingControl>>
    BY <1>3, QueueEdge DEF PumpEdge, OtherGatt, ObserveLinkUp
  <2> QED
    BY <1>2, <2>1, <2>2
<1>4. CASE \E kind \in {"quick", "probe"} : WriteArrives(kind)
  <2>1. UNCHANGED inHand /\ cb = "idle" /\ cb' = "admit"
    BY <1>4 DEF WriteArrives, CallbackRuns
  <2>2. Taken' = Taken /\ Applying' = Applying
    BY <2>1 DEF Taken, Applying
  <2>3. \/ queue' = <<>> /\ pendingControl' = 0
        \/ UNCHANGED <<queue, pendingControl>>
    BY <1>4, QueueEdge DEF WriteArrives, ObserveLinkUp
  <2> QED
    BY <1>2, <2>2, <2>3
<1>5. CASE PumpTake
  <2>1. /\ pendingControl' = 0 /\ inHand' = pendingControl /\ UNCHANGED <<queue, cb>>
        /\ inHand = 0
    BY <1>0, <1>5 DEF PumpTake, HandInv
  <2>2. Deferred' = 0 /\ Taken' = Deferred /\ Taken = 0 /\ Applying' = Applying
    BY <2>1 DEF Deferred, Taken, Applying
  <2> QED
    BY <1>q, <1>s, <1>v, <2>1, <2>2 DEF SlotsInv
<1>6. CASE PumpHold
  <2>1. inHand \in Nat
    BY <1>0 DEF TypeOK, PumpTypeOK
  <2>2. Len(queue') = Len(queue) + 1
    BY <1>q, <1>6, <2>1 DEF PumpHold
  <2>3. inHand # 0 /\ inHand' = 0 /\ UNCHANGED <<pendingControl, cb>>
    BY <1>0, <1>6 DEF PumpHold, HandInv
  <2>4. Deferred' = Deferred /\ Taken = 1 /\ Taken' = 0 /\ Applying' = Applying
    BY <2>3 DEF Deferred, Taken, Applying
  <2> QED
    BY <1>q, <1>s, <1>v, <2>2, <2>4 DEF SlotsInv
<1>7. CASE PumpPop
  <2>1. UNCHANGED <<pendingControl, inHand, cb>>
    BY <1>7 DEF PumpPop
  <2>2. Deferred' = Deferred /\ Taken' = Taken /\ Applying' = Applying
    BY <2>1 DEF Deferred, Taken, Applying
  <2>3. CASE queue = <<>>
    <3>1. UNCHANGED queue
      BY <1>7, <2>3 DEF PumpPop
    <3> QED
      BY <1>1, <2>1, <3>1
  <2>4. CASE queue # <<>>
    <3>1. queue' = Tail(queue)
      BY <1>7, <2>4 DEF PumpPop
    <3>2. Len(queue') = Len(queue) - 1
      BY <1>q, <2>4, <3>1
    <3> QED
      BY <1>q, <1>s, <1>v, <2>2, <3>2 DEF SlotsInv
  <2> QED
    BY <2>3, <2>4
<1>8. CASE WriteAdmit
  <2>1. UNCHANGED <<queue, pendingControl, inHand>> /\ cb = "admit"
    BY <1>8 DEF WriteAdmit
  <2>2. inHand = 0
    BY <1>0, <2>1 DEF HandInv, Writing
  <2>3. Deferred' = Deferred /\ Taken' = 0 /\ Applying = 0
    BY <2>1, <2>2 DEF Deferred, Taken, Applying
  <2>4. CASE Admit = "discarded"
    <3>1. cb' = "idle"
      BY <1>8, <2>4 DEF WriteAdmit
    <3>2. Applying' = 0
      BY <3>1 DEF Applying
    <3> QED
      BY <1>q, <1>s, <1>v, <2>1, <2>3, <3>2 DEF SlotsInv
  <2>5. CASE Admit # "discarded"
    <3>1. Len(queue) <= Depth
      BY <1>q, <2>5 DEF Admit
    <3> QED
      BY <1>q, <1>v, <2>1, <2>3, <3>1 DEF SlotsInv
  <2> QED
    BY <2>4, <2>5
<1>9. CASE WriteEnd
  <2>1. cb' = "idle" /\ UNCHANGED inHand /\ cb \in {"hold", "pend"}
    BY <1>9 DEF WriteEnd
  <2>2. Taken' = Taken /\ Applying = 1 /\ Applying' = 0
    BY <2>1 DEF Taken, Applying
  <2>3. CASE cb = "hold"
    <3>1. Len(reqs) \in Nat
      BY <1>0 DEF TypeOK, HistoryTypeOK
    <3>2. Len(queue') = Len(queue) + 1 /\ UNCHANGED pendingControl
      BY <1>q, <1>9, <2>3, <3>1 DEF WriteEnd
    <3>3. Deferred' = Deferred
      BY <3>2 DEF Deferred
    <3> QED
      BY <1>q, <1>s, <1>v, <2>2, <3>2, <3>3 DEF SlotsInv
  <2>4. CASE cb = "pend"
    <3>1. UNCHANGED queue
      BY <1>9, <2>4 DEF WriteEnd
    <3> QED
      BY <1>q, <1>s, <1>v, <2>2, <3>1 DEF SlotsInv
  <2> QED
    BY <2>1, <2>3, <2>4
<1>10. CASE ReadyHook \/ ReadyHookEnd
  <2>1. /\ UNCHANGED <<queue, pendingControl, inHand>>
        /\ cb \notin {"hold", "pend"} /\ cb' \notin {"hold", "pend"}
    BY <1>10 DEF ReadyHook, ReadyHookEnd, CallbackRuns
  <2>2. Taken' = Taken /\ Applying' = Applying
    BY <2>1 DEF Taken, Applying
  <2> QED
    BY <1>2, <2>1, <2>2
<1>11. CASE PumpRead \/ PumpSubs \/ PumpDue \/ PumpRetry \/ PumpElapsed \/ PumpControl
            \/ PumpRefused \/ PumpGate \/ PumpOffer \/ PumpCommit \/ PumpTickEnd
            \/ \E burst \in [Streams -> 0..MaxBurst] : PumpPoll(burst)
  BY <1>1, <1>11 DEF PumpRead, PumpSubs, PumpDue, PumpRetry, PumpElapsed, PumpControl,
     PumpRefused, PumpGate, PumpOffer, PumpCommit, PumpTickEnd, PumpPoll
<1>12. CASE Environment
  BY <1>1, <1>12 DEF Environment, Connect, Drop, Subscribe, Unsubscribe, Stall, Drain,
     RetryElapses, ProbeCompletes
<1>13. CASE UNCHANGED vars
  BY <1>1, <1>13 DEF vars
<1> QED
  BY <1>0, <1>3, <1>4, <1>5, <1>6, <1>7, <1>8, <1>9, <1>10, <1>11, <1>12, <1>13
     DEF Next, Pump, Callback

\* If no write runs while the pump takes the deferred answer over, the queue never
\* holds more than two responses beyond its depth.
THEOREM QueueStaysBounded ==
    ASSUME "due" \notin Preempt
    PROVE  Spec => []QueueBounded
<1>1. Init => HandInv /\ SlotsInv
  BY DepthAssumption DEF Init, HandInv, SlotsInv, Deferred, Taken, Applying
<1>2. TypeOK /\ SlotsInv => QueueBounded
  <2> SUFFICES ASSUME TypeOK, SlotsInv PROVE QueueBounded
    OBVIOUS
  <2>1. Len(queue) \in Nat
    BY DEF TypeOK, SharedTypeOK
  <2> QED
    BY <2>1, SlotValues, DepthAssumption DEF SlotsInv, QueueBounded
<1> QED
  BY <1>1, <1>2, InitType, NextType, HandNext, SlotsNext, PTL DEF Spec

-----------------------------------------------------------------------------
(* One outstanding request *)

LEMMA QueuedAppend ==
    ASSUME NEW q \in Seq(Nat), NEW x \in Nat
    PROVE  {Append(q, x)[i] : i \in 1..Len(Append(q, x))}
             \subseteq {q[i] : i \in 1..Len(q)} \cup {x}
<1>1. Len(Append(q, x)) = Len(q) + 1 /\ Len(q) \in Nat
  OBVIOUS
<1>2. \A i \in 1..(Len(q) + 1) :
         Append(q, x)[i] = IF i = Len(q) + 1 THEN x ELSE q[i]
  OBVIOUS
<1>3. \A i \in 1..(Len(q) + 1) :
         Append(q, x)[i] \in {q[j] : j \in 1..Len(q)} \cup {x}
  <2> TAKE i \in 1..(Len(q) + 1)
  <2>1. CASE i = Len(q) + 1
    BY <1>2, <2>1
  <2>2. CASE i # Len(q) + 1
    <3>1. i \in 1..Len(q)
      BY <1>1, <2>2
    <3> QED
      BY <1>2, <2>2, <3>1
  <2> QED
    BY <2>1, <2>2
<1> QED
  BY <1>1, <1>3

LEMMA QueuedTail ==
    ASSUME NEW q \in Seq(Nat), q # <<>>
    PROVE  {Tail(q)[i] : i \in 1..Len(Tail(q))} \subseteq {q[i] : i \in 1..Len(q)}
<1>1. Len(Tail(q)) = Len(q) - 1 /\ Len(q) \in Nat \ {0}
  OBVIOUS
<1>2. \A i \in 1..(Len(q) - 1) : Tail(q)[i] = q[i + 1] /\ i + 1 \in 1..Len(q)
  BY <1>1
<1> QED
  BY <1>1, <1>2

\* At most one response of an applied request is held anywhere, and the request
\* a callback is still deciding about is not held yet.
OneInv ==
    /\ Holding \subseteq 1..Len(reqs)
    /\ Writing => Len(reqs) # 0
    /\ cb = "admit" => Len(reqs) \notin Holding
    /\ \A r1, r2 \in Holding : Applied(r1) /\ Applied(r2) => r1 = r2

LEMMA OneInit == Init => OneInv
<1> SUFFICES ASSUME Init PROVE OneInv
  OBVIOUS
<1>1. Holding = {}
  BY DEF Init, Holding, Queued
<1>2. ~Writing
  BY DEF Init, Writing
<1> QED
  BY <1>1, <1>2 DEF OneInv, Writing

\* A step that only lets responses go keeps the invariant.
LEMMA OneShrinks ==
    ASSUME OneInv, Holding' \subseteq Holding, UNCHANGED reqs,
           Writing' => Writing, cb' = "admit" => cb = "admit"
    PROVE  OneInv'
  BY DEF OneInv, Applied

LEMMA HoldingEdge == \A flag : TakeEdge(flag) => Queued' \subseteq Queued /\ pendingControl' \in {0, pendingControl}
<1> TAKE flag
<1>1. queue' = <<>> => Queued' = {}
  BY DEF Queued
<1>2. UNCHANGED queue => Queued' = Queued
  BY DEF Queued
<1> QED
  BY <1>1, <1>2, QueueEdge

LEMMA OneArrives ==
    ASSUME TypeOK, OneInv, NEW kind \in {"quick", "probe"}, WriteArrives(kind)
    PROVE  OneInv'
<1>1. reqs \in Seq(Requests) /\ Len(reqs) \in Nat
  BY DEF TypeOK, HistoryTypeOK
<1>2. Queued' \subseteq Queued /\ pendingControl' \in {0, pendingControl}
  BY HoldingEdge DEF WriteArrives, ObserveLinkUp
<1>3. UNCHANGED inHand /\ cb' = "admit" /\ cb = "idle"
  BY DEF WriteArrives, CallbackRuns
<1>4. Holding' \subseteq Holding
  BY <1>2, <1>3 DEF Holding
<1>5. \E r : reqs' = Append(reqs, r)
  BY DEF WriteArrives
<1>6. Len(reqs') = Len(reqs) + 1 /\ \A i \in 1..Len(reqs) : reqs'[i] = reqs[i]
  BY <1>1, <1>5
<1>7. Holding \subseteq 1..Len(reqs)
  BY DEF OneInv
<1>8. \A r \in Holding' : r \in Holding /\ r \in 1..Len(reqs) /\ reqs'[r] = reqs[r]
  BY <1>4, <1>6, <1>7
<1>9. Holding' \subseteq 1..Len(reqs') /\ Len(reqs') \notin Holding' /\ Len(reqs') # 0
  BY <1>1, <1>6, <1>8
<1>10. \A r1, r2 \in Holding' : Applied(r1)' /\ Applied(r2)' => r1 = r2
  BY <1>8 DEF OneInv, Applied
<1> QED
  BY <1>9, <1>10 DEF OneInv

\* The verdict: a request takes effect only if nothing at all is held.
LEMMA OneAdmitted ==
    ASSUME Depth = 1, TypeOK, HandInv, OneInv, WriteAdmit
    PROVE  OneInv'
<1>1. /\ reqs \in Seq(Requests) /\ Len(reqs) \in Nat
      /\ queue \in Seq(Nat) /\ Len(queue) \in Nat
  BY DEF TypeOK, HistoryTypeOK, SharedTypeOK
<1>2. /\ cb = "admit" /\ UNCHANGED <<queue, pendingControl, inHand>>
      /\ cb' \in {"idle", "hold", "pend"}
      /\ cb' = "idle" <=> Admit = "discarded"
  BY DEF WriteAdmit
<1>3. inHand = 0
  BY <1>2 DEF HandInv, Writing
<1>4. reqs' = [reqs EXCEPT ![Len(reqs)] = [@ EXCEPT !.verdict = Admit]]
  BY DEF WriteAdmit
<1>5. Len(reqs) # 0 /\ Len(reqs) \notin Holding /\ Holding \subseteq 1..Len(reqs)
  BY <1>2 DEF OneInv, Writing
<1>6. /\ Len(reqs') = Len(reqs)
      /\ \A i \in 1..Len(reqs) : i # Len(reqs) => reqs'[i] = reqs[i]
  BY <1>1, <1>4
<1>7. Holding' \subseteq Holding \cup {Len(reqs)}
  BY <1>2, <1>6 DEF Holding, Queued
<1>8. Holding' \subseteq 1..Len(reqs')
  BY <1>1, <1>5, <1>6, <1>7
<1>9. \A r \in Holding : Applied(r)' <=> Applied(r)
  BY <1>5, <1>6 DEF Applied
<1>10. \A r1, r2 \in Holding' : Applied(r1)' /\ Applied(r2)' => r1 = r2
  <2>1. CASE Admit = "done"
    <3>1. Len(queue) = 0 /\ pendingControl = 0
      <4>1. ~(Len(queue) > Depth) /\ Len(queue) # Depth /\ pendingControl = 0
        BY <2>1, Zenon DEF Admit
      <4>2. Len(queue) \in Nat /\ Depth = 1
        BY <1>1
      <4>3. \A n \in Nat : ~(n > 1) /\ n # 1 => n = 0
        OBVIOUS
      <4> QED
        BY <4>1, <4>2, <4>3
    <3>2. Holding = {}
      BY <1>2, <1>3, <3>1 DEF Holding, Queued
    <3> QED
      BY <1>7, <3>2
  <2>2. CASE Admit # "done"
    <3>0. reqs[Len(reqs)] \in Requests
      BY <1>1, <1>5
    <3>1. reqs'[Len(reqs)].verdict = Admit
      BY <1>1, <1>4, <1>5, <3>0 DEF Requests
    <3>2. \A r : r = Len(reqs) => ~Applied(r)'
      BY <2>2, <3>1 DEF Applied
    <3> TAKE r1, r2 \in Holding'
    <3> HAVE Applied(r1)' /\ Applied(r2)'
    <3>3. r1 \in Holding /\ r2 \in Holding
      BY <1>7, <3>2
    <3>4. Applied(r1) /\ Applied(r2)
      BY <1>9, <3>3
    <3> QED
      BY <3>3, <3>4 DEF OneInv
  <2> QED
    BY <2>1, <2>2
<1> QED
  BY <1>2, <1>5, <1>6, <1>8, <1>10 DEF OneInv

LEMMA OneNext ==
    ASSUME Depth = 1
    PROVE  TypeOK /\ HandInv /\ OneInv /\ [Next]_vars => OneInv'
<1>0. SUFFICES ASSUME TypeOK, HandInv, OneInv, [Next]_vars PROVE OneInv'
  OBVIOUS
<1>q. queue \in Seq(Nat) /\ inHand \in Nat /\ Len(reqs) \in Nat
  BY <1>0 DEF TypeOK, SharedTypeOK, PumpTypeOK, HistoryTypeOK
<1>1. CASE UNCHANGED <<queue, pendingControl, inHand, cb, reqs>>
  <2>1. Holding' = Holding /\ Writing' = Writing
    BY <1>1 DEF Holding, Queued, Writing
  <2> QED
    BY <1>0, <1>1, <2>1, OneShrinks
<1>2. CASE PumpEdge \/ OtherGatt
  <2>1. UNCHANGED <<inHand, cb, reqs>>
    BY <1>2 DEF PumpEdge, OtherGatt
  <2>2. Queued' \subseteq Queued /\ pendingControl' \in {0, pendingControl}
    BY <1>2, HoldingEdge DEF PumpEdge, OtherGatt, ObserveLinkUp
  <2>3. Holding' \subseteq Holding /\ Writing' = Writing
    BY <2>1, <2>2 DEF Holding, Writing
  <2> QED
    BY <1>0, <2>1, <2>3, OneShrinks
<1>3. CASE \E kind \in {"quick", "probe"} : WriteArrives(kind)
  BY <1>0, <1>3, OneArrives
<1>4. CASE WriteAdmit
  BY <1>0, <1>4, OneAdmitted
<1>5. CASE PumpTake
  <2>1. pendingControl' = 0 /\ inHand' = pendingControl /\ UNCHANGED <<queue, cb, reqs>>
    BY <1>5 DEF PumpTake
  <2>2. Holding' \subseteq Holding /\ Writing' = Writing
    BY <2>1 DEF Holding, Queued, Writing
  <2> QED
    BY <1>0, <2>1, <2>2, OneShrinks
<1>6. CASE PumpHold
  <2>1. /\ queue' = Append(queue, inHand) /\ inHand' = 0
        /\ UNCHANGED <<pendingControl, cb, reqs>> /\ inHand # 0
    BY <1>0, <1>6 DEF PumpHold, HandInv
  <2>2. Queued' \subseteq Queued \cup {inHand}
    BY <1>q, <2>1, QueuedAppend DEF Queued
  <2>3. Holding' \subseteq Holding /\ Writing' = Writing
    BY <2>1, <2>2 DEF Holding, Writing
  <2> QED
    BY <1>0, <2>1, <2>3, OneShrinks
<1>7. CASE PumpPop
  <2>1. UNCHANGED <<pendingControl, inHand, cb, reqs>>
    BY <1>7 DEF PumpPop
  <2>2. Queued' \subseteq Queued
    <3>1. CASE queue = <<>>
      <4>1. UNCHANGED queue
        BY <1>7, <3>1 DEF PumpPop
      <4> QED
        BY <4>1 DEF Queued
    <3>2. CASE queue # <<>>
      <4>1. queue' = Tail(queue)
        BY <1>7, <3>2 DEF PumpPop
      <4> QED
        BY <1>q, <3>2, <4>1, QueuedTail DEF Queued
    <3> QED
      BY <3>1, <3>2
  <2>3. Holding' \subseteq Holding /\ Writing' = Writing
    BY <2>1, <2>2 DEF Holding, Writing
  <2> QED
    BY <1>0, <2>1, <2>3, OneShrinks
<1>8. CASE WriteEnd
  <2>1. cb' = "idle" /\ UNCHANGED <<inHand, reqs>> /\ cb \in {"hold", "pend"}
    BY <1>8 DEF WriteEnd
  <2>2. Queued' \subseteq Queued \cup {Len(reqs)}
    <3>1. CASE cb = "hold"
      <4>1. queue' = Append(queue, Len(reqs))
        BY <1>8, <3>1 DEF WriteEnd
      <4> QED
        BY <1>q, <4>1, QueuedAppend DEF Queued
    <3>2. CASE cb # "hold"
      <4>1. UNCHANGED queue
        BY <1>8, <3>2 DEF WriteEnd
      <4> QED
        BY <4>1 DEF Queued
    <3> QED
      BY <3>1, <3>2
  <2>3. pendingControl' \in {pendingControl, Len(reqs)}
    BY <1>8 DEF WriteEnd
  <2>4. Holding' \subseteq Holding
    BY <2>1, <2>2, <2>3 DEF Holding
  <2> QED
    BY <1>0, <2>1, <2>4, OneShrinks DEF Writing
<1>9. CASE ReadyHook \/ ReadyHookEnd
  <2>1. /\ UNCHANGED <<queue, pendingControl, inHand, reqs>>
        /\ cb' \in {"idle", "hook"}
    BY <1>9 DEF ReadyHook, ReadyHookEnd
  <2>2. Holding' \subseteq Holding
    BY <2>1 DEF Holding, Queued
  <2> QED
    BY <1>0, <2>1, <2>2, OneShrinks DEF Writing
<1>10. CASE PumpRead \/ PumpSubs \/ PumpDue \/ PumpRetry \/ PumpElapsed \/ PumpControl
            \/ PumpRefused \/ PumpGate \/ PumpOffer \/ PumpCommit \/ PumpTickEnd
            \/ \E burst \in [Streams -> 0..MaxBurst] : PumpPoll(burst)
  BY <1>1, <1>10 DEF PumpRead, PumpSubs, PumpDue, PumpRetry, PumpElapsed, PumpControl,
     PumpRefused, PumpGate, PumpOffer, PumpCommit, PumpTickEnd, PumpPoll
<1>11. CASE Environment
  BY <1>1, <1>11 DEF Environment, Connect, Drop, Subscribe, Unsubscribe, Stall, Drain,
     RetryElapses, ProbeCompletes
<1>12. CASE UNCHANGED vars
  BY <1>1, <1>12 DEF vars
<1> QED
  BY <1>0, <1>2, <1>3, <1>4, <1>5, <1>6, <1>7, <1>8, <1>9, <1>10, <1>11, <1>12
     DEF Next, Pump, Callback

\* With the queue as deep as the code makes it, and no write beside the pump's
\* take-over of the deferred answer, no two applied requests are owed at once.
THEOREM OneRequestOutstanding ==
    ASSUME Depth = 1, "due" \notin Preempt
    PROVE  Spec => []OneOutstanding
<1>1. Init => HandInv
  BY DEF Init, HandInv
<1>2. OneInv => OneOutstanding
  <2>1. Owed \subseteq Holding
    BY DEF Owed, Holding, Queued
  <2> QED
    BY <2>1 DEF OneInv, OneOutstanding
<1> QED
  BY <1>1, <1>2, InitType, NextType, HandNext, OneInit, OneNext, PTL DEF Spec

=============================================================================

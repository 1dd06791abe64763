---------------------- MODULE Peripheral_channel_proofs ----------------------
(***************************************************************************)
(* Proofs about what the transport of Peripheral promises its clients:     *)
(* that no accepted request is forgotten, that the pump outlives its       *)
(* callbacks, that nothing crosses from one link to the next, that         *)
(* sequence numbers follow one another, and that the whole implements      *)
(* ControlChannel.                                                         *)
(*                                                                         *)
(* All of them rest on how the tracker follows the link.  An edge clears   *)
(* the transport; it may cost a client something only if that client is    *)
(* listening while the tracker still names another, or none.  LinkInv says *)
(* when the tracker names it, HoldInv what may be held when it does not,   *)
(* StreamInv and CountInv the same of notifications and their numbers.     *)
(***************************************************************************)
EXTENDS Peripheral_proofs, FiniteSetTheorems

\* The tuples of variables, to be opened wherever an action leaves them alone.
USE DEF linkVars, stackVars, trkVars, ctlVars, readyVars, streamVars,
        pumpVars, histVars, peripheralVars

\* A callback has applied its request and not yet queued the response; the tracker has the
\* link's central on record.
Applies == cb \in {"hold", "pend"}
Served  == trkUp /\ trkCentral = central

\* A listening client is the one on record as soon as a request of its own took effect.
LinkInv ==
    /\ up => central \in Centrals
    /\ ~up => subs = {}
    /\ pc = "edge" => seen = IsConnected
    /\ Writing => up
    /\ Applies => "control" \in subs
    /\ Writing /\ "control" \in subs => Served
    /\ Expected # {} => "control" \in subs /\ Served

\* What is held is held for the central on record, or for one whose outage a poll has yet
\* to see; the pump's unpack and popleft find what they test for; nothing expected is lost.
HoldInv ==
    /\ Holding # {} => trkUp
    /\ ~Swift /\ Holding # {} => IF up THEN trkCentral = central ELSE polled < 2
    /\ cb = "pend" => pendingControl = 0
    /\ pc = "take" => pendingControl # 0
    /\ pc = "pop" => queue # <<>> /\ Head(queue) \in answered
    /\ Expected \subseteq Holding \cup answered

\* A response is in one place.
Different(q) == \A i, j \in 1..Len(q) : i < j => q[i] # q[j]
Distinct ==
    /\ Different(queue)
    /\ {pendingControl, inHand} \cap Queued = {}
    /\ pendingControl # 0 => pendingControl # inHand
    /\ Applies => Len(reqs) \notin Queued \cup {pendingControl, inHand}

\* What is held was admitted, is held once, and is answered only while it is being popped.
RequestInv ==
    /\ Holding \cup answered \cup gone \subseteq 1..Len(reqs) /\ Len(reqs) <= MaxReqs
    /\ Writing => Len(reqs) # 0
    /\ cb = "admit" => Len(reqs) \notin Holding \cup answered /\ reqs[Len(reqs)].verdict = "new"
    /\ \A r \in Holding : reqs[r].verdict \in {"done", "busy"}
    /\ Distinct
    /\ \A r \in Holding : r \in answered => pc = "pop" /\ r = Head(queue)

\* What is held was asked for on this link.
OwnInv ==
    /\ \A r \in Holding : reqs[r].link = link
    /\ Writing => reqs[Len(reqs)].link = link

\* A payload was built on this link, and one that outlives its link waits for a poll.
Held == \E s \in Streams : pending[s] # NoPayload
StreamInv ==
    /\ IsConnected /\ polled = 2 => trkUp
    /\ \A s \in Streams : pending[s] # NoPayload => pending[s].link = link
    /\ Held /\ ~IsConnected => trkUp /\ polled < 2
    /\ pc \notin {"read", "edge", "subs"} /\ snap # {} /\ ~IsConnected => trkUp /\ polled < 2

\* The number a stream's next notification carries: one on, while the pump has yet to commit
\* the number of the notification the stack just took.
Numbered(s) == IF pc = "commit" /\ s = Head(left) THEN (seq[s] + 1) % SeqMod ELSE seq[s]

\* The payload the stack just took is still held, for the pump to let go.
CommitInv == pc = "commit" => left # <<>> /\ pending[Head(left)] # NoPayload

\* Once a link is on record the two sides agree on the next number; before, the client
\* expects 0 and nothing is held.
CountInv ==
    /\ ~up /\ polled = 2 => ~trkUp
    /\ pc \notin {"read", "edge", "dead"} /\ subs # {} => Served
    /\ pc \notin {"read", "edge", "subs", "dead"} => snap = subs
    /\ Held /\ up => Served
    /\ CommitInv /\ (pc = "commit" => up)
    /\ up /\ trkUp =>
         \A s \in Streams : Numbered(s) = heard[s] \/ (BlessSemantics /\ Numbered(s) = 0)
    /\ ~BlessSemantics /\ up /\ ~Served => \A s \in Streams : heard[s] = 0

\* The timer the pump is about to read again is still set.
AliveInv ==
    /\ pc # "dead"
    /\ pc = "elapsed" => blocked /\ cb # "hook"

-----------------------------------------------------------------------------
(* Edges *)

Cleared == /\ queue' = <<>> /\ pendingControl' = 0
           /\ pending' = [s \in Streams |-> NoPayload]
Untouched == UNCHANGED <<ctlVars, streamVars, readyVars, probe>>

\* Evidence that a central is served: nothing happens while it is the one on record.
LEMMA EdgeUp ==
    ASSUME TypeOK, up => central \in Centrals, up, TakeEdge(TRUE)
    PROVE  /\ trkUp'
           /\ subs # {} => trkCentral' = central
           /\ Served => Untouched /\ trkCentral' = trkCentral
           /\ \/ Untouched /\ trkUp /\ trkCentral' = trkCentral
              \/ Cleared /\ seq' = [s \in Streams |-> 0]
<1>1. trkUp' = TRUE /\ trkUp \in BOOLEAN
  BY Zenon DEF TakeEdge, TypeOK, FlagsOK
<1>2. Identity \in {NoCentral, central} /\ (subs # {} => Identity = central) /\ central # NoCentral
  BY CentralAssumption DEF Identity
<1>3. CASE ~trkUp
  <2>1. Edge(TRUE, Identity) = "connected"
    BY <1>1, <1>3 DEF Edge
  <2>2. OnConnected /\ trkCentral' = Identity
    BY <2>1 DEF TakeEdge
  <2> QED
    BY <1>1, <1>2, <1>3, <2>2 DEF OnConnected, ResetTransport, FreshSeq, Cleared, Served
<1>4. CASE trkUp /\ Identity \in {NoCentral, trkCentral}
  <2>1. Edge(TRUE, Identity) = "none"
    BY <1>1, <1>4 DEF Edge
  <2>2. Untouched /\ trkCentral' = trkCentral
    BY <2>1 DEF TakeEdge, Untouched
  <2> QED
    BY <1>1, <1>2, <1>4, <2>2
<1>5. CASE trkUp /\ Identity \notin {NoCentral, trkCentral}
  <2>1. Edge(TRUE, Identity) = "connected"
    BY <1>1, <1>5 DEF Edge
  <2>2. OnConnected /\ trkCentral' = Identity
    BY <2>1 DEF TakeEdge
  <2> QED
    BY <1>1, <1>2, <1>5, <2>2 DEF OnConnected, ResetTransport, FreshSeq, Cleared, Served
<1> QED
  BY <1>3, <1>4, <1>5

\* The falling edge clears what a link that was up left behind.
LEMMA EdgeDown ==
    ASSUME TypeOK, TakeEdge(FALSE)
    PROVE  /\ ~trkUp' /\ trkCentral' = trkCentral /\ UNCHANGED seq
           /\ trkUp => Cleared
           /\ ~trkUp => Untouched
<1>1. trkUp' = FALSE /\ trkUp \in BOOLEAN
  BY Zenon DEF TakeEdge, TypeOK, FlagsOK
<1>2. CASE trkUp
  <2>1. Edge(FALSE, Identity) = "disconnected"
    BY <1>1, <1>2 DEF Edge
  <2>2. OnDisconnected /\ trkCentral' = trkCentral
    BY <2>1 DEF TakeEdge
  <2> QED
    BY <1>1, <1>2, <2>2 DEF OnDisconnected, ResetTransport, Cleared
<1>3. CASE ~trkUp
  <2>1. Edge(FALSE, Identity) = "none"
    BY <1>1, <1>3 DEF Edge
  <2>2. Untouched /\ trkCentral' = trkCentral
    BY <2>1 DEF TakeEdge, Untouched
  <2> QED
    BY <1>1, <1>3, <2>2 DEF Untouched
<1> QED
  BY <1>2, <1>3

\* The poll acts on what it has just read.
LEMMA PollEdge ==
    ASSUME TypeOK, LinkInv, PumpEdge
    PROVE  \/ IsConnected /\ up /\ TakeEdge(TRUE)
           \/ ~IsConnected /\ subs = {} /\ TakeEdge(FALSE)
<1>1. TakeEdge(seen) /\ seen = IsConnected /\ seen \in BOOLEAN
  BY Zenon DEF PumpEdge, LinkInv, TypeOK, FlagsOK
<1>2. CASE seen = TRUE
  <2>1. IsConnected
    BY <1>1, <1>2
  <2>2. TakeEdge(TRUE)
    BY <1>1, <1>2, Zenon
  <2> QED
    BY <2>1, <2>2 DEF IsConnected, LinkInv
<1>3. CASE seen = FALSE
  <2>1. ~IsConnected
    BY <1>1, <1>3
  <2>2. TakeEdge(FALSE)
    BY <1>1, <1>3, Zenon
  <2> QED
    BY <2>1, <2>2 DEF IsConnected, LinkInv
<1> QED
  BY <1>1, <1>2, <1>3

\* What the poll and the callbacks do to the shared state.
LEMMA EdgeCases ==
    ASSUME TypeOK, LinkInv, PumpEdge \/ OtherGatt \/ \E kind \in {"quick", "probe"} : WriteArrives(kind)
    PROVE  \/ up /\ TakeEdge(TRUE)
           \/ PumpEdge /\ TakeEdge(FALSE) /\ ~IsConnected /\ subs = {}
<1>1. OtherGatt \/ (\E kind \in {"quick", "probe"} : WriteArrives(kind)) => up /\ TakeEdge(TRUE)
  BY Zenon DEF OtherGatt, WriteArrives, ObserveLinkUp
<1> QED
  BY <1>1, PollEdge

-----------------------------------------------------------------------------
(* The link and its tracker *)

LEMMA LinkFrame ==
    ASSUME LinkInv, UNCHANGED <<up, central, subs, trkVars, reqs, gone, seen>>,
           cb' = cb \/ cb' \in {"idle", "hook"}, pc' # "edge" \/ pc' = pc
    PROVE  LinkInv'
<1>1. Expected' = Expected
  BY DEF Expected
<1>2. IsConnected' = IsConnected
  BY DEF IsConnected
<1> QED
  BY <1>1, <1>2, Zenon DEF LinkInv, Writing, Applies, Served

LEMMA LinkInit == Init => LinkInv
<1> SUFFICES ASSUME Init PROVE LinkInv
  OBVIOUS
<1>1. Expected = {}
  BY DEF Init, Expected
<1> QED
  BY <1>1 DEF Init, LinkInv, Writing, Applies

LEMMA LinkEdge ==
    ASSUME "poll" \notin Preempt, TypeOK, LinkInv, PumpEdge \/ OtherGatt
    PROVE  LinkInv'
<1>1. /\ UNCHANGED <<up, central, subs, reqs, gone, cb>> /\ pc' # "edge"
  BY DEF PumpEdge, OtherGatt, Goto, CallbackRuns
<1>2. Expected' = Expected
  BY <1>1 DEF Expected
<1>3. CASE up /\ TakeEdge(TRUE)
  <2>1. subs # {} => Served'
    BY <1>1, <1>3, EdgeUp DEF LinkInv, Served
  <2> QED
    BY <1>1, <1>2, <2>1 DEF LinkInv, Writing, Applies
<1>4. CASE subs = {}
  BY <1>1, <1>2, <1>4 DEF LinkInv, Writing, Applies
<1> QED
  BY <1>3, <1>4, EdgeCases

LEMMA LinkArrives ==
    ASSUME "poll" \notin Preempt, TypeOK, LinkInv, NEW kind \in {"quick", "probe"}, WriteArrives(kind)
    PROVE  LinkInv'
<1>1. /\ UNCHANGED <<up, central, subs, gone, pc>> /\ pc # "edge" /\ up /\ cb' = "admit"
      /\ TakeEdge(TRUE)
  BY DEF WriteArrives, CallbackRuns, ObserveLinkUp
<1>2. subs # {} => Served'
  BY <1>1, EdgeUp DEF LinkInv, Served
<1>3. /\ reqs \in Seq(Requests) /\ Len(reqs) \in Nat
      /\ reqs' = Append(reqs, [link |-> link, kind |-> kind, verdict |-> "new"])
  BY DEF TypeOK, HistoryTypeOK, WriteArrives
<1>4. Expected' = Expected
  <2>1. /\ Len(reqs') = Len(reqs) + 1 /\ \A i \in 1..Len(reqs) : reqs'[i] = reqs[i]
        /\ reqs'[Len(reqs) + 1].verdict = "new"
    BY <1>3
  <2> QED
    BY <1>1, <1>3, <2>1 DEF Expected
<1> QED
  BY <1>1, <1>2, <1>4 DEF LinkInv, Writing, Applies

\* What a verdict does to the list of requests.
LEMMA Judged ==
    ASSUME TypeOK, cb = "admit" => Len(reqs) # 0, WriteAdmit
    PROVE  /\ cb = "admit" /\ Len(reqs) \in Nat \ {0} /\ Len(reqs') = Len(reqs)
           /\ \A i \in 1..Len(reqs) : i # Len(reqs) => reqs'[i] = reqs[i]
           /\ reqs'[Len(reqs)].verdict = Admit
           /\ reqs'[Len(reqs)].link = reqs[Len(reqs)].link
           /\ cb' \in {"idle", "hold", "pend"}
           /\ cb' = "idle" <=> Admit = "discarded"
           /\ Admit \in {"done", "busy", "discarded"}
           /\ cb' = "pend" => Admit = "done"
<1>1. /\ reqs \in Seq(Requests) /\ Len(reqs) \in Nat \ {0} /\ cb = "admit"
      /\ reqs' = [reqs EXCEPT ![Len(reqs)] = [@ EXCEPT !.verdict = Admit]]
  BY DEF TypeOK, HistoryTypeOK, WriteAdmit
<1>2. reqs[Len(reqs)] \in Requests
  BY <1>1
<1>3. reqs'[Len(reqs)].verdict = Admit /\ reqs'[Len(reqs)].link = reqs[Len(reqs)].link
  BY <1>1, <1>2 DEF Requests
<1>4. Len(reqs') = Len(reqs) /\ \A i \in 1..Len(reqs) : i # Len(reqs) => reqs'[i] = reqs[i]
  BY <1>1
<1>5. /\ cb' \in {"idle", "hold", "pend"}
      /\ cb' = "idle" <=> Admit = "discarded"
      /\ cb' = "pend" => Admit = "done"
  BY Zenon DEF WriteAdmit
<1>6. Admit \in {"done", "busy", "discarded"}
  BY Zenon DEF Admit
<1> QED
  BY <1>1, <1>3, <1>4, <1>5, <1>6

LEMMA LinkAdmit ==
    ASSUME TypeOK, LinkInv, cb = "admit" => Len(reqs) # 0, WriteAdmit
    PROVE  LinkInv'
<1>1. UNCHANGED <<up, central, subs, gone, pc, seen, trkVars>>
  BY DEF WriteAdmit
<1>2. Admit # "discarded" => "control" \in subs
  BY Zenon DEF Admit
<1>3. up /\ ("control" \in subs => Served)
  BY Judged DEF LinkInv, Writing
<1>4. Expected' # {} => "control" \in subs
  <2> SUFFICES ASSUME NEW r \in Expected' PROVE "control" \in subs
    OBVIOUS
  <2>1. r \in 1..Len(reqs) /\ r \notin gone /\ reqs'[r].verdict \in {"done", "busy"}
    BY <1>1, Judged DEF Expected
  <2>2. CASE r = Len(reqs)
    BY <1>2, <2>1, <2>2, Judged
  <2>3. CASE r # Len(reqs)
    <3>1. r \in Expected
      BY <2>1, <2>3, Judged DEF Expected
    <3> QED
      BY <3>1 DEF LinkInv
  <2> QED
    BY <2>2, <2>3
<1>5. IsConnected' = IsConnected
  BY <1>1 DEF IsConnected
<1> QED
  BY <1>1, <1>2, <1>3, <1>4, <1>5, Judged DEF LinkInv, Writing, Applies, Served

\* The link only changes between two polls' readings of it, and between two writes.
LEMMA LinkMoves ==
    ASSUME "poll" \notin Preempt, TypeOK, LinkInv,
           \/ \E c \in Centrals : Connect(c)
           \/ Drop
           \/ \E c \in Chars : Subscribe(c) \/ Unsubscribe(c)
    PROVE  LinkInv'
<1>1. /\ cb = "idle" /\ pc # "edge" /\ UNCHANGED <<cb, pc, trkVars, reqs>>
  BY DEF Connect, Drop, Subscribe, Unsubscribe, LinkChanges, CallbackRuns
<1>2. CASE \E c \in Centrals : Connect(c)
  <2>1. ~up /\ up' /\ central' \in Centrals /\ subs' = {} /\ UNCHANGED gone
    BY <1>2 DEF Connect
  <2>2. Expected' = {}
    BY <1>1, <2>1 DEF Expected, LinkInv
  <2> QED
    BY <1>1, <2>1, <2>2 DEF LinkInv, Writing, Applies
<1>3. CASE Drop
  <2>1. ~up' /\ subs' = {} /\ gone' = 1..Len(reqs)
    BY <1>3 DEF Drop
  <2>2. Expected' = {}
    BY <1>1, <2>1 DEF Expected
  <2> QED
    BY <1>1, <2>1, <2>2 DEF LinkInv, Writing, Applies
<1>4. CASE \E c \in Chars : Subscribe(c)
  <2>1. up /\ UNCHANGED <<up, central, gone>> /\ subs \subseteq subs'
    BY <1>4 DEF Subscribe
  <2>2. Expected' = Expected
    BY <1>1, <2>1 DEF Expected
  <2> QED
    BY <1>1, <2>1, <2>2 DEF LinkInv, Writing, Applies, Served
<1>5. CASE \E c \in Chars : Unsubscribe(c)
  <2> PICK c \in Chars : Unsubscribe(c)
    BY <1>5
  <2>1. up /\ UNCHANGED <<up, central>> /\ subs' = subs \ {c}
        /\ gone' = IF c = "control" THEN 1..Len(reqs) ELSE gone
    BY DEF Unsubscribe
  <2>2. CASE c = "control"
    <3>1. Expected' = {}
      BY <1>1, <2>1, <2>2 DEF Expected
    <3> QED
      BY <1>1, <2>1, <3>1 DEF LinkInv, Writing, Applies
  <2>3. CASE c # "control"
    <3>1. Expected' = Expected
      BY <1>1, <2>1, <2>3 DEF Expected
    <3> QED
      BY <1>1, <2>1, <2>3, <3>1 DEF LinkInv, Writing, Applies, Served
  <2> QED
    BY <2>2, <2>3
<1> QED
  BY <1>2, <1>3, <1>4, <1>5

LEMMA LinkNext ==
    ASSUME "poll" \notin Preempt
    PROVE  TypeOK /\ RequestInv /\ LinkInv /\ [Next]_vars => LinkInv'
<1> SUFFICES ASSUME TypeOK, RequestInv, LinkInv, [Next]_vars PROVE LinkInv'
  OBVIOUS
<1>1. CASE PumpRead
  <2>1. /\ UNCHANGED <<up, central, subs, cb, reqs, gone, trkVars>> /\ seen' = IsConnected
    BY <1>1 DEF PumpRead
  <2>2. Expected' = Expected /\ IsConnected' = IsConnected
    BY <2>1 DEF Expected, IsConnected
  <2> QED
    BY <2>1, <2>2, Zenon DEF LinkInv, Writing, Applies, Served
<1>2. CASE PumpEdge \/ OtherGatt
  BY <1>2, LinkEdge
<1>3. CASE \E kind \in {"quick", "probe"} : WriteArrives(kind)
  BY <1>3, LinkArrives
<1>4. CASE WriteAdmit
  BY <1>4, LinkAdmit DEF RequestInv, Writing
<1>5. CASE WriteEnd \/ ReadyHook \/ ReadyHookEnd
  BY <1>5, LinkFrame DEF WriteEnd, ReadyHook, ReadyHookEnd
<1>6. CASE PumpSubs \/ PumpDue \/ PumpTake \/ PumpHold \/ PumpRetry \/ PumpElapsed \/ PumpControl
           \/ PumpPop \/ PumpRefused \/ PumpGate \/ PumpOffer \/ PumpCommit \/ PumpTickEnd
           \/ \E burst \in [Streams -> 0..MaxBurst] : PumpPoll(burst)
  <2>1. UNCHANGED <<up, central, subs, trkVars, reqs, gone, seen, cb>> /\ (pc' # "edge" \/ pc' = pc)
    BY <1>6 DEF PumpSubs, PumpDue, PumpTake, PumpHold, PumpRetry, PumpElapsed, PumpControl,
       PumpPop, PumpRefused, PumpGate, PumpOffer, PumpCommit, PumpTickEnd, PumpPoll, Goto
  <2> QED
    BY <2>1, LinkFrame
<1>7. CASE \/ \E c \in Centrals : Connect(c)
           \/ Drop
           \/ \E c \in Chars : Subscribe(c) \/ Unsubscribe(c)
  BY <1>7, LinkMoves
<1>8. CASE Stall \/ Drain \/ RetryElapses \/ ProbeCompletes
  BY <1>8, LinkFrame DEF Stall, Drain, RetryElapses, ProbeCompletes
<1>9. CASE UNCHANGED vars
  BY <1>9, LinkFrame DEF vars
<1> QED
  BY <1>1, <1>2, <1>3, <1>4, <1>5, <1>6, <1>7, <1>8, <1>9
     DEF Next, Pump, Callback, Environment

-----------------------------------------------------------------------------
(* What is held for whom *)

LEMMA AppendSet ==
    ASSUME NEW q \in Seq(Nat), NEW x \in Nat
    PROVE  /\ {Append(q, x)[i] : i \in 1..Len(Append(q, x))} = {q[i] : i \in 1..Len(q)} \cup {x}
           /\ Append(q, x) # <<>> /\ (q # <<>> => Head(Append(q, x)) = Head(q))
<1>1. Len(Append(q, x)) = Len(q) + 1 /\ Len(q) \in Nat /\ Append(q, x) # <<>>
  OBVIOUS
<1>2. \A i \in 1..Len(q) : Append(q, x)[i] = q[i] /\ i \in 1..(Len(q) + 1)
  BY <1>1
<1>3. Append(q, x)[Len(q) + 1] = x /\ Len(q) + 1 \in 1..(Len(q) + 1)
  BY <1>1
<1>4. \A i \in 1..(Len(q) + 1) : i \in 1..Len(q) \/ i = Len(q) + 1
  BY <1>1
<1>5. q # <<>> => Head(Append(q, x)) = Head(q)
  BY <1>1, <1>2
<1> QED
  BY <1>1, <1>2, <1>3, <1>4, <1>5

LEMMA TailSet ==
    ASSUME NEW q \in Seq(Nat), q # <<>>
    PROVE  /\ {q[i] : i \in 1..Len(q)} = {Tail(q)[i] : i \in 1..Len(Tail(q))} \cup {Head(q)}
           /\ Head(q) \in Nat
<1>1. Len(Tail(q)) = Len(q) - 1 /\ Len(q) \in Nat \ {0} /\ Head(q) = q[1] /\ q[1] \in Nat
  OBVIOUS
<1>2. \A i \in 1..(Len(q) - 1) : Tail(q)[i] = q[i + 1] /\ i + 1 \in 1..Len(q)
  BY <1>1
<1>3. \A i \in 1..Len(q) : i = 1 \/ (i - 1 \in 1..(Len(q) - 1) /\ Tail(q)[i - 1] = q[i])
  BY <1>1
<1>4. 1 \in 1..Len(q)
  BY <1>1
<1> QED
  BY <1>1, <1>2, <1>3, <1>4

LEMMA Parts ==
    /\ Holding = Queued \cup ({pendingControl, inHand} \ {0}) \cup IF Applies THEN {Len(reqs)} ELSE {}
    /\ (queue = <<>> => Queued = {}) /\ Queued \subseteq Holding
  BY DEF Holding, Queued, Applies

LEMMA HeldSame ==
    ASSUME UNCHANGED <<queue, pendingControl, inHand>>,
           UNCHANGED <<cb, reqs>> \/ (~Applies /\ ~Applies')
    PROVE  Holding' = Holding /\ Queued' = Queued
  BY Parts DEF Holding, Queued, Applies

LEMMA HeldEdge ==
    ASSUME NEW flag, TakeEdge(flag), UNCHANGED inHand,
           UNCHANGED <<cb, reqs>> \/ (~Applies /\ ~Applies')
    PROVE  Holding' \subseteq Holding /\ Queued' \subseteq Queued
<1>1. Queued' \subseteq Queued /\ pendingControl' \in {0, pendingControl}
  BY HoldingEdge
<1> QED
  BY <1>1 DEF Holding, Applies

LEMMA HeldAdmit ==
    ASSUME TypeOK, cb = "admit" => Len(reqs) # 0, WriteAdmit
    PROVE  /\ Holding' = IF Admit = "discarded" THEN Holding ELSE Holding \cup {Len(reqs)}
           /\ Queued' = Queued /\ (Applies' <=> Admit # "discarded") /\ ~Applies
<1>1. UNCHANGED <<queue, pendingControl, inHand>>
  BY DEF WriteAdmit
<1>2. ~Applies /\ (Applies' <=> Admit # "discarded")
  BY Judged DEF Applies
<1> QED
  BY <1>1, <1>2, Judged DEF Holding, Queued, Applies

LEMMA HeldEnd ==
    ASSUME TypeOK, RequestInv, HoldInv, WriteEnd
    PROVE  Holding' = Holding /\ Queued \subseteq Queued' /\ Queued' \subseteq Queued \cup {Len(reqs)}
<1>1. /\ cb' = "idle" /\ UNCHANGED <<inHand, reqs>> /\ cb \in {"hold", "pend"}
      /\ Len(reqs) \in Nat \ {0} /\ queue \in Seq(Nat)
  BY DEF WriteEnd, RequestInv, Writing, TypeOK, HistoryTypeOK, SharedTypeOK
<1>2. CASE cb = "hold"
  <2>1. queue' = Append(queue, Len(reqs)) /\ UNCHANGED pendingControl
    BY <1>2 DEF WriteEnd
  <2>2. Queued' = Queued \cup {Len(reqs)}
    BY <1>1, <2>1, AppendSet DEF Queued
  <2> QED
    BY <1>1, <1>2, <2>1, <2>2 DEF Holding
<1>3. CASE cb = "pend"
  <2>1. UNCHANGED queue /\ pendingControl' = Len(reqs) /\ pendingControl = 0
    BY <1>3 DEF WriteEnd, HoldInv
  <2>2. Queued' = Queued
    BY <2>1 DEF Queued
  <2> QED
    BY <1>1, <1>3, <2>1, <2>2 DEF Holding
<1> QED
  BY <1>1, <1>2, <1>3

LEMMA HeldTake ==
    ASSUME HandInv, PumpTake
    PROVE  /\ Holding' = Holding /\ Queued' = Queued /\ inHand = 0 /\ ~Writing
           /\ pendingControl' = 0 /\ inHand' = pendingControl
<1>1. pendingControl' = 0 /\ inHand' = pendingControl /\ UNCHANGED <<queue, cb, reqs>> /\ pc = "take"
  BY DEF PumpTake
<1>2. inHand = 0 /\ ~Writing
  BY <1>1 DEF HandInv
<1> QED
  BY <1>1, <1>2 DEF Holding, Queued

LEMMA HeldHold ==
    ASSUME TypeOK, HandInv, PumpHold
    PROVE  /\ Holding' = Holding /\ Queued' = Queued \cup {inHand} /\ inHand # 0 /\ ~Writing
           /\ inHand' = 0 /\ UNCHANGED pendingControl
<1>1. /\ queue' = Append(queue, inHand) /\ inHand' = 0 /\ UNCHANGED <<pendingControl, cb, reqs>>
      /\ pc = "hold"
  BY DEF PumpHold
<1>2. inHand # 0 /\ ~Writing /\ queue \in Seq(Nat) /\ inHand \in Nat
  BY <1>1 DEF HandInv, TypeOK, SharedTypeOK, PumpTypeOK
<1>3. Queued' = Queued \cup {inHand}
  BY <1>1, <1>2, AppendSet DEF Queued
<1> QED
  BY <1>1, <1>2, <1>3 DEF Holding

LEMMA HeldPop ==
    ASSUME TypeOK, HoldInv, PumpPop
    PROVE  /\ Holding' \subseteq Holding /\ Holding = Holding' \cup {Head(queue)}
           /\ Queued = Queued' \cup {Head(queue)} /\ queue' = Tail(queue) /\ queue # <<>>
           /\ queue \in Seq(Nat) /\ UNCHANGED <<pendingControl, inHand, cb, reqs, answered, gone>>
           /\ pc' = "control" /\ pc = "pop" /\ Head(queue) \in answered
<1>1. queue # <<>> /\ queue \in Seq(Nat) /\ Head(queue) \in answered
  BY DEF HoldInv, PumpPop, TypeOK, SharedTypeOK
<1>2. /\ queue' = Tail(queue) /\ UNCHANGED <<pendingControl, inHand, cb, reqs, answered, gone>>
      /\ pc' = "control" /\ pc = "pop"
  BY <1>1 DEF PumpPop, Goto
<1>3. Queued = Queued' \cup {Head(queue)}
  BY <1>1, <1>2, TailSet DEF Queued
<1> QED
  BY <1>1, <1>2, <1>3 DEF Holding

\* The poll that reads no link leaves nothing held.
LEMMA HeldDown ==
    ASSUME TypeOK, HandInv, LinkInv, HoldInv, PumpEdge, TakeEdge(FALSE), subs = {}
    PROVE  Holding' = {} /\ Expected = {}
<1>1. pc = "edge" /\ UNCHANGED <<inHand, cb, reqs>>
  BY DEF PumpEdge
<1>2. inHand = 0 /\ ~Applies
  BY <1>1 DEF HandInv, LinkInv
<1>3. Holding' \subseteq Holding
  BY <1>1, HeldEdge
<1>4. trkUp => Holding' = {}
  BY <1>1, <1>2, EdgeDown DEF Cleared, Holding, Queued, Applies
<1>5. ~trkUp => Holding = {}
  BY DEF HoldInv
<1> QED
  BY <1>3, <1>4, <1>5 DEF LinkInv

\* An edge that costs a response costs it only a client that is not listening.
LEMMA HeldForSome ==
    ASSUME TypeOK, HandInv, LinkInv, HoldInv,
           PumpEdge \/ OtherGatt \/ \E kind \in {"quick", "probe"} : WriteArrives(kind)
    PROVE  Holding' \subseteq Holding /\ (Expected # {} => Holding' = Holding /\ Untouched)
<1>1. UNCHANGED inHand /\ (UNCHANGED <<cb, reqs>> \/ (~Applies /\ ~Applies'))
  BY DEF PumpEdge, OtherGatt, WriteArrives, Applies, CallbackRuns
<1>2. CASE up /\ TakeEdge(TRUE)
  <2>1. Expected # {} => Untouched
    BY <1>2, EdgeUp DEF LinkInv
  <2>2. Untouched => Holding' = Holding
    BY <1>1, HeldSame DEF Untouched
  <2> QED
    BY <1>1, <1>2, <2>1, <2>2, HeldEdge
<1>3. CASE PumpEdge /\ TakeEdge(FALSE) /\ subs = {}
  BY <1>3, HeldDown
<1> QED
  BY <1>2, <1>3, EdgeCases

\* While the pump takes a delivered response off the queue no callback clears it.
LEMMA PopQuiet ==
    ASSUME Swift => "send" \notin Preempt, TypeOK, LinkInv, HoldInv, pc = "pop",
           OtherGatt \/ \E kind \in {"quick", "probe"} : WriteArrives(kind)
    PROVE  Untouched
<1>1. up /\ TakeEdge(TRUE) /\ "send" \in Preempt
  BY Zenon DEF OtherGatt, WriteArrives, ObserveLinkUp, CallbackRuns
<1>2. ~Swift
  BY <1>1
<1>3. Holding # {}
  <2>1. queue # <<>> /\ queue \in Seq(Nat)
    BY DEF HoldInv, TypeOK, SharedTypeOK
  <2> QED
    BY <2>1, TailSet DEF Holding, Queued
<1>4. Served
  BY <1>1, <1>2, <1>3 DEF HoldInv, Served
<1> QED
  BY <1>1, <1>4, EdgeUp DEF LinkInv

LEMMA HoldInit == Init => HoldInv
<1> SUFFICES ASSUME Init PROVE HoldInv
  OBVIOUS
<1>1. Holding = {} /\ Expected = {}
  BY DEF Init, Holding, Queued, Expected
<1> QED
  BY <1>1 DEF Init, HoldInv

LEMMA HoldFrame ==
    ASSUME HoldInv, UNCHANGED <<queue, pendingControl, inHand, trkVars, up, central, polled,
                                reqs, gone, answered>>,
           UNCHANGED cb \/ (~Applies /\ ~Applies'),
           pc' = pc \/ pc' \notin {"take", "pop"}
    PROVE  HoldInv'
<1>1. Holding' = Holding /\ Expected' = Expected
  BY HeldSame DEF Expected
<1>2. cb' = "pend" => cb = "pend"
  BY DEF Applies
<1> QED
  BY <1>1, <1>2 DEF HoldInv

LEMMA HoldEdge ==
    ASSUME {"poll", "due"} \cap Preempt = {}, Swift => "send" \notin Preempt,
           TypeOK, HandInv, LinkInv, RequestInv, HoldInv,
           PumpEdge \/ OtherGatt \/ \E kind \in {"quick", "probe"} : WriteArrives(kind)
    PROVE  HoldInv'
<1>1. /\ UNCHANGED <<inHand, up, central, subs, gone, answered>>
      /\ (UNCHANGED <<cb, reqs>> \/ (~Applies /\ ~Applies'))
      /\ pc # "take" /\ pc' # "take" /\ (pc' = "pop" => pc = "pop" /\ ~PumpEdge)
  BY DEF PumpEdge, OtherGatt, WriteArrives, Applies, CallbackRuns, Goto
<1>2. Expected' = Expected
  <2>1. CASE UNCHANGED reqs
    BY <1>1, <2>1 DEF Expected
  <2>2. ASSUME NEW kind \in {"quick", "probe"}, WriteArrives(kind) PROVE Expected' = Expected
    <3>1. /\ reqs \in Seq(Requests) /\ Len(reqs) \in Nat
          /\ reqs' = Append(reqs, [link |-> link, kind |-> kind, verdict |-> "new"])
      BY <2>2 DEF TypeOK, HistoryTypeOK, WriteArrives
    <3>2. /\ Len(reqs') = Len(reqs) + 1 /\ \A i \in 1..Len(reqs) : reqs'[i] = reqs[i]
          /\ reqs'[Len(reqs) + 1].verdict = "new"
      BY <3>1
    <3> QED
      BY <1>1, <3>1, <3>2 DEF Expected
  <2> QED
    BY <2>1, <2>2 DEF PumpEdge, OtherGatt
<1>3. Holding' \subseteq Holding /\ (Expected # {} => Holding' = Holding)
  BY HeldForSome
<1>4. Expected' \subseteq Holding' \cup answered'
  BY <1>1, <1>2, <1>3 DEF HoldInv
<1>5. cb' = "pend" => pendingControl' = 0
  <2>1. pendingControl' \in {0, pendingControl}
    BY HoldingEdge, EdgeCases
  <2>2. cb' = "pend" => cb = "pend"
    BY <1>1 DEF Applies
  <2> QED
    BY <2>1, <2>2 DEF HoldInv
<1>6. pc' = "pop" => queue' # <<>> /\ Head(queue') \in answered'
  <2> SUFFICES ASSUME pc' = "pop" PROVE queue' = queue
    BY <1>1 DEF HoldInv
  <2>1. Untouched
    BY <1>1, PopQuiet
  <2> QED
    BY <2>1 DEF Untouched
<1>7. CASE up /\ TakeEdge(TRUE)
  <2>1. trkUp' /\ (Served => trkCentral' = trkCentral)
    BY <1>7, EdgeUp DEF LinkInv
  <2>2. ~Swift /\ Holding' # {} => trkCentral' = central'
    <3> SUFFICES ASSUME ~Swift, Holding' # {} PROVE trkCentral' = central
      BY <1>1
    <3>1. Served
      BY <1>3, <1>7 DEF HoldInv, Served
    <3> QED
      BY <2>1, <3>1 DEF Served
  <2> QED
    BY <1>1, <1>4, <1>5, <1>6, <1>7, <2>1, <2>2 DEF HoldInv
<1>8. CASE PumpEdge /\ TakeEdge(FALSE) /\ subs = {}
  <2>1. Holding' = {}
    BY <1>8, HeldDown
  <2> QED
    BY <1>1, <1>4, <1>5, <1>6, <2>1 DEF HoldInv
<1> QED
  BY <1>7, <1>8, EdgeCases

LEMMA HoldAdmit ==
    ASSUME TypeOK, HandInv, LinkInv, RequestInv, HoldInv, WriteAdmit
    PROVE  HoldInv'
<1>0. cb = "admit" => Len(reqs) # 0
  BY DEF RequestInv, Writing
<1>1. /\ UNCHANGED <<queue, pendingControl, inHand, trkVars, up, central, subs, polled, gone, answered, pc>>
      /\ cb = "admit" /\ pc # "take"
  BY DEF WriteAdmit, HandInv, Writing
<1>2. Holding' = IF Admit = "discarded" THEN Holding ELSE Holding \cup {Len(reqs)}
  BY <1>0, HeldAdmit
<1>3. Admit # "discarded" => Served /\ up
  <2>1. Admit # "discarded" => "control" \in subs
    BY Zenon DEF Admit
  <2> QED
    BY <1>1, <2>1 DEF LinkInv, Writing
<1>4. cb' = "pend" => pendingControl' = 0
  <2>1. Admit = "done" => pendingControl = 0
    BY Zenon DEF Admit
  <2> QED
    BY <1>0, <1>1, <2>1, Judged
<1>5. Expected' \subseteq Holding' \cup answered'
  <2> SUFFICES ASSUME NEW r \in Expected' PROVE r \in Holding' \cup answered
    BY <1>1
  <2>1. r \in 1..Len(reqs) /\ r \notin gone /\ reqs'[r].verdict \in {"done", "busy"}
    BY <1>0, <1>1, Judged DEF Expected
  <2>2. CASE r = Len(reqs)
    BY <1>0, <1>2, <2>1, <2>2, Judged
  <2>3. CASE r # Len(reqs)
    <3>1. r \in Expected
      BY <1>0, <2>1, <2>3, Judged DEF Expected
    <3> QED
      BY <1>2, <3>1 DEF HoldInv
  <2> QED
    BY <2>2, <2>3
<1> QED
  BY <1>1, <1>2, <1>3, <1>4, <1>5 DEF HoldInv, Served

\* The link comes and goes, and with it what it was to wait for.
LEMMA HoldMoves ==
    ASSUME TypeOK, LinkInv, HoldInv,
           \/ \E c \in Centrals : Connect(c)
           \/ Drop
           \/ \E c \in Chars : Subscribe(c) \/ Unsubscribe(c)
    PROVE  HoldInv'
<1>1. /\ UNCHANGED <<queue, pendingControl, inHand, cb, reqs, trkVars, answered, pc>>
  BY DEF Connect, Drop, Subscribe, Unsubscribe
<1>2. Holding' = Holding
  BY <1>1, HeldSame
<1>3. Expected' \subseteq Expected
  <2>1. CASE UNCHANGED gone
    BY <1>1, <2>1 DEF Expected
  <2>2. CASE gone' = 1..Len(reqs)
    BY <1>1, <2>2 DEF Expected
  <2> QED
    BY <2>1, <2>2 DEF Connect, Drop, Subscribe, Unsubscribe
<1>4. ~Swift /\ Holding # {} => IF up' THEN trkCentral' = central' ELSE polled' < 2
  <2> SUFFICES ASSUME ~Swift, Holding # {} PROVE IF up' THEN trkCentral' = central' ELSE polled' < 2
    OBVIOUS
  <2>1. CASE \E c \in Centrals : Connect(c)
    <3>1. ~up /\ polled = 2
      BY <2>1 DEF Connect, MayChange
    <3> QED
      BY <3>1 DEF HoldInv
  <2>2. CASE Drop
    BY <2>2 DEF Drop
  <2>3. CASE \E c \in Chars : Subscribe(c) \/ Unsubscribe(c)
    BY <1>1, <2>3 DEF Subscribe, Unsubscribe, HoldInv
  <2> QED
    BY <2>1, <2>2, <2>3
<1> QED
  BY <1>1, <1>2, <1>3, <1>4 DEF HoldInv

LEMMA HoldNext ==
    ASSUME {"poll", "due"} \cap Preempt = {}, Swift => "send" \notin Preempt
    PROVE  TypeOK /\ HandInv /\ LinkInv /\ RequestInv /\ HoldInv /\ [Next]_vars => HoldInv'
<1> SUFFICES ASSUME TypeOK, HandInv, LinkInv, RequestInv, HoldInv, [Next]_vars PROVE HoldInv'
  OBVIOUS
<1>1. CASE PumpRead
  <2>1. /\ UNCHANGED <<queue, pendingControl, inHand, cb, reqs, trkVars, up, central, gone, answered>>
        /\ (polled < 2 => polled' < 2) /\ pc' = "edge"
    BY <1>1 DEF PumpRead, Goto
  <2>2. Holding' = Holding /\ Expected' = Expected
    BY <2>1, HeldSame DEF Expected
  <2> QED
    BY <2>1, <2>2 DEF HoldInv
<1>2. CASE PumpEdge \/ OtherGatt \/ \E kind \in {"quick", "probe"} : WriteArrives(kind)
  BY <1>2, HoldEdge
<1>3. CASE WriteAdmit
  BY <1>3, HoldAdmit
<1>4. CASE WriteEnd
  <2>1. /\ cb' = "idle" /\ UNCHANGED <<trkVars, up, central, polled, reqs, gone, answered, pc>>
        /\ cb \in {"hold", "pend"}
    BY <1>4 DEF WriteEnd
  <2>2. Holding' = Holding /\ Expected' = Expected
    BY <1>4, <2>1, HeldEnd DEF Expected
  <2>3. pc # "take"
    BY <2>1 DEF HandInv, Writing
  <2>4. pc = "pop" => queue' # <<>> /\ Head(queue') = Head(queue)
    <3>1. queue \in Seq(Nat) /\ Len(reqs) \in Nat /\ (queue' = queue \/ queue' = Append(queue, Len(reqs)))
      BY <1>4 DEF WriteEnd, TypeOK, SharedTypeOK, HistoryTypeOK
    <3> QED
      BY <3>1, AppendSet DEF HoldInv
  <2> QED
    BY <2>1, <2>2, <2>3, <2>4 DEF HoldInv
<1>5. CASE PumpDue
  <2>1. /\ UNCHANGED <<queue, pendingControl, inHand, cb, reqs, trkVars, up, central, polled, gone, answered>>
        /\ (pc' = "take" => pendingControl # 0) /\ pc' # "pop"
    BY <1>5 DEF PumpDue, Goto
  <2>2. Holding' = Holding /\ Expected' = Expected
    BY <2>1, HeldSame DEF Expected
  <2> QED
    BY <2>1, <2>2 DEF HoldInv
<1>6. CASE PumpTake
  <2>1. /\ UNCHANGED <<cb, reqs, trkVars, up, central, polled, gone, answered>>
        /\ pc' \notin {"take", "pop"}
    BY <1>6 DEF PumpTake, Goto
  <2>2. Holding' = Holding /\ Expected' = Expected /\ pendingControl' = 0
    BY <1>6, <2>1, HeldTake DEF Expected
  <2> QED
    BY <2>1, <2>2 DEF HoldInv
<1>7. CASE PumpHold
  <2>1. /\ UNCHANGED <<cb, reqs, trkVars, up, central, polled, gone, answered, pendingControl>>
        /\ pc' \notin {"take", "pop"}
    BY <1>7 DEF PumpHold, Goto
  <2>2. Holding' = Holding /\ Expected' = Expected
    BY <1>7, <2>1, HeldHold DEF Expected
  <2> QED
    BY <2>1, <2>2 DEF HoldInv
<1>8. CASE PumpControl
  <2>1. /\ UNCHANGED <<queue, pendingControl, inHand, cb, reqs, trkVars, up, central, polled, gone>>
        /\ answered \subseteq answered' /\ pc' # "take"
        /\ (pc' = "pop" => queue # <<>> /\ Head(queue) \in answered')
    BY <1>8 DEF PumpControl, Goto
  <2>2. Holding' = Holding /\ Expected' = Expected
    BY <2>1, HeldSame DEF Expected
  <2> QED
    BY <2>1, <2>2 DEF HoldInv
<1>9. CASE PumpPop
  <2>1. UNCHANGED <<trkVars, up, central, polled>>
    BY <1>9 DEF PumpPop
  <2>2. Expected' = Expected
    BY <1>9, HeldPop DEF Expected
  <2> QED
    BY <1>9, <2>1, <2>2, HeldPop DEF HoldInv
<1>10. CASE PumpSubs \/ PumpRetry \/ PumpElapsed \/ PumpRefused \/ PumpGate \/ PumpOffer \/ PumpCommit \/ PumpTickEnd
            \/ \E burst \in [Streams -> 0..MaxBurst] : PumpPoll(burst)
  <2>1. /\ UNCHANGED <<queue, pendingControl, inHand, cb, reqs, trkVars, up, central, polled, gone, answered>>
        /\ (pc' = pc \/ pc' \notin {"take", "pop"})
    BY <1>10 DEF PumpSubs, PumpRetry, PumpElapsed, PumpRefused, PumpGate, PumpOffer, PumpCommit, PumpTickEnd,
       PumpPoll, Goto
  <2> QED
    BY <2>1, HoldFrame
<1>11. CASE \/ \E c \in Centrals : Connect(c)
            \/ Drop
            \/ \E c \in Chars : Subscribe(c) \/ Unsubscribe(c)
  BY <1>11, HoldMoves
<1>12. CASE Stall \/ Drain \/ RetryElapses \/ ProbeCompletes \/ ReadyHook \/ ReadyHookEnd
  <2>1. /\ UNCHANGED <<queue, pendingControl, inHand, reqs, trkVars, up, central, polled, gone, answered, pc>>
        /\ UNCHANGED cb \/ (~Applies /\ ~Applies')
    BY <1>12 DEF Stall, Drain, RetryElapses, ProbeCompletes, ReadyHook, ReadyHookEnd, CallbackRuns, Applies
  <2> QED
    BY <2>1, HoldFrame
<1>13. CASE UNCHANGED vars
  BY <1>13, HoldFrame DEF vars
<1> QED
  BY <1>1, <1>2, <1>3, <1>4, <1>5, <1>6, <1>7, <1>8, <1>9, <1>10, <1>11, <1>12, <1>13
     DEF Next, Pump, Callback, Environment

-----------------------------------------------------------------------------
(* One place for each response *)

LEMMA AppendDifferent ==
    ASSUME NEW q \in Seq(Nat), NEW x \in Nat, Different(q), x \notin {q[i] : i \in 1..Len(q)}
    PROVE  Different(Append(q, x))
<1>1. /\ Len(Append(q, x)) = Len(q) + 1 /\ Len(q) \in Nat
      /\ \A i \in 1..Len(q) : Append(q, x)[i] = q[i]
      /\ Append(q, x)[Len(q) + 1] = x
  OBVIOUS
<1> DEFINE p == Append(q, x)
<1> HIDE DEF p
<1> SUFFICES ASSUME NEW i \in 1..(Len(q) + 1), NEW j \in 1..(Len(q) + 1), i < j
             PROVE  p[i] # p[j]
  BY <1>1 DEF Different, p
<1>2. i \in 1..Len(q) /\ p[i] = q[i]
  BY <1>1 DEF p
<1>3. CASE j \in 1..Len(q)
  BY <1>1, <1>2, <1>3 DEF Different, p
<1>4. CASE j = Len(q) + 1
  <2>1. p[j] = x
    BY <1>1, <1>4 DEF p
  <2> QED
    BY <1>2, <2>1
<1> QED
  BY <1>1, <1>3, <1>4

LEMMA TailDifferent ==
    ASSUME NEW q \in Seq(Nat), q # <<>>, Different(q)
    PROVE  Different(Tail(q)) /\ Head(q) \notin {Tail(q)[i] : i \in 1..Len(Tail(q))}
<1>1. /\ Len(Tail(q)) = Len(q) - 1 /\ Len(q) \in Nat \ {0} /\ Head(q) = q[1]
      /\ \A i \in 1..(Len(q) - 1) : Tail(q)[i] = q[i + 1]
  OBVIOUS
<1>2. \A i \in 1..(Len(q) - 1) : i + 1 \in 1..Len(q) /\ 1 < i + 1
  BY <1>1
<1>3. \A i \in 1..(Len(q) - 1) : Tail(q)[i] # Head(q)
  BY <1>1, <1>2 DEF Different
<1>4. \A i, j \in 1..(Len(q) - 1) : i < j => Tail(q)[i] # Tail(q)[j]
  <2> SUFFICES ASSUME NEW i \in 1..(Len(q) - 1), NEW j \in 1..(Len(q) - 1), i < j
               PROVE  q[i + 1] # q[j + 1]
    BY <1>1
  <2>1. i + 1 < j + 1
    BY <1>1
  <2> QED
    BY <1>2, <2>1 DEF Different
<1> QED
  BY <1>1, <1>3, <1>4 DEF Different

LEMMA RequestInit == Init => RequestInv
<1> SUFFICES ASSUME Init PROVE RequestInv
  OBVIOUS
<1>1. Holding = {} /\ Queued = {} /\ Len(reqs) = 0
  BY DEF Init, Holding, Queued
<1>2. Distinct
  BY <1>1 DEF Init, Distinct, Different, Applies
<1> QED
  BY <1>1, <1>2, BoundAssumption DEF Init, RequestInv, Writing

\* Where nothing is told from what is held, nothing is told of what is held less.
LEMMA RequestShrinks ==
    ASSUME RequestInv, UNCHANGED <<inHand, reqs, gone, answered, cb>>,
           \/ UNCHANGED <<queue, pendingControl>>
           \/ queue' = <<>> /\ pendingControl' = 0,
           (pc' = pc /\ queue' = queue) \/ pc # "pop"
    PROVE  RequestInv'
<1>1. Holding' \subseteq Holding /\ Queued' \subseteq Queued /\ pendingControl' \in {0, pendingControl}
  <2>1. queue' = <<>> => Queued' = {}
    BY DEF Queued
  <2>2. UNCHANGED queue => Queued' = Queued
    BY DEF Queued
  <2> QED
    BY <2>1, <2>2 DEF Holding
<1>2. Distinct'
  <2>1. Different(queue')
    BY DEF RequestInv, Distinct, Different
  <2>2. 0 \notin Queued'
    BY <1>1, Parts DEF RequestInv
  <2>3. Applies' = Applies /\ (Applies => Len(reqs) # 0)
    BY DEF Applies, RequestInv, Writing
  <2> QED
    BY <1>1, <2>1, <2>2, <2>3 DEF RequestInv, Distinct
<1>3. Writing' = Writing
  BY DEF Writing
<1> QED
  BY <1>1, <1>2, <1>3 DEF RequestInv

LEMMA RequestArrives ==
    ASSUME Swift => "send" \notin Preempt, TypeOK, LinkInv, HoldInv, RequestInv,
           NEW kind \in {"quick", "probe"}, WriteArrives(kind)
    PROVE  RequestInv'
<1>0. TakeEdge(TRUE)
  BY Zenon DEF WriteArrives, ObserveLinkUp
<1>1. /\ UNCHANGED <<inHand, gone, answered, pc>> /\ cb' = "admit" /\ cb = "idle"
      /\ reqs \in Seq(Requests) /\ Len(reqs) \in Nat /\ Len(reqs) < MaxReqs
      /\ reqs' = Append(reqs, [link |-> link, kind |-> kind, verdict |-> "new"])
  BY DEF WriteArrives, TypeOK, HistoryTypeOK, CallbackRuns
<1>2. /\ Len(reqs') = Len(reqs) + 1 /\ \A i \in 1..Len(reqs) : reqs'[i] = reqs[i]
      /\ reqs'[Len(reqs) + 1].verdict = "new"
  BY <1>1
<1>3. Holding' \subseteq Holding /\ Queued' \subseteq Queued
  BY <1>0, <1>1, HeldEdge DEF Applies
<1>4. \/ queue' = <<>> /\ pendingControl' = 0
      \/ UNCHANGED <<queue, pendingControl>>
  BY <1>0, QueueEdge
<1>5. Distinct'
  <2>1. Different(queue')
    BY <1>4 DEF RequestInv, Distinct, Different
  <2>2. 0 \notin Queued' /\ ~Applies'
    BY <1>1, <1>3, Parts DEF RequestInv, Applies
  <2> QED
    BY <1>1, <1>3, <1>4, <2>1, <2>2 DEF RequestInv, Distinct
<1>6. pc = "pop" => queue' = queue
  BY PopQuiet DEF Untouched
<1>7. Holding \cup answered \cup gone \subseteq 1..Len(reqs)
  BY DEF RequestInv
<1>8. Holding' \cup answered' \cup gone' \subseteq 1..Len(reqs') /\ Len(reqs') <= MaxReqs
  BY <1>1, <1>2, <1>3, <1>7, BoundAssumption
<1>9. Len(reqs') \notin Holding' \cup answered'
  BY <1>1, <1>2, <1>3, <1>7
<1>10. \A r \in Holding' : reqs'[r].verdict \in {"done", "busy"}
  BY <1>2, <1>3, <1>7 DEF RequestInv
<1>11. \A r \in Holding' : r \in answered' => pc' = "pop" /\ r = Head(queue')
  BY <1>1, <1>3, <1>6 DEF RequestInv
<1>12. Len(reqs') # 0 /\ reqs'[Len(reqs')].verdict = "new"
  BY <1>1, <1>2
<1> QED
  BY <1>5, <1>8, <1>9, <1>10, <1>11, <1>12 DEF RequestInv

LEMMA RequestAdmit ==
    ASSUME TypeOK, RequestInv, WriteAdmit
    PROVE  RequestInv'
<1>0. cb = "admit" => Len(reqs) # 0
  BY DEF RequestInv, Writing
<1>1. UNCHANGED <<queue, pendingControl, inHand, gone, answered, pc>>
  BY DEF WriteAdmit
<1>2. /\ Holding' = IF Admit = "discarded" THEN Holding ELSE Holding \cup {Len(reqs)}
      /\ Queued' = Queued /\ (Applies' <=> Admit # "discarded")
  BY <1>0, HeldAdmit
<1>3. Len(reqs) \notin Holding \cup answered /\ Holding \cup answered \cup gone \subseteq 1..Len(reqs)
  BY Judged, <1>0 DEF RequestInv
<1>4. Distinct'
  <2>1. {pendingControl, inHand} \ {0} \subseteq Holding /\ Queued \subseteq Holding
    BY Parts
  <2>2. Len(reqs') \notin Queued' \cup {pendingControl', inHand'}
    BY <1>0, <1>1, <1>2, <1>3, <2>1, Judged
  <2> QED
    BY <1>1, <1>2, <2>2 DEF RequestInv, Distinct, Different
<1>5. \A r \in Holding' : reqs'[r].verdict \in {"done", "busy"}
  <2> SUFFICES ASSUME NEW r \in Holding' PROVE reqs'[r].verdict \in {"done", "busy"}
    OBVIOUS
  <2>1. CASE r = Len(reqs)
    BY <1>0, <1>2, <1>3, <2>1, Judged
  <2>2. CASE r # Len(reqs)
    BY <1>0, <1>2, <1>3, <2>2, Judged DEF RequestInv
  <2> QED
    BY <2>1, <2>2
<1>6. Holding' \cup answered' \cup gone' \subseteq 1..Len(reqs') /\ Len(reqs') <= MaxReqs /\ Len(reqs') # 0
  BY <1>0, <1>1, <1>2, <1>3, Judged DEF RequestInv
<1>7. \A r \in Holding' : r \in answered' => pc' = "pop" /\ r = Head(queue')
  BY <1>1, <1>2, <1>3 DEF RequestInv
<1>8. cb' # "admit"
  BY <1>0, Judged
<1> QED
  BY <1>4, <1>5, <1>6, <1>7, <1>8 DEF RequestInv

LEMMA RequestEnd ==
    ASSUME TypeOK, HandInv, HoldInv, RequestInv, WriteEnd
    PROVE  RequestInv'
<1>1. /\ cb' = "idle" /\ UNCHANGED <<inHand, reqs, gone, answered, pc>>
      /\ cb \in {"hold", "pend"} /\ Applies /\ ~Applies' /\ ~Writing'
      /\ queue \in Seq(Nat) /\ Len(reqs) \in Nat \ {0}
  BY DEF WriteEnd, Applies, Writing, RequestInv, TypeOK, SharedTypeOK, HistoryTypeOK
<1>2. Holding' = Holding
  BY HeldEnd
<1>3. Len(reqs) \notin Queued \cup {pendingControl, inHand}
  BY <1>1 DEF RequestInv, Distinct
<1>4. Distinct'
  <2>1. CASE cb = "hold"
    <3>1. queue' = Append(queue, Len(reqs)) /\ UNCHANGED pendingControl
      BY <2>1 DEF WriteEnd
    <3>2. Different(queue')
      BY <1>1, <1>3, <3>1, AppendDifferent DEF Queued, RequestInv, Distinct
    <3>3. Queued' = Queued \cup {Len(reqs)}
      BY <1>1, <3>1, AppendSet DEF Queued
    <3> QED
      BY <1>1, <1>3, <3>1, <3>2, <3>3 DEF RequestInv, Distinct
  <2>2. CASE cb = "pend"
    <3>1. UNCHANGED queue /\ pendingControl' = Len(reqs)
      BY <2>2 DEF WriteEnd
    <3>2. Queued' = Queued
      BY <3>1 DEF Queued
    <3> QED
      BY <1>1, <1>3, <3>1, <3>2 DEF RequestInv, Distinct, Different
  <2> QED
    BY <1>1, <2>1, <2>2
<1>5. \A r \in Holding : r \in answered => pc' = "pop" /\ r = Head(queue')
  <2> SUFFICES ASSUME pc = "pop" PROVE Head(queue') = Head(queue)
    BY <1>1 DEF RequestInv
  <2>1. queue' = queue \/ queue' = Append(queue, Len(reqs))
    BY DEF WriteEnd
  <2> QED
    BY <1>1, <2>1, AppendSet DEF HoldInv
<1> QED
  BY <1>1, <1>2, <1>4, <1>5 DEF RequestInv

LEMMA RequestPump ==
    ASSUME TypeOK, HandInv, HoldInv, RequestInv,
           PumpTake \/ PumpHold \/ PumpControl \/ PumpPop
    PROVE  RequestInv'
<1>1. queue \in Seq(Nat) /\ inHand \in Nat /\ pendingControl \in Nat
  BY DEF TypeOK, SharedTypeOK, PumpTypeOK
<1>2. CASE PumpTake
  <2>1. /\ UNCHANGED <<queue, cb, reqs, gone, answered>> /\ pc = "take"
    BY <1>2 DEF PumpTake
  <2>2. /\ Holding' = Holding /\ Queued' = Queued /\ ~Writing /\ inHand = 0
        /\ pendingControl' = 0 /\ inHand' = pendingControl
    BY <1>2, HeldTake
  <2>3. Distinct'
    <3>1. ~Applies' /\ 0 \notin Queued
      BY <2>1, <2>2, Parts DEF Applies, Writing, RequestInv
    <3> QED
      BY <2>1, <2>2, <3>1 DEF RequestInv, Distinct, Different
  <2> QED
    BY <2>1, <2>2, <2>3 DEF RequestInv, Writing
<1>3. CASE PumpHold
  <2>1. /\ UNCHANGED <<cb, reqs, gone, answered>> /\ pc = "hold"
        /\ queue' = Append(queue, inHand)
    BY <1>3 DEF PumpHold
  <2>2. /\ Holding' = Holding /\ Queued' = Queued \cup {inHand} /\ inHand # 0 /\ ~Writing
        /\ inHand' = 0 /\ UNCHANGED pendingControl
    BY <1>3, HeldHold
  <2>3. Distinct'
    <3>1. ~Applies' /\ 0 \notin Queued'
      BY <2>1, <2>2, Parts DEF Applies, Writing, RequestInv
    <3>2. Different(queue')
      BY <1>1, <2>1, AppendDifferent DEF Queued, RequestInv, Distinct
    <3> QED
      BY <2>1, <2>2, <3>1, <3>2 DEF RequestInv, Distinct
  <2> QED
    BY <2>1, <2>2, <2>3 DEF RequestInv, Writing
<1>4. CASE PumpControl
  <2>1. UNCHANGED <<queue, pendingControl, inHand, cb, reqs, gone>> /\ pc = "control"
    BY <1>4 DEF PumpControl
  <2>2. Holding' = Holding /\ Queued' = Queued
    BY <2>1, HeldSame
  <2>3. Distinct' /\ Writing' = Writing
    BY <2>1, <2>2 DEF RequestInv, Distinct, Different, Applies, Writing
  <2>4. CASE UNCHANGED answered
    BY <2>1, <2>2, <2>3, <2>4 DEF RequestInv
  <2>5. CASE queue # <<>> /\ answered' = answered \cup {Head(queue)} /\ pc' = "pop"
    <3>1. Head(queue) \in Holding
      BY <1>1, <2>5, TailSet DEF Holding, Queued
    <3> QED
      BY <2>1, <2>2, <2>3, <2>5, <3>1 DEF RequestInv
  <2> QED
    BY <1>4, <2>4, <2>5 DEF PumpControl, Goto
<1>5. CASE PumpPop
  <2>1. /\ Holding' \subseteq Holding /\ Holding = Holding' \cup {Head(queue)}
        /\ Queued = Queued' \cup {Head(queue)} /\ queue' = Tail(queue) /\ queue # <<>>
        /\ UNCHANGED <<pendingControl, inHand, cb, reqs, answered, gone>>
        /\ Head(queue) \in answered
    BY <1>5, HeldPop
  <2>2. Different(queue') /\ Head(queue) \notin Queued'
    BY <1>1, <2>1, TailDifferent DEF Queued, RequestInv, Distinct
  <2>3. Distinct'
    BY <2>1, <2>2 DEF RequestInv, Distinct, Applies
  <2>4. Head(queue) \notin Holding'
    <3>1. Head(queue) \in Queued /\ Head(queue) \in Holding
      BY <2>1, Parts
    <3>2. Head(queue) \notin {pendingControl, inHand} /\ (Applies => Head(queue) # Len(reqs))
      BY <3>1 DEF RequestInv, Distinct
    <3> QED
      BY <2>1, <2>2, <3>2 DEF Holding, Applies
  <2>5. \A r \in Holding' : r \notin answered
    BY <2>1, <2>4 DEF RequestInv
  <2>6. Writing' = Writing
    BY <2>1 DEF Writing
  <2> QED
    BY <2>1, <2>3, <2>5, <2>6 DEF RequestInv
<1> QED
  BY <1>2, <1>3, <1>4, <1>5

LEMMA RequestNext ==
    ASSUME {"poll", "due"} \cap Preempt = {}, Swift => "send" \notin Preempt
    PROVE  TypeOK /\ HandInv /\ LinkInv /\ HoldInv /\ RequestInv /\ [Next]_vars => RequestInv'
<1> SUFFICES ASSUME TypeOK, HandInv, LinkInv, HoldInv, RequestInv, [Next]_vars PROVE RequestInv'
  OBVIOUS
<1>1. CASE PumpEdge
  <2>1. UNCHANGED <<inHand, reqs, gone, answered, cb>> /\ pc # "pop"
    BY <1>1 DEF PumpEdge
  <2> QED
    BY <1>1, <2>1, QueueEdge, RequestShrinks DEF PumpEdge
<1>2. CASE OtherGatt
  <2>1. UNCHANGED <<inHand, reqs, gone, answered, cb, pc>>
    BY <1>2 DEF OtherGatt
  <2>2. pc = "pop" => queue' = queue
    BY <1>2, PopQuiet DEF Untouched
  <2> QED
    BY <1>2, <2>1, <2>2, QueueEdge, RequestShrinks DEF OtherGatt, ObserveLinkUp
<1>3. CASE \E kind \in {"quick", "probe"} : WriteArrives(kind)
  BY <1>3, RequestArrives
<1>4. CASE WriteAdmit
  BY <1>4, RequestAdmit
<1>5. CASE WriteEnd
  BY <1>5, RequestEnd
<1>6. CASE PumpTake \/ PumpHold \/ PumpControl \/ PumpPop
  BY <1>6, RequestPump
<1>7. CASE PumpRead \/ PumpSubs \/ PumpDue \/ PumpRetry \/ PumpElapsed
           \/ PumpRefused \/ PumpGate \/ PumpOffer \/ PumpCommit \/ PumpTickEnd
           \/ \E burst \in [Streams -> 0..MaxBurst] : PumpPoll(burst)
  <2>1. UNCHANGED <<queue, pendingControl, inHand, reqs, gone, answered, cb>> /\ pc # "pop"
    BY <1>7 DEF PumpRead, PumpSubs, PumpDue, PumpRetry, PumpElapsed, PumpRefused,
       PumpGate, PumpOffer, PumpCommit, PumpTickEnd, PumpPoll
  <2> QED
    BY <2>1, RequestShrinks
<1>8. CASE \/ \E c \in Centrals : Connect(c)
           \/ Drop
           \/ \E c \in Chars : Subscribe(c) \/ Unsubscribe(c)
  <2>1. /\ UNCHANGED <<queue, pendingControl, inHand, cb, reqs, answered, pc>>
        /\ gone' \in {gone, 1..Len(reqs)}
    BY <1>8 DEF Connect, Drop, Subscribe, Unsubscribe
  <2>2. Holding' = Holding /\ Queued' = Queued
    BY <2>1, HeldSame
  <2>3. Distinct' /\ Writing' = Writing
    BY <2>1, <2>2 DEF RequestInv, Distinct, Different, Applies, Writing
  <2> QED
    BY <2>1, <2>2, <2>3 DEF RequestInv
<1>9. CASE ReadyHook \/ ReadyHookEnd
  <2>1. /\ UNCHANGED <<queue, pendingControl, inHand, reqs, gone, answered, pc>>
        /\ ~Applies /\ ~Applies' /\ ~Writing'
    BY <1>9 DEF ReadyHook, ReadyHookEnd, CallbackRuns, Applies, Writing
  <2>2. Holding' = Holding /\ Queued' = Queued
    BY <2>1, HeldSame
  <2>3. Distinct' /\ cb' # "admit"
    BY <2>1, <2>2 DEF RequestInv, Distinct, Different, Writing
  <2> QED
    BY <2>1, <2>2, <2>3 DEF RequestInv
<1>10. CASE Stall \/ Drain \/ RetryElapses \/ ProbeCompletes
  BY <1>10, RequestShrinks DEF Stall, Drain, RetryElapses, ProbeCompletes
<1>11. CASE UNCHANGED vars
  BY <1>11, RequestShrinks DEF vars
<1> QED
  BY <1>1, <1>2, <1>3, <1>4, <1>5, <1>6, <1>7, <1>8, <1>9, <1>10, <1>11
     DEF Next, Pump, Callback, Environment

-----------------------------------------------------------------------------
(* The control plane *)

ChanInv == LinkInv /\ HoldInv /\ RequestInv

LEMMA ChanInvariant ==
    ASSUME {"poll", "due"} \cap Preempt = {}, Swift => "send" \notin Preempt
    PROVE  Spec => [](TypeOK /\ HandInv /\ ChanInv)
<1>1. Init => TypeOK /\ HandInv /\ ChanInv
  <2>1. Init => HandInv
    BY DEF Init, HandInv
  <2> QED
    BY <2>1, InitType, LinkInit, HoldInit, RequestInit DEF ChanInv
<1>2. TypeOK /\ HandInv /\ ChanInv /\ [Next]_vars => (TypeOK /\ HandInv /\ ChanInv)'
  BY NextType, HandNext, LinkNext, HoldNext, RequestNext DEF ChanInv
<1> QED
  BY <1>1, <1>2, PTL DEF Spec

\* A request that took effect or was told busy is never forgotten, for any depth of the
\* queue: a client that listens is the one on record, so that no edge clears what it waits
\* for.  Assumed: no callback between the poll's reading and its edge, none inside the
\* take-over of the deferred answer; and if one may run while a sent response is taken off
\* the queue, no outage is too short for the poll.
THEOREM NothingIsForgotten ==
    ASSUME {"poll", "due"} \cap Preempt = {}, Swift => "send" \notin Preempt
    PROVE  Spec => []NothingForgotten
<1>1. HoldInv => NothingForgotten
  <2>1. Owed = Holding \ answered
    BY DEF Owed, Holding, Queued
  <2> QED
    BY <2>1 DEF HoldInv, NothingForgotten
<1> QED
  BY <1>1, ChanInvariant, PTL DEF ChanInv

LEMMA AliveNext ==
    ASSUME {"poll", "due", "hook"} \cap Preempt = {}
    PROVE  TypeOK /\ HandInv /\ HoldInv /\ CommitInv /\ AliveInv /\ [Next]_vars => AliveInv'
<1> SUFFICES ASSUME TypeOK, HandInv, HoldInv, CommitInv, AliveInv, [Next]_vars PROVE AliveInv'
  OBVIOUS
<1>1. CASE PumpTake
  BY <1>1 DEF PumpTake, HoldInv, Goto, AliveInv
<1>2. CASE PumpElapsed
  BY <1>2, Zenon DEF PumpElapsed, AliveInv, Goto
<1>3. CASE PumpPop
  BY <1>3, HeldPop DEF AliveInv
<1>4. CASE PumpRetry
  BY <1>4, Zenon DEF PumpRetry, PumpRuns, AliveInv, Goto
<1>11. CASE PumpCommit
  BY <1>11, Zenon DEF PumpCommit, CommitInv, AliveInv, Goto
<1>5. CASE PumpRead \/ PumpEdge \/ PumpSubs \/ PumpDue \/ PumpHold \/ PumpControl
           \/ PumpRefused \/ PumpGate \/ PumpOffer \/ PumpTickEnd
           \/ \E burst \in [Streams -> 0..MaxBurst] : PumpPoll(burst)
  <2>1. PumpDue => pc' \in {"take", "retry"}
    BY Zenon DEF PumpDue, Goto
  <2>2. PumpRefused => pc' \in {"poll", "read"}
    BY Zenon DEF PumpRefused, Goto
  <2>3. PumpGate => pc' \in {"offer", "read"}
    BY Zenon DEF PumpGate, Goto
  <2>4. PumpOffer => pc' \in {"offer", "commit", "refused"}
    BY DEF PumpOffer, Goto
  <2>5. pc' \notin {"dead", "elapsed"}
    BY <1>5, <2>1, <2>2, <2>3, <2>4
       DEF PumpRead, PumpEdge, PumpSubs, PumpHold, PumpControl, PumpTickEnd, PumpPoll, Goto
  <2> QED
    BY <2>5 DEF AliveInv
<1>6. CASE OtherGatt \/ ReadyHook \/ \E kind \in {"quick", "probe"} : WriteArrives(kind)
  <2>1. pc # "elapsed" /\ pc' = pc
    BY <1>6 DEF OtherGatt, ReadyHook, WriteArrives, CallbackRuns, AliveInv
  <2> QED
    BY <2>1 DEF AliveInv
<1>7. CASE WriteAdmit \/ WriteEnd
  <2>1. cb' # "hook" /\ UNCHANGED <<blocked, pc>>
    BY <1>7, Zenon DEF WriteAdmit, WriteEnd
  <2> QED
    BY <2>1, Zenon DEF AliveInv
<1>8. CASE ReadyHookEnd
  <2>1. cb = "hook" /\ pc' = pc
    BY <1>8 DEF ReadyHookEnd
  <2> QED
    BY <2>1, Zenon DEF AliveInv
<1>9. CASE Environment
  <2>1. UNCHANGED <<blocked, cb, pc>>
    BY <1>9 DEF Environment, Connect, Drop, Subscribe, Unsubscribe, Stall, Drain,
       RetryElapses, ProbeCompletes
  <2> QED
    BY <2>1, Zenon DEF AliveInv
<1>10. CASE UNCHANGED vars
  <2>1. UNCHANGED <<blocked, cb, pc>>
    BY <1>10 DEF vars
  <2> QED
    BY <2>1, Zenon DEF AliveInv
<1> QED
  BY <1>1, <1>2, <1>3, <1>4, <1>5, <1>6, <1>7, <1>8, <1>9, <1>10, <1>11 DEF Next, Pump, Callback

-----------------------------------------------------------------------------
(* Every link its own *)

LEMMA OwnNext ==
    ASSUME ~Swift
    PROVE  TypeOK /\ HandInv /\ ChanInv /\ OwnInv /\ [Next]_vars => OwnInv'
<1> SUFFICES ASSUME TypeOK, HandInv, ChanInv, OwnInv, [Next]_vars PROVE OwnInv'
  OBVIOUS
<1> USE DEF ChanInv
<1>1. ASSUME Holding' \subseteq Holding, UNCHANGED <<reqs, link>>, Writing' => Writing
      PROVE  OwnInv'
  BY <1>1 DEF OwnInv
<1>2. CASE PumpEdge \/ OtherGatt
  <2>1. UNCHANGED <<inHand, cb, reqs, link>>
    BY <1>2 DEF PumpEdge, OtherGatt
  <2>2. Holding' \subseteq Holding /\ Writing' = Writing
    BY <1>2, <2>1, HeldForSome DEF Writing
  <2> QED
    BY <1>1, <2>1, <2>2
<1>3. CASE \E kind \in {"quick", "probe"} : WriteArrives(kind)
  <2>1. /\ reqs \in Seq(Requests) /\ Len(reqs) \in Nat /\ UNCHANGED link
        /\ \E kind \in {"quick", "probe"} :
              reqs' = Append(reqs, [link |-> link, kind |-> kind, verdict |-> "new"])
    BY <1>3 DEF WriteArrives, TypeOK, HistoryTypeOK
  <2>2. /\ Len(reqs') = Len(reqs) + 1 /\ \A i \in 1..Len(reqs) : reqs'[i] = reqs[i]
        /\ reqs'[Len(reqs) + 1].link = link
    BY <2>1
  <2>3. Holding' \subseteq Holding /\ Holding \subseteq 1..Len(reqs)
    BY <1>3, HeldForSome DEF RequestInv
  <2> QED
    BY <2>1, <2>2, <2>3 DEF OwnInv
<1>4. CASE WriteAdmit
  <2>0. cb = "admit" => Len(reqs) # 0
    BY DEF RequestInv, Writing
  <2>1. /\ Holding' \subseteq Holding \cup {Len(reqs)} /\ Len(reqs') = Len(reqs) /\ UNCHANGED link
        /\ \A i \in 1..Len(reqs) : reqs'[i].link = reqs[i].link
        /\ Writing /\ Holding \subseteq 1..Len(reqs)
    BY <1>4, <2>0, HeldAdmit, Judged DEF WriteAdmit, Writing, RequestInv
  <2> QED
    BY <1>4, <2>0, <2>1, Judged DEF OwnInv
<1>5. CASE WriteEnd
  BY <1>1, <1>5, HeldEnd DEF WriteEnd, Writing
<1>6. CASE PumpTake
  BY <1>1, <1>6, HeldTake DEF PumpTake, Writing
<1>7. CASE PumpHold
  BY <1>1, <1>7, HeldHold DEF PumpHold, Writing
<1>8. CASE PumpPop
  BY <1>1, <1>8, HeldPop DEF PumpPop, Writing
<1>9. CASE PumpRead \/ PumpSubs \/ PumpDue \/ PumpRetry \/ PumpElapsed \/ PumpControl
           \/ PumpRefused \/ PumpGate \/ PumpOffer \/ PumpCommit \/ PumpTickEnd
           \/ \E burst \in [Streams -> 0..MaxBurst] : PumpPoll(burst)
  <2>1. UNCHANGED <<queue, pendingControl, inHand, reqs, link, cb>>
    BY <1>9 DEF PumpRead, PumpSubs, PumpDue, PumpRetry, PumpElapsed, PumpControl, PumpRefused,
       PumpGate, PumpOffer, PumpCommit, PumpTickEnd, PumpPoll
  <2>2. Holding' = Holding /\ Writing' = Writing
    BY <2>1, HeldSame DEF Writing
  <2> QED
    BY <1>1, <2>1, <2>2
<1>10. CASE \E c \in Centrals : Connect(c)
  <2>1. ~up /\ polled = 2 /\ cb' = "idle"
    BY <1>10 DEF Connect, MayChange, LinkChanges, CallbackRuns
  <2>2. Holding = {}
    BY <2>1 DEF HoldInv
  <2>3. Holding' = Holding
    BY <1>10, HeldSame DEF Connect
  <2> QED
    BY <2>1, <2>2, <2>3 DEF OwnInv, Writing
<1>11. CASE Drop \/ Stall \/ Drain \/ RetryElapses \/ ProbeCompletes
            \/ \E c \in Chars : Subscribe(c) \/ Unsubscribe(c)
  <2>1. UNCHANGED <<queue, pendingControl, inHand, reqs, link, cb>>
    BY <1>11 DEF Drop, Stall, Drain, RetryElapses, ProbeCompletes, Subscribe, Unsubscribe
  <2>2. Holding' = Holding /\ Writing' = Writing
    BY <2>1, HeldSame DEF Writing
  <2> QED
    BY <1>1, <2>1, <2>2
<1>12. CASE ReadyHook \/ ReadyHookEnd
  <2>1. /\ UNCHANGED <<queue, pendingControl, inHand, reqs, link>>
        /\ ~Applies /\ ~Applies' /\ ~Writing'
    BY <1>12 DEF ReadyHook, ReadyHookEnd, CallbackRuns, Applies, Writing
  <2> QED
    BY <1>1, <2>1, HeldSame
<1>13. CASE UNCHANGED vars
  <2>1. UNCHANGED <<queue, pendingControl, inHand, reqs, link, cb>>
    BY <1>13 DEF vars
  <2>2. Holding' = Holding /\ Writing' = Writing
    BY <2>1, HeldSame DEF Writing
  <2> QED
    BY <1>1, <2>1, <2>2
<1> QED
  BY <1>2, <1>3, <1>4, <1>5, <1>6, <1>7, <1>8, <1>9, <1>10, <1>11, <1>12, <1>13
     DEF Next, Pump, Callback, Environment

-----------------------------------------------------------------------------
(* Every notification its own link *)

Early == {"read", "edge", "subs"}

LEMMA StreamInit == Init => StreamInv
  BY DEF Init, StreamInv, Held, IsConnected

\* A step that moves neither the link nor what is held.
LEMMA StreamFrame ==
    ASSUME StreamInv, UNCHANGED <<link, up, subs, trkUp, pending, snap>>,
           (polled' = 2 => polled = 2), (polled < 2 => polled' < 2),
           pc' \in Early \/ pc \notin Early
    PROVE  StreamInv'
<1>1. IsConnected' = IsConnected /\ Held' = Held
  BY DEF IsConnected, Held
<1> QED
  BY <1>1, Zenon DEF StreamInv, Early

LEMMA StreamEdge ==
    ASSUME TypeOK, LinkInv, StreamInv,
           PumpEdge \/ OtherGatt \/ \E kind \in {"quick", "probe"} : WriteArrives(kind)
    PROVE  StreamInv'
<1>1. /\ UNCHANGED <<link, up, subs, snap>>
      /\ \/ UNCHANGED <<polled, pc>> /\ ~PumpEdge
         \/ PumpEdge /\ pc' = "subs"
  BY DEF PumpEdge, OtherGatt, WriteArrives, CallbackRuns, Goto
<1>2. IsConnected' = IsConnected
  BY <1>1 DEF IsConnected
<1>3. CASE up /\ TakeEdge(TRUE)
  <2>1. trkUp' /\ (pending' = pending \/ pending' = [s \in Streams |-> NoPayload])
    BY <1>3, EdgeUp DEF LinkInv, Untouched, Cleared
  <2>2. PumpEdge => IsConnected
    BY <2>1, PollEdge, EdgeDown
  <2>3. Held' => Held
    BY <2>1 DEF Held
  <2>4. \A s \in Streams : pending'[s] # NoPayload => pending'[s] = pending[s] /\ pending[s] # NoPayload
    BY <2>1
  <2>5. ~IsConnected => UNCHANGED <<polled, pc>>
    BY <1>1, <2>2
  <2> QED
    BY <1>1, <1>2, <2>1, <2>3, <2>4, <2>5, Zenon DEF StreamInv
<1>4. CASE PumpEdge /\ TakeEdge(FALSE) /\ ~IsConnected
  <2>1. pc' = "subs"
    BY <1>1, <1>4
  <2>2. trkUp => pending' = [s \in Streams |-> NoPayload]
    BY <1>4, EdgeDown DEF Cleared
  <2>3. ~trkUp => pending' = pending /\ ~Held
    BY <1>4, EdgeDown DEF Untouched, StreamInv
  <2>4. ~Held'
    BY <2>2, <2>3 DEF Held
  <2> QED
    BY <1>2, <1>4, <2>1, <2>4 DEF StreamInv, Held
<1> QED
  BY <1>3, <1>4, EdgeCases

LEMMA StreamPoll ==
    ASSUME StreamInv, NEW burst \in [Streams -> 0..MaxBurst], PumpPoll(burst)
    PROVE  StreamInv'
<1>1. UNCHANGED <<link, up, subs, polled, trkUp, snap>> /\ pc = "poll" /\ pc' = "gate"
      /\ pending' = [s \in Streams |-> PollStream(s, burst[s]).hold]
  BY DEF PumpPoll, Goto
<1>2. ASSUME NEW s \in Streams
      PROVE  \/ pending'[s] = pending[s]
             \/ pending'[s].link = link /\ s \in snap
  <2>1. burst[s] \in 0..MaxBurst
    OBVIOUS
  <2>2. CASE burst[s] = 0
    BY <1>1, <2>2 DEF PollStream
  <2>3. CASE burst[s] > 0 /\ s \notin snap
    BY <1>1, <2>1, <2>3, BoundAssumption DEF PollStream
  <2>4. CASE burst[s] = 1 /\ s \in snap
    BY <1>1, <2>4 DEF PollStream
  <2>5. CASE burst[s] > 1 /\ s \in snap
    BY <1>1, <2>5 DEF PollStream
  <2> QED
    BY <2>1, <2>2, <2>3, <2>4, <2>5, BoundAssumption
<1>3. Held' => Held \/ snap # {}
  BY <1>2 DEF Held
<1>4. IsConnected' = IsConnected
  BY <1>1 DEF IsConnected
<1> QED
  BY <1>1, <1>2, <1>3, <1>4 DEF StreamInv

LEMMA StreamMoves ==
    ASSUME ~Swift, TypeOK, LinkInv, StreamInv,
           \/ \E c \in Centrals : Connect(c)
           \/ Drop
           \/ \E c \in Chars : Subscribe(c) \/ Unsubscribe(c)
    PROVE  StreamInv'
<1>1. UNCHANGED <<pending, snap, trkUp, pc>>
  BY DEF Connect, Drop, Subscribe, Unsubscribe
<1>2. Held' = Held
  BY <1>1 DEF Held
<1>3. CASE \E c \in Centrals : Connect(c)
  <2>1. /\ ~up /\ polled = 2 /\ subs = {} /\ subs' = {} /\ Steady
    BY <1>3 DEF Connect, MayChange, LinkInv
  <2>2. ~IsConnected
    BY <2>1 DEF IsConnected
  <2>3. ~Held /\ (pc \notin Early => snap = {})
    BY <2>1, <2>2 DEF StreamInv, Early
  <2>4. IsConnected' => polled' = 0
    BY <2>1, <2>2 DEF Steady
  <2> QED
    BY <1>1, <1>2, <2>3, <2>4 DEF StreamInv, Early, Held
<1>4. CASE Drop
  <2>1. ~up' /\ subs' = {} /\ polled' = 0 /\ UNCHANGED link /\ (IsConnected => polled = 2)
    BY <1>4 DEF Drop, MayChange
  <2>2. ~IsConnected'
    BY <2>1 DEF IsConnected
  <2> QED
    BY <1>1, <1>2, <2>1, <2>2 DEF StreamInv
<1>5. CASE \E c \in Chars : Subscribe(c) \/ Unsubscribe(c)
  <2>1. UNCHANGED <<link, up>> /\ Steady
    BY <1>5 DEF Subscribe, Unsubscribe
  <2>2. CASE IsConnected' = IsConnected
    <3>1. UNCHANGED polled
      BY <2>1, <2>2 DEF Steady
    <3> QED
      BY <1>1, <1>2, <2>1, <2>2, <3>1 DEF StreamInv
  <2>3. CASE IsConnected' # IsConnected
    <3>1. polled' = 0 /\ polled = 2
      BY <2>1, <2>3 DEF Steady, MayChange
    <3>2. IsConnected \in BOOLEAN /\ IsConnected' \in BOOLEAN
      <4>1. up \in BOOLEAN /\ up' \in BOOLEAN
        BY <2>1 DEF TypeOK, FlagsOK
      <4> QED
        BY <4>1, Zenon DEF IsConnected
    <3>3. trkUp \/ (~IsConnected /\ IsConnected')
      BY <2>3, <3>1, <3>2 DEF StreamInv
    <3> QED
      BY <1>1, <1>2, <2>1, <3>1, <3>3 DEF StreamInv
  <2> QED
    BY <2>2, <2>3
<1> QED
  BY <1>3, <1>4, <1>5

LEMMA StreamNext ==
    ASSUME ~Swift
    PROVE  TypeOK /\ LinkInv /\ StreamInv /\ [Next]_vars => StreamInv'
<1> SUFFICES ASSUME TypeOK, LinkInv, StreamInv, [Next]_vars PROVE StreamInv'
  OBVIOUS
<1>1. CASE PumpRead
  BY <1>1, StreamFrame DEF PumpRead, Goto, Early, TypeOK, LinkTypeOK
<1>2. CASE PumpEdge \/ OtherGatt \/ \E kind \in {"quick", "probe"} : WriteArrives(kind)
  BY <1>2, StreamEdge
<1>3. CASE PumpSubs
  <2>1. UNCHANGED <<link, up, subs, polled, trkUp, pending>> /\ snap' = subs /\ pc' = "due"
    BY <1>3 DEF PumpSubs, Goto
  <2>2. IsConnected' = IsConnected /\ Held' = Held /\ (subs # {} => IsConnected)
    BY <2>1 DEF IsConnected, Held, LinkInv
  <2> QED
    BY <2>1, <2>2 DEF StreamInv
<1>4. CASE \E burst \in [Streams -> 0..MaxBurst] : PumpPoll(burst)
  BY <1>4, StreamPoll
<1>5. CASE PumpCommit
  <2>1. UNCHANGED <<link, up, subs, polled, trkUp, snap>> /\ pc \notin Early
    BY <1>5 DEF PumpCommit, Early
  <2>2. pending' = [pending EXCEPT ![Head(left)] = NoPayload]
    BY <1>5 DEF PumpCommit
  <2>3. pending \in [Streams -> Payloads]
    BY DEF TypeOK, SharedTypeOK
  <2>4. \A s \in Streams : pending'[s] \in {pending[s], NoPayload}
    BY <2>2, <2>3
  <2>5. IsConnected' = IsConnected /\ (Held' => Held)
    BY <2>1, <2>4 DEF IsConnected, Held
  <2> QED
    BY <2>1, <2>4, <2>5 DEF StreamInv, Early
<1>6. CASE PumpDue \/ PumpTake \/ PumpHold \/ PumpRetry \/ PumpElapsed \/ PumpControl \/ PumpPop
           \/ PumpRefused \/ PumpGate \/ PumpOffer \/ PumpTickEnd
  <2>1. UNCHANGED <<link, up, subs, polled, trkUp, pending, snap>> /\ pc \notin Early
    BY <1>6 DEF PumpDue, PumpTake, PumpHold, PumpRetry, PumpElapsed, PumpControl, PumpPop,
       PumpRefused, PumpGate, PumpOffer, PumpTickEnd, Early
  <2> QED
    BY <2>1, StreamFrame
<1>7. CASE \/ \E c \in Centrals : Connect(c)
           \/ Drop
           \/ \E c \in Chars : Subscribe(c) \/ Unsubscribe(c)
  BY <1>7, StreamMoves
<1>8. CASE \/ WriteAdmit \/ WriteEnd \/ ReadyHook \/ ReadyHookEnd
           \/ Stall \/ Drain \/ RetryElapses \/ ProbeCompletes \/ UNCHANGED vars
  <2>1. UNCHANGED <<link, up, subs, polled, trkUp, pending, snap, pc>>
    BY <1>8 DEF WriteAdmit, WriteEnd, ReadyHook, ReadyHookEnd, Stall, Drain, RetryElapses,
       ProbeCompletes, vars
  <2> QED
    BY <2>1, StreamFrame
<1> QED
  BY <1>1, <1>2, <1>3, <1>4, <1>5, <1>6, <1>7, <1>8 DEF Next, Pump, Callback, Environment

\* An offer the stack took is the one the pump was making.
LEMMA AcceptedIsOffer ==
    ASSUME TypeOK, [Next]_vars, NEW s \in Streams, Accepted(s)
    PROVE  PumpOffer /\ s = Head(left) /\ pending[s] # NoPayload /\ up
<1>1. pc = "offer" /\ pc' = "commit" /\ s = Head(left)
  BY DEF Accepted
<1>2. PumpOffer
  <2>1. ~ (Callback \/ Environment \/ UNCHANGED vars)
    <3>1. UNCHANGED pc => FALSE
      BY <1>1
    <3> QED
      BY <3>1 DEF Callback, OtherGatt, WriteArrives, WriteAdmit, WriteEnd, ReadyHook, ReadyHookEnd,
         Environment, Connect, Drop, Subscribe, Unsubscribe, Stall, Drain, RetryElapses,
         ProbeCompletes, vars
  <2> QED
    BY <1>1, <2>1 DEF Next, Pump, PumpRead, PumpEdge, PumpSubs, PumpDue, PumpTake, PumpHold,
       PumpRetry, PumpElapsed, PumpControl, PumpPop, PumpRefused, PumpPoll, PumpGate, PumpCommit,
       PumpTickEnd, Goto
<1> QED
  BY <1>1, <1>2 DEF PumpOffer, StackTakes, Goto

\* A response goes out once, on the link that asked for it, and a notification only on the
\* link it was built for.  Assumed: the poll sees every outage (the code's own condition:
\* a tick is short), and no callback beside the poll's edge or the deferred answer's.
THEOREM LinksDoNotMix ==
    ASSUME ~Swift, {"poll", "due"} \cap Preempt = {}
    PROVE  Spec => OwnLinkOnly
<1> DEFINE Step == /\ pc = "control" /\ pc' = "pop" =>
                        Head(queue) \notin answered /\ reqs[Head(queue)].link = link
                   /\ \A s \in Streams : Accepted(s) => pending[s].link = link
<1>1. TypeOK /\ ChanInv /\ OwnInv /\ StreamInv /\ [Next]_vars => Step
  <2> SUFFICES ASSUME TypeOK, ChanInv, OwnInv, StreamInv, [Next]_vars PROVE Step
    OBVIOUS
  <2>1. ASSUME pc = "control", pc' = "pop"
        PROVE  Head(queue) \notin answered /\ reqs[Head(queue)].link = link
    <3>1. ~ (Callback \/ Environment \/ UNCHANGED vars)
      <4>1. UNCHANGED pc => FALSE
        BY <2>1
      <4> QED
        BY <4>1 DEF Callback, OtherGatt, WriteArrives, WriteAdmit, WriteEnd, ReadyHook, ReadyHookEnd,
           Environment, Connect, Drop, Subscribe, Unsubscribe, Stall, Drain, RetryElapses,
           ProbeCompletes, vars
    <3>2. PumpControl
      BY <2>1, <3>1 DEF Next, Pump, PumpRead, PumpEdge, PumpSubs, PumpDue, PumpTake, PumpHold,
         PumpRetry, PumpElapsed, PumpPop, PumpRefused, PumpPoll, PumpGate, PumpOffer, PumpCommit, PumpTickEnd
    <3>3. queue # <<>> /\ queue \in Seq(Nat)
      BY <2>1, <3>2 DEF PumpControl, Goto, TypeOK, SharedTypeOK
    <3>4. Head(queue) \in Holding
      BY <3>3, TailSet, Parts DEF Queued
    <3> QED
      BY <2>1, <3>4 DEF ChanInv, RequestInv, OwnInv
  <2>2. ASSUME NEW s \in Streams, Accepted(s)
        PROVE  pending[s].link = link
    BY <2>2, AcceptedIsOffer DEF StreamInv
  <2> QED
    BY <2>1, <2>2
<1>2. Init => OwnInv
  <2>1. Init => Holding = {}
    BY DEF Init, Holding, Queued
  <2> QED
    BY <2>1 DEF Init, OwnInv, Writing
<1>3. TypeOK /\ HandInv /\ ChanInv /\ OwnInv /\ StreamInv /\ [Next]_vars => (OwnInv /\ StreamInv)'
  BY OwnNext, StreamNext DEF ChanInv
<1>4. Spec => [](TypeOK /\ HandInv /\ ChanInv)
  BY ChanInvariant
<1>5. OwnLinkOnly <=> [][Step]_vars
  BY DEF OwnLinkOnly
<1> HIDE DEF Step
<1> QED
  BY <1>1, <1>2, <1>3, <1>4, <1>5, StreamInit, PTL DEF Spec

-----------------------------------------------------------------------------
(* Every number its turn *)

LEMMA CountInit == Init => CountInv
  BY DEF Init, CountInv, CommitInv, Numbered, Served, Held

\* A step that neither moves the link nor counts.
LEMMA CountFrame ==
    ASSUME CountInv, UNCHANGED <<up, central, subs, trkVars, pending, seq, heard, snap>>,
           (polled' = 2 => polled = 2),
           pc' \in {"read", "edge", "dead"} \/ (pc' = pc \/ pc \notin {"read", "edge", "subs", "dead"}),
           UNCHANGED <<pc, left>> \/ "commit" \notin {pc, pc'}
    PROVE  CountInv'
<1>1. Held' = Held /\ Served' = Served
  BY DEF Served, Held
<1>2. CommitInv' /\ (pc' = "commit" => up')
  BY DEF CountInv, CommitInv
<1>3. \A s : Numbered(s)' = Numbered(s)
  BY DEF Numbered
<1> QED
  BY <1>1, <1>2, <1>3 DEF CountInv

LEMMA CountEdge ==
    ASSUME "poll" \notin Preempt, TypeOK, LinkInv, StreamInv, CountInv,
           PumpEdge \/ OtherGatt \/ \E kind \in {"quick", "probe"} : WriteArrives(kind)
    PROVE  CountInv'
<1>1. /\ UNCHANGED <<up, central, subs, snap, heard>>
      /\ \/ UNCHANGED <<polled, pc, left>> /\ ~PumpEdge
         \/ PumpEdge /\ pc = "edge" /\ pc' = "subs"
  BY DEF PumpEdge, OtherGatt, WriteArrives, CallbackRuns, Goto
<1>2. seq \in [Streams -> 0..(SeqMod - 1)]
  BY DEF TypeOK, SharedTypeOK
<1>3. CASE up /\ TakeEdge(TRUE)
  <2>1. /\ trkUp' /\ (subs # {} => Served') /\ (Served => Served' /\ Untouched)
        /\ \/ Untouched /\ trkUp /\ trkCentral' = trkCentral
           \/ Cleared /\ seq' = [s \in Streams |-> 0]
    BY <1>1, <1>3, EdgeUp DEF LinkInv, Served
  <2>2. Held' => Served'
    <3>1. Cleared => ~Held'
      BY DEF Cleared, Held
    <3>2. Untouched => (Held' => Held)
      BY DEF Untouched, Held
    <3> QED
      BY <1>3, <2>1, <3>1, <3>2 DEF CountInv
  <2>5. pc = "commit" => Held /\ Served
    <3>1. TypeOK => (left # <<>> => Head(left) \in Streams)
      BY DEF TypeOK, PumpTypeOK
    <3> QED
      BY <1>3, <3>1 DEF CountInv, CommitInv, Held
  <2>6. CommitInv' /\ (pc' = "commit" => up')
    <3>1. pc' = "commit" => pc = "commit" /\ UNCHANGED left
      BY <1>1
    <3>2. pc' = "commit" => UNCHANGED pending /\ up
      BY <2>1, <2>5, <3>1 DEF CountInv, Untouched
    <3> QED
      BY <1>1, <3>1, <3>2 DEF CountInv, CommitInv
  <2>3. \A s \in Streams : Numbered(s)' = heard[s] \/ (BlessSemantics /\ Numbered(s)' = 0)
    <3>1. CASE Untouched /\ trkUp
      <4>1. \A s \in Streams : Numbered(s)' = Numbered(s)
        BY <1>1, <3>1 DEF Numbered, Untouched
      <4> QED
        BY <1>3, <3>1, <4>1 DEF CountInv
    <3>2. CASE ~Served /\ Cleared /\ seq' = [s \in Streams |-> 0]
      <4>1. pc' # "commit"
        BY <1>1, <2>5, <3>2
      <4>2. \A s \in Streams : Numbered(s)' = 0
        BY <3>2, <4>1 DEF Numbered
      <4> QED
        BY <1>3, <3>2, <4>2 DEF CountInv
    <3> QED
      BY <2>1, <3>1, <3>2 DEF Served
  <2>4. pc' \notin {"read", "edge", "subs", "dead"} => UNCHANGED pc
    BY <1>1
  <2> QED
    BY <1>1, <1>3, <2>1, <2>2, <2>3, <2>4, <2>6 DEF CountInv
<1>4. CASE PumpEdge /\ TakeEdge(FALSE) /\ ~IsConnected /\ subs = {}
  <2>1. pc' = "subs" /\ ~trkUp'
    BY <1>1, <1>4, EdgeDown
  <2>2. ~Held'
    <3>1. trkUp => pending' = [s \in Streams |-> NoPayload]
      BY <1>4, EdgeDown DEF Cleared
    <3>2. ~trkUp => pending' = pending /\ ~Held
      BY <1>4, EdgeDown DEF Untouched, StreamInv
    <3> QED
      BY <3>1, <3>2 DEF Held
  <2>3. ~BlessSemantics => ~up
    BY <1>4 DEF IsConnected
  <2> QED
    BY <1>1, <1>4, <2>1, <2>2, <2>3 DEF CountInv, CommitInv
<1> QED
  BY <1>3, <1>4, EdgeCases

LEMMA CountPump ==
    ASSUME TypeOK, StreamInv, CountInv,
           \/ PumpSubs \/ PumpOffer \/ PumpCommit
           \/ \E burst \in [Streams -> 0..MaxBurst] : PumpPoll(burst)
    PROVE  CountInv'
<1>1. UNCHANGED <<up, central, subs, polled, trkVars>>
  BY DEF PumpSubs, PumpOffer, PumpCommit, PumpPoll
<1>2. Served' = Served
  BY <1>1 DEF Served
<1>3. CASE PumpSubs
  <2>1. UNCHANGED <<pending, seq, heard>> /\ snap' = subs /\ pc = "subs" /\ pc' = "due"
    BY <1>3 DEF PumpSubs, Goto
  <2>2. Held' = Held
    BY <2>1 DEF Held
  <2> QED
    BY <1>1, <1>2, <2>1, <2>2 DEF CountInv, CommitInv, Numbered
<1>4. ASSUME NEW burst \in [Streams -> 0..MaxBurst], PumpPoll(burst)
      PROVE  CountInv'
  <2>1. /\ UNCHANGED <<seq, heard, snap>> /\ pc = "poll" /\ pc' = "gate"
        /\ pending' = [s \in Streams |-> PollStream(s, burst[s]).hold]
    BY <1>4 DEF PumpPoll, Goto
  <2>2. \A s \in Streams : pending'[s] = pending[s] \/ s \in snap
    <3> SUFFICES ASSUME NEW s \in Streams, s \notin snap PROVE pending'[s] = pending[s]
      OBVIOUS
    <3>1. burst[s] \in 0..MaxBurst
      OBVIOUS
    <3>2. CASE burst[s] = 0
      BY <2>1, <3>2 DEF PollStream
    <3>3. CASE burst[s] > 0
      BY <2>1, <3>1, <3>3, BoundAssumption DEF PollStream
    <3> QED
      BY <3>1, <3>2, <3>3, BoundAssumption
  <2>3. Held' => Held \/ subs # {}
    BY <2>1, <2>2 DEF Held, CountInv
  <2> QED
    BY <1>1, <1>2, <2>1, <2>3 DEF CountInv, CommitInv, Numbered
<1>5. CASE PumpOffer
  <2>1. /\ UNCHANGED <<snap, pending, seq>> /\ pc = "offer" /\ left # <<>>
        /\ seq \in [Streams -> 0..(SeqMod - 1)] /\ heard \in [Streams -> 0..(SeqMod - 1)]
        /\ Head(left) \in Streams
    BY <1>5 DEF PumpOffer, TypeOK, SharedTypeOK, PumpTypeOK, HistoryTypeOK
  <2>2. Held' = Held
    BY <2>1 DEF Held
  <2>3. \A s \in Streams : Numbered(s) = seq[s]
    BY <2>1 DEF Numbered
  <2>4. CASE UNCHANGED heard /\ pc' # "commit"
    <3>1. \A s \in Streams : Numbered(s)' = seq[s]
      BY <2>1, <2>4 DEF Numbered
    <3>2. pc' \in {"offer", "refused"}
      BY <1>5, <2>1, <2>4 DEF PumpOffer, Goto
    <3> QED
      BY <1>1, <1>2, <2>1, <2>2, <2>3, <2>4, <3>1, <3>2 DEF CountInv, CommitInv
  <2>5. CASE /\ pending[Head(left)] # NoPayload /\ up /\ pc' = "commit" /\ UNCHANGED left
             /\ heard' = [heard EXCEPT ![Head(left)] = (seq[Head(left)] + 1) % SeqMod]
    <3>1. Held /\ Served /\ trkUp
      BY <2>1, <2>5 DEF Held, CountInv, Served
    <3>2. \A s \in Streams : \/ Numbered(s)' = heard'[s]
                             \/ Numbered(s)' = seq[s] /\ heard'[s] = heard[s]
      BY <2>1, <2>5 DEF Numbered
    <3> QED
      BY <1>1, <1>2, <2>1, <2>2, <2>3, <2>5, <3>1, <3>2 DEF CountInv, CommitInv
  <2> QED
    BY <1>5, <2>1, <2>4, <2>5 DEF PumpOffer, StackTakes, Goto
<1>6. CASE PumpCommit
  <2>1. /\ UNCHANGED <<snap, heard>> /\ pc = "commit" /\ left # <<>>
        /\ pending \in [Streams -> Payloads] /\ seq \in [Streams -> 0..(SeqMod - 1)]
        /\ seq' = [seq EXCEPT ![Head(left)] = (@ + 1) % SeqMod]
        /\ pending' = [pending EXCEPT ![Head(left)] = NoPayload]
        /\ Head(left) \in Streams
    BY <1>6 DEF PumpCommit, TypeOK, SharedTypeOK, PumpTypeOK
  <2>2. pc' = "offer"
    BY <1>6, <2>1 DEF PumpCommit, CountInv, CommitInv, Goto
  <2>3. Held' => Held
    BY <2>1 DEF Held
  <2>4. \A s \in Streams : Numbered(s)' = Numbered(s)
    BY <2>1, <2>2 DEF Numbered
  <2> QED
    BY <1>1, <1>2, <2>1, <2>2, <2>3, <2>4 DEF CountInv, CommitInv
<1> QED
  BY <1>3, <1>4, <1>5, <1>6

LEMMA CountNext ==
    ASSUME ~Swift, {"poll", "link"} \cap Preempt = {}
    PROVE  TypeOK /\ LinkInv /\ StreamInv /\ CountInv /\ [Next]_vars => CountInv'
<1> SUFFICES ASSUME TypeOK, LinkInv, StreamInv, CountInv, [Next]_vars PROVE CountInv'
  OBVIOUS
<1>1. CASE PumpRead
  BY <1>1, CountFrame DEF PumpRead, Goto
<1>2. CASE PumpEdge \/ OtherGatt \/ \E kind \in {"quick", "probe"} : WriteArrives(kind)
  BY <1>2, CountEdge
<1>3. CASE \/ PumpSubs \/ PumpOffer \/ PumpCommit
           \/ \E burst \in [Streams -> 0..MaxBurst] : PumpPoll(burst)
  BY <1>3, CountPump
<1>4. CASE PumpDue \/ PumpTake \/ PumpHold \/ PumpRetry \/ PumpElapsed \/ PumpControl \/ PumpPop
           \/ PumpRefused \/ PumpGate \/ PumpTickEnd
  <2>1. /\ UNCHANGED <<up, central, subs, polled, trkVars, pending, seq, heard, snap>>
        /\ pc \notin {"read", "edge", "subs", "dead"} /\ "commit" \notin {pc, pc'}
    BY <1>4 DEF PumpDue, PumpTake, PumpHold, PumpRetry, PumpElapsed, PumpControl, PumpPop,
       PumpRefused, PumpGate, PumpTickEnd, Goto
  <2> QED
    BY <2>1, CountFrame
<1>5. CASE \/ \E c \in Centrals : Connect(c)
           \/ Drop
           \/ \E c \in Chars : Subscribe(c) \/ Unsubscribe(c)
  <2>1. /\ pc \in {"read", "dead"} /\ UNCHANGED <<pc, left, trkVars, pending, seq, snap>>
    BY <1>5 DEF Connect, Drop, Subscribe, Unsubscribe, LinkChanges
  <2>2. Held' = Held /\ CommitInv' /\ \A s : Numbered(s)' = Numbered(s)
    BY <2>1 DEF Held, CommitInv, Numbered
  <2>3. CASE \E c \in Centrals : Connect(c)
    <3>1. ~up /\ polled = 2 /\ up' /\ heard' = [s \in Streams |-> 0]
      BY <2>3 DEF Connect, MayChange
    <3>2. ~trkUp /\ ~IsConnected
      BY <3>1 DEF CountInv, LinkInv, IsConnected
    <3>3. ~Held
      BY <3>1, <3>2 DEF StreamInv
    <3> QED
      BY <2>1, <2>2, <3>1, <3>2, <3>3 DEF CountInv
  <2>4. CASE Drop
    BY <2>1, <2>2, <2>4 DEF Drop, CountInv
  <2>5. CASE \E c \in Chars : Subscribe(c) \/ Unsubscribe(c)
    <3>1. up /\ UNCHANGED <<up, central, heard>>
      BY <2>5 DEF Subscribe, Unsubscribe
    <3>2. Served' = Served
      BY <2>1, <3>1 DEF Served
    <3> QED
      BY <2>1, <2>2, <3>1, <3>2 DEF CountInv
  <2> QED
    BY <1>5, <2>3, <2>4, <2>5
<1>6. CASE \/ WriteAdmit \/ WriteEnd \/ ReadyHook \/ ReadyHookEnd
           \/ Stall \/ Drain \/ RetryElapses \/ ProbeCompletes \/ UNCHANGED vars
  <2>1. UNCHANGED <<up, central, subs, polled, trkVars, pending, seq, heard, snap, pc, left>>
    BY <1>6 DEF WriteAdmit, WriteEnd, ReadyHook, ReadyHookEnd, Stall, Drain, RetryElapses,
       ProbeCompletes, vars
  <2> QED
    BY <2>1, CountFrame
<1> QED
  BY <1>1, <1>2, <1>3, <1>4, <1>5, <1>6 DEF Next, Pump, Callback, Environment

\* The numbers a client sees on a link start at 0 and follow one another, whatever was
\* refused, superseded or unwanted, for any number of streams and any modulus.  Assumed as
\* above, and that no link changes inside a tick.
THEOREM NumbersFollow ==
    ASSUME ~Swift, {"poll", "due", "link"} \cap Preempt = {}
    PROVE  Spec => SeqContiguous
<1> DEFINE Step == \A s \in Streams : Accepted(s) =>
                      seq[s] = heard[s] \/ (BlessSemantics /\ seq[s] = 0)
<1>1. TypeOK /\ CountInv /\ [Next]_vars => Step
  <2> SUFFICES ASSUME TypeOK, CountInv, [Next]_vars, NEW s \in Streams, Accepted(s)
               PROVE  seq[s] = heard[s] \/ (BlessSemantics /\ seq[s] = 0)
    OBVIOUS
  <2>1. Numbered(s) = seq[s]
    BY DEF Accepted, Numbered
  <2>2. up /\ Held
    BY AcceptedIsOffer DEF Held
  <2> QED
    BY <2>1, <2>2 DEF CountInv, Served
<1>2. TypeOK /\ HandInv /\ ChanInv /\ StreamInv /\ CountInv /\ [Next]_vars => (StreamInv /\ CountInv)'
  BY StreamNext, CountNext DEF ChanInv
<1>3. Spec => [](TypeOK /\ HandInv /\ ChanInv)
  BY ChanInvariant
<1>4. SeqContiguous <=> [][Step]_vars
  BY DEF SeqContiguous
<1> HIDE DEF Step
<1> QED
  BY <1>1, <1>2, <1>3, <1>4, StreamInit, CountInit, PTL DEF Spec

-----------------------------------------------------------------------------
(* The pump survives *)

\* No edge, no new payload: what the pump is about to let go stays held.
LEMMA CommitNext ==
    ASSUME "streams" \notin Preempt
    PROVE  CommitInv /\ [Next]_vars => CommitInv'
<1> SUFFICES ASSUME CommitInv, [Next]_vars, pc' = "commit" PROVE CommitInv'
  BY DEF CommitInv
<1>1. CASE Pump
  <2>1. PumpOffer
    BY <1>1 DEF Pump, PumpRead, PumpEdge, PumpSubs, PumpDue, PumpTake, PumpHold, PumpRetry,
       PumpElapsed, PumpControl, PumpPop, PumpRefused, PumpPoll, PumpGate, PumpCommit, PumpTickEnd,
       Goto
  <2> QED
    BY <2>1 DEF PumpOffer, CommitInv, Goto
<1>2. CASE ~Pump
  <2>1. UNCHANGED <<pc, left, pending>>
    BY <1>2 DEF Next, Callback, OtherGatt, WriteArrives, CallbackRuns, WriteAdmit, WriteEnd,
       ReadyHook, ReadyHookEnd, Environment, Connect, Drop, Subscribe, Unsubscribe, Stall, Drain,
       RetryElapses, ProbeCompletes, vars
  <2> QED
    BY <2>1 DEF CommitInv
<1> QED
  BY <1>1, <1>2

\* The pump never reaches one of its four dead ends: no pending answer gone when it is
\* unpacked, no timer gone when it is read again, no response gone when it is taken off the
\* queue, no payload gone when it is let go.  Assumed: no callback beside the first two of
\* those statements; beside the others, where the stack just took something, callbacks may
\* run, if the poll sees every outage and, beside the last, no link changes inside a tick.
THEOREM PumpAlwaysSurvives ==
    ASSUME {"poll", "due", "hook"} \cap Preempt = {}, Swift => "send" \notin Preempt,
           Swift \/ "link" \in Preempt => "streams" \notin Preempt
    PROVE  Spec => []PumpSurvives
<1>1. Init => AliveInv
  BY DEF Init, AliveInv
<1>2. AliveInv => PumpSurvives
  BY DEF AliveInv, PumpSurvives
<1>3. {"poll", "due"} \cap Preempt = {}
  OBVIOUS
<1>4. Spec => [](TypeOK /\ HandInv /\ ChanInv)
  BY <1>3, ChanInvariant
<1>5. TypeOK /\ HandInv /\ ChanInv /\ CommitInv /\ AliveInv /\ [Next]_vars => AliveInv'
  BY AliveNext DEF ChanInv
<1>6. Spec => []CommitInv
  <2>1. CASE "streams" \notin Preempt
    <3>1. Init => CommitInv
      BY DEF Init, CommitInv
    <3> QED
      BY <2>1, <3>1, CommitNext, PTL DEF Spec
  <2>2. CASE ~Swift /\ "link" \notin Preempt
    <3>1. TypeOK /\ HandInv /\ ChanInv /\ StreamInv /\ CountInv /\ [Next]_vars
            => (StreamInv /\ CountInv)'
      BY <2>2, StreamNext, CountNext DEF ChanInv
    <3>2. CountInv => CommitInv
      BY DEF CountInv
    <3> QED
      BY <1>4, <3>1, <3>2, StreamInit, CountInit, PTL DEF Spec
  <2> QED
    BY <2>1, <2>2
<1> QED
  BY <1>1, <1>2, <1>4, <1>5, <1>6, PTL DEF Spec

-----------------------------------------------------------------------------
(* The control plane implements ControlChannel *)

Effective == {r \in Owed : Applied(r)}

LEMMA OwedIsHeld == Owed = Holding \ answered /\ Owed' = Holding' \ answered'
  BY DEF Owed, Holding, Queued

LEMMA ChannelCounts == Channel!Cardinality(Owed) = Cardinality(Owed)
  BY DEF Channel!Cardinality, Cardinality

LEMMA InBounds == \A n \in Nat : n <= MaxReqs => 1..n \subseteq 1..MaxReqs
  BY BoundAssumption

\* A step that moves a response, or a request nobody is owed an answer for.
LEMMA ChannelQuiet ==
    ASSUME UNCHANGED <<answered, gone>>, Owed' = Owed, \A r \in Owed : reqs'[r] = reqs[r]
    PROVE  UNCHANGED <<Owed, Effective, answered, gone>>
  BY DEF Effective, Applied

LEMMA ChannelForget ==
    ASSUME TypeOK, HandInv, ChanInv,
           PumpEdge \/ OtherGatt \/ \E kind \in {"quick", "probe"} : WriteArrives(kind)
    PROVE  \E S \in SUBSET (1..MaxReqs) : Channel!Forget(S)
<1> USE DEF ChanInv
<1>1. UNCHANGED <<answered, gone>>
  BY DEF PumpEdge, OtherGatt, WriteArrives
<1>2. Holding \subseteq 1..Len(reqs) /\ Len(reqs) <= MaxReqs /\ Len(reqs) \in Nat
  BY DEF RequestInv, TypeOK, HistoryTypeOK
<1>3. Holding' \subseteq Holding /\ (Expected # {} => Holding' = Holding)
  BY HeldForSome
<1>4. \A r \in Holding : reqs'[r] = reqs[r]
  <2>1. CASE UNCHANGED reqs
    BY <2>1
  <2>2. ASSUME NEW kind \in {"quick", "probe"}, WriteArrives(kind)
        PROVE  \A r \in Holding : reqs'[r] = reqs[r]
    <3>1. /\ reqs \in Seq(Requests)
          /\ reqs' = Append(reqs, [link |-> link, kind |-> kind, verdict |-> "new"])
      BY <2>2 DEF TypeOK, HistoryTypeOK, WriteArrives
    <3>2. \A i \in 1..Len(reqs) : reqs'[i] = reqs[i]
      BY <3>1
    <3> QED
      BY <1>2, <3>2
  <2> QED
    BY <2>1, <2>2 DEF PumpEdge, OtherGatt
<1> DEFINE S == Owed \ Owed'
<1>5. Owed' = Owed \ S /\ S \subseteq Owed /\ Owed \subseteq Holding
  BY <1>1, <1>3, OwedIsHeld
<1>6. S \subseteq gone
  <2> SUFFICES ASSUME NEW r \in S PROVE r \in gone
    OBVIOUS
  <2>1. r \in Holding /\ r \notin Holding'
    BY <1>1, OwedIsHeld
  <2>2. Expected = {}
    BY <1>3, <2>1
  <2>3. reqs[r].verdict \in {"done", "busy"} /\ r \in 1..Len(reqs)
    BY <1>2, <2>1 DEF RequestInv
  <2> QED
    BY <2>2, <2>3 DEF Expected
<1>7. Effective' = Effective \ S
  BY <1>4, <1>5 DEF Effective, Applied
<1>8. S \in SUBSET (1..MaxReqs)
  <2>1. Holding \subseteq 1..MaxReqs
    BY <1>2, InBounds
  <2> QED
    BY <1>5, <2>1
<1>9. Channel!Forget(S)
  BY <1>1, <1>5, <1>6, <1>7 DEF Channel!Forget, Effective
<1> QED
  BY <1>8, <1>9

\* There is room for what is admitted, and nothing in effect beside what takes effect.
LEMMA ChannelAccept ==
    ASSUME Depth = 1, TypeOK, HandInv, ChanInv, WriteAdmit
    PROVE  \/ \E r \in 1..MaxReqs : \E effect \in BOOLEAN : Channel!Accept(r, effect)
           \/ UNCHANGED <<Owed, Effective, answered, gone>>
<1> USE DEF ChanInv
<1>0. cb = "admit" /\ Len(reqs) # 0 /\ Len(reqs) <= MaxReqs /\ Len(reqs) \in Nat
  BY DEF RequestInv, Writing, WriteAdmit, TypeOK, HistoryTypeOK
<1>1. UNCHANGED <<answered, gone>>
  BY DEF WriteAdmit
<1>2. Holding \subseteq 1..Len(reqs) /\ Len(reqs) \notin Holding \cup answered
  BY <1>0 DEF RequestInv
<1>3. /\ Holding' = IF Admit = "discarded" THEN Holding ELSE Holding \cup {Len(reqs)}
      /\ \A r \in Holding : reqs'[r] = reqs[r]
      /\ reqs'[Len(reqs)].verdict = Admit
  BY <1>0, <1>2, HeldAdmit, Judged
<1>4. CASE Admit = "discarded"
  <2>1. Owed' = Owed /\ \A r \in Owed : reqs'[r] = reqs[r]
    BY <1>1, <1>3, <1>4, OwedIsHeld
  <2> QED
    BY <1>1, <2>1, ChannelQuiet
<1>5. CASE Admit # "discarded"
  <2>1. Owed' = Owed \cup {Len(reqs)} /\ Len(reqs) \notin Owed \cup answered
    BY <1>1, <1>2, <1>3, <1>5, OwedIsHeld
  <2>2. queue \in Seq(Nat) /\ Len(queue) \in {0, 1}
    <3>1. ~(Len(queue) > Depth)
      BY <1>5, Zenon DEF Admit
    <3>2. queue \in Seq(Nat) /\ Len(queue) \in Nat
      BY DEF TypeOK, SharedTypeOK
    <3>3. \A n \in Nat : ~(n > 1) => n \in {0, 1}
      OBVIOUS
    <3> QED
      BY <3>1, <3>2, <3>3
  <2>3. inHand = 0
    BY <1>0 DEF HandInv, Writing
  <2>4. Holding \subseteq {queue[1], pendingControl}
    BY <1>0, <2>2, <2>3 DEF Holding, Queued
  <2>5. Cardinality(Owed) < Depth + 2
    <3>1. Owed \subseteq {queue[1], pendingControl}
      BY <2>4, OwedIsHeld
    <3>2. IsFiniteSet({queue[1]}) /\ Cardinality({queue[1]}) = 1
      BY FS_Singleton
    <3>3. /\ IsFiniteSet({queue[1]} \cup {pendingControl})
          /\ Cardinality({queue[1]} \cup {pendingControl}) <= 2
          /\ Cardinality({queue[1]} \cup {pendingControl}) \in Nat
      BY <3>2, FS_AddElement
    <3>4. {queue[1]} \cup {pendingControl} = {queue[1], pendingControl}
      OBVIOUS
    <3>5. Cardinality(Owed) <= Cardinality({queue[1], pendingControl}) /\ Cardinality(Owed) \in Nat
      BY <3>1, <3>3, <3>4, FS_Subset, FS_CardinalityType
    <3> QED
      BY <3>3, <3>4, <3>5
  <2>6. Admit = "done" => Effective = {}
    <3> SUFFICES ASSUME Admit = "done" PROVE Effective = {}
      OBVIOUS
    <3>1. Len(queue) # Depth /\ pendingControl = 0
      BY Zenon DEF Admit
    <3>2. Holding = {}
      BY <1>0, <2>2, <2>3, <3>1 DEF Holding, Queued
    <3> QED
      BY <3>2, OwedIsHeld DEF Effective
  <2>7. Effective' = IF Admit = "done" THEN {Len(reqs)} ELSE Effective
    <3>1. \A r \in Owed : reqs'[r] = reqs[r]
      BY <1>3, OwedIsHeld
    <3> QED
      BY <1>3, <2>1, <2>6, <3>1 DEF Effective, Applied
  <2>8. Admit = "done" => Channel!Accept(Len(reqs), TRUE)
    BY <1>1, <2>1, <2>5, <2>6, <2>7, ChannelCounts DEF Channel!Accept, Effective
  <2>9. Admit # "done" => Channel!Accept(Len(reqs), FALSE)
    BY <1>1, <2>1, <2>5, <2>7, ChannelCounts DEF Channel!Accept, Effective
  <2>10. Len(reqs) \in 1..MaxReqs
    BY <1>0, BoundAssumption
  <2> QED
    BY <2>8, <2>9, <2>10
<1> QED
  BY <1>4, <1>5

LEMMA ChannelAnswer ==
    ASSUME TypeOK, ChanInv, PumpControl
    PROVE  \/ \E r \in 1..MaxReqs : Channel!Answer(r)
           \/ UNCHANGED <<Owed, Effective, answered, gone>>
<1> USE DEF ChanInv
<1>1. UNCHANGED <<queue, pendingControl, inHand, cb, reqs, gone>> /\ pc = "control"
  BY DEF PumpControl
<1>2. Holding' = Holding
  BY <1>1, HeldSame
<1>3. CASE UNCHANGED answered
  <2>1. Owed' = Owed
    BY <1>2, <1>3, OwedIsHeld
  <2> QED
    BY <1>1, <1>3, <2>1, ChannelQuiet
<1>4. CASE queue # <<>> /\ answered' = answered \cup {Head(queue)}
  <2>1. Head(queue) \in Holding /\ Head(queue) \notin answered
    <3>1. queue \in Seq(Nat)
      BY DEF TypeOK, SharedTypeOK
    <3>2. Head(queue) \in Holding
      BY <1>4, <3>1, TailSet, Parts DEF Queued
    <3> QED
      BY <1>1, <3>2 DEF RequestInv
  <2>2. Head(queue) \in Owed /\ Owed' = Owed \ {Head(queue)}
    BY <1>2, <1>4, <2>1, OwedIsHeld
  <2>3. Effective' = Effective \ {Head(queue)}
    BY <1>1, <2>2 DEF Effective, Applied
  <2>4. Channel!Answer(Head(queue))
    BY <1>1, <1>4, <2>2, <2>3 DEF Channel!Answer, Effective
  <2>5. Head(queue) \in 1..MaxReqs
    <3>1. Len(reqs) \in Nat /\ Len(reqs) <= MaxReqs /\ Holding \subseteq 1..Len(reqs)
      BY DEF RequestInv, TypeOK, HistoryTypeOK
    <3> QED
      BY <2>1, <3>1, InBounds
  <2> QED
    BY <2>4, <2>5
<1> QED
  BY <1>3, <1>4 DEF PumpControl

LEMMA ChannelStep ==
    ASSUME Depth = 1
    PROVE  TypeOK /\ HandInv /\ ChanInv /\ [Next]_vars
             => Channel!Next \/ UNCHANGED <<Owed, Effective, answered, gone>>
<1> SUFFICES ASSUME TypeOK, HandInv, ChanInv, [Next]_vars
             PROVE  Channel!Next \/ UNCHANGED <<Owed, Effective, answered, gone>>
  OBVIOUS
<1>0. ASSUME UNCHANGED <<answered, gone, reqs>>, Holding' = Holding
      PROVE  UNCHANGED <<Owed, Effective, answered, gone>>
  BY <1>0, OwedIsHeld, ChannelQuiet
<1>1. CASE PumpEdge \/ OtherGatt \/ \E kind \in {"quick", "probe"} : WriteArrives(kind)
  BY <1>1, ChannelForget DEF Channel!Next
<1>2. CASE WriteAdmit
  BY <1>2, ChannelAccept DEF Channel!Next
<1>3. CASE PumpControl
  BY <1>3, ChannelAnswer DEF Channel!Next
<1>4. CASE WriteEnd
  BY <1>0, <1>4, HeldEnd DEF WriteEnd, ChanInv
<1>5. CASE PumpTake
  BY <1>0, <1>5, HeldTake DEF PumpTake
<1>6. CASE PumpHold
  BY <1>0, <1>6, HeldHold DEF PumpHold
<1>7. CASE PumpPop
  <2>1. /\ Holding = Holding' \cup {Head(queue)} /\ Head(queue) \in answered
        /\ UNCHANGED <<answered, gone, reqs>>
    BY <1>7, HeldPop DEF ChanInv
  <2>2. Owed' = Owed
    BY <2>1, OwedIsHeld
  <2> QED
    BY <2>1, <2>2, ChannelQuiet
<1>8. CASE PumpRead \/ PumpSubs \/ PumpDue \/ PumpRetry \/ PumpElapsed
           \/ PumpRefused \/ PumpGate \/ PumpOffer \/ PumpCommit \/ PumpTickEnd
           \/ \E burst \in [Streams -> 0..MaxBurst] : PumpPoll(burst)
  <2>1. UNCHANGED <<queue, pendingControl, inHand, reqs, cb, answered, gone>>
    BY <1>8 DEF PumpRead, PumpSubs, PumpDue, PumpRetry, PumpElapsed, PumpRefused, PumpGate,
       PumpOffer, PumpCommit, PumpTickEnd, PumpPoll
  <2> QED
    BY <1>0, <2>1, HeldSame
<1>9. CASE Drop \/ \E c \in Chars : Unsubscribe(c)
  <2>1. UNCHANGED <<queue, pendingControl, inHand, reqs, cb, answered>> /\ gone' \in {gone, 1..Len(reqs)}
    BY <1>9 DEF Drop, Unsubscribe
  <2>2. Holding' = Holding
    BY <2>1, HeldSame
  <2>3. CASE UNCHANGED gone
    BY <1>0, <2>1, <2>2, <2>3
  <2>4. CASE gone' = 1..Len(reqs)
    <3>1. gone \subseteq 1..Len(reqs) /\ Len(reqs) <= MaxReqs /\ Len(reqs) \in Nat
      BY DEF ChanInv, RequestInv, TypeOK, HistoryTypeOK
    <3>2. Owed' = Owed /\ Effective' = Effective
      BY <2>1, <2>2, OwedIsHeld DEF Effective, Applied
    <3>3. Channel!Abandon(1..Len(reqs))
      BY <2>1, <2>4, <3>1, <3>2 DEF Channel!Abandon, Effective
    <3>4. 1..Len(reqs) \in SUBSET (1..MaxReqs)
      BY <3>1, BoundAssumption
    <3> QED
      BY <3>3, <3>4 DEF Channel!Next
  <2> QED
    BY <2>1, <2>3, <2>4
<1>10. CASE \/ \E c \in Centrals : Connect(c)
            \/ \E c \in Chars : Subscribe(c)
            \/ Stall \/ Drain \/ RetryElapses \/ ProbeCompletes \/ UNCHANGED vars
  <2>1. UNCHANGED <<queue, pendingControl, inHand, reqs, cb, answered, gone>>
    BY <1>10 DEF Connect, Subscribe, Stall, Drain, RetryElapses, ProbeCompletes, vars
  <2> QED
    BY <1>0, <2>1, HeldSame
<1>11. CASE ReadyHook \/ ReadyHookEnd
  <2>1. /\ UNCHANGED <<queue, pendingControl, inHand, reqs, answered, gone>>
        /\ ~Applies /\ ~Applies'
    BY <1>11 DEF ReadyHook, ReadyHookEnd, CallbackRuns, Applies
  <2> QED
    BY <1>0, <2>1, HeldSame
<1> QED
  BY <1>1, <1>2, <1>3, <1>4, <1>5, <1>6, <1>7, <1>8, <1>9, <1>10, <1>11
     DEF Next, Pump, Callback, Environment

\* The pump, the queue, the deferred slot and the callbacks implement ControlChannel: every
\* step accepts, answers, abandons or forgets a request of a client that went, or is not
\* seen.  With the queue as deep as the code makes it, and assumed as for NothingIsForgotten.
THEOREM ImplementsControlChannel ==
    ASSUME Depth = 1, {"poll", "due"} \cap Preempt = {}, Swift => "send" \notin Preempt
    PROVE  Spec => ChannelSpec
<1>1. Init => Channel!Init
  <2>1. Init => Holding = {}
    BY DEF Init, Holding, Queued
  <2> QED
    BY <2>1, OwedIsHeld DEF Init, Channel!Init
<1>2. TypeOK /\ HandInv /\ ChanInv /\ [Next]_vars => [Channel!Next]_(Channel!channelVars)
  BY ChannelStep DEF Channel!channelVars, Effective
<1>3. Spec => [](TypeOK /\ HandInv /\ ChanInv)
  BY ChanInvariant
<1> QED
  BY <1>1, <1>2, <1>3, PTL DEF Spec, ChannelSpec, Channel!Spec

=============================================================================

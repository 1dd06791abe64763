----------------------------- MODULE Peripheral -----------------------------
(***************************************************************************)
(* The BLE transport of the reference peripheral                           *)
(* (reference/peripheral/serve.py): the pump that Peripheral.run executes  *)
(* on its own thread, and the GATT callbacks the Bluetooth stack runs on   *)
(* another, over one shared ConnectionTracker, ControlQueue and `_pending` *)
(* table, and the part of VtpDevice the transport relies on (sequence      *)
(* numbers, the `dropped` counters, the deferred OBD_INFO answer).         *)
(*                                                                         *)
(* Each pump step is one statement group of the loop body; `pc` names the  *)
(* group about to run.  A callback is one to three steps; `cb` names where *)
(* it is.  Preempt names the groups inside which the other thread may run: *)
(* with Preempt = {} a tick is atomic, as the repository's own transport   *)
(* selftest drives it; each name added admits one more real interleaving.  *)
(***************************************************************************)
EXTENDS Integers, Sequences, FiniteSets

CONSTANTS
    Centrals,        \* identities a central may present
    NoCentral,       \* _central_identity() when nobody is subscribed
    StreamOrder,     \* Peripheral.STREAM_ORDER
    Depth,           \* CONTROL_QUEUE_DEPTH
    SeqMod,          \* sequence numbers wrap here (65536 in the code)
    BlessSemantics,  \* is_connected() means "somebody is subscribed"
    Swift,           \* a link or an outage may be too short for a poll to see
    Fills,           \* a value the stack takes may fill its transmit queue
    Preempt,         \* statement groups another thread may run inside of
    MaxLinks, MaxReqs, MaxDebt, MaxBurst, MaxStalls    \* bounds of the model

Groups == {"poll", "tick", "due", "send", "streams", "write", "hook", "link"}

ASSUME DepthAssumption  == Depth \in Nat \ {0}
ASSUME SeqAssumption    == SeqMod \in Nat /\ SeqMod > 1
ASSUME OrderAssumption  == /\ StreamOrder \in Seq({"gps", "can", "imu"})
                           /\ Len(StreamOrder) > 0
ASSUME CentralAssumption == NoCentral \notin Centrals
ASSUME PreemptAssumption == Preempt \subseteq Groups
ASSUME FlagAssumption   == BlessSemantics \in BOOLEAN /\ Swift \in BOOLEAN /\ Fills \in BOOLEAN
ASSUME BoundAssumption  == /\ MaxLinks \in Nat /\ MaxReqs \in Nat /\ MaxDebt \in Nat
                           /\ MaxBurst \in Nat /\ MaxStalls \in Nat

Streams == {StreamOrder[i] : i \in 1..Len(StreamOrder)}
Chars   == Streams \cup {"control"}

VARIABLES
    link, up, central, subs,      \* the link, its central, the CCCDs it enabled
    polled,                       \* 2 once a whole poll ran since is_connected() changed
    room, notify, stalls,         \* transmit queue has room; stack owes a ready callback
    trkUp, trkCentral,            \* ConnectionTracker.connected, .central
    queue,                        \* ControlQueue._out, as request numbers
    pendingControl,               \* _pending_control: a request number or 0
    pending,                      \* _pending: one held payload per stream
    ready, blocked, overdue,      \* _ready; _blocked_since set; RETRY_BLOCKED_S elapsed
    turn,                         \* _turn
    seq, dropped,                 \* VtpDevice._seq, ._dropped
    probe,                        \* VtpDevice._obd_pending_info: "none", "running", "due"
    pc, seen, snap, inHand, left, \* the pump: position and its local variables
    cb,                           \* the callback thread: where it is
    reqs, gone, answered,         \* history: requests written, abandoned, answered
    heard, debt                   \* history: next seq the client expects; items unaccounted for

linkVars   == <<link, up, central, subs, polled>>
stackVars  == <<room, notify, stalls>>
trkVars    == <<trkUp, trkCentral>>
ctlVars    == <<queue, pendingControl>>
readyVars  == <<ready, blocked, overdue>>
streamVars == <<pending, seq, dropped, debt>>
pumpVars   == <<pc, seen, snap, inHand, left, turn>>
histVars   == <<reqs, gone, answered, heard>>
vars == <<linkVars, stackVars, trkVars, ctlVars, readyVars, streamVars,
          pumpVars, histVars, probe, cb>>

NoPayload == [n |-> 0, d |-> 0, link |-> 0]
Payloads  == [n : Nat, d : Nat, link : Nat]
Requests  == [link : Nat, kind : {"quick", "probe"},
              verdict : {"new", "done", "busy", "discarded"}]
Items(p)  == p.n + p.d

PumpPlaces == {"read", "edge", "subs", "due", "take", "hold", "retry", "elapsed",
               "control", "pop", "refused", "poll", "gate", "offer", "commit", "dead"}

FlagsOK ==
    /\ up \in BOOLEAN /\ room \in BOOLEAN /\ notify \in BOOLEAN
    /\ trkUp \in BOOLEAN /\ seen \in BOOLEAN
    /\ ready \in BOOLEAN /\ blocked \in BOOLEAN /\ overdue \in BOOLEAN

LinkTypeOK ==
    /\ link \in Nat /\ central \in Centrals \cup {NoCentral}
    /\ subs \subseteq Chars /\ polled \in 0..2 /\ stalls \in Nat

\* What the pump and the callbacks share, and the device behind them.
SharedTypeOK ==
    /\ trkCentral \in Centrals \cup {NoCentral}
    /\ queue \in Seq(Nat) /\ pendingControl \in Nat
    /\ pending \in [Streams -> Payloads]
    /\ seq \in [Streams -> 0..(SeqMod - 1)] /\ dropped \in [Streams -> Nat]
    /\ probe \in {"none", "running", "due"}
    /\ debt \in [Streams -> Int]

PumpTypeOK ==
    /\ pc \in PumpPlaces /\ snap \subseteq Chars
    /\ inHand \in Nat /\ left \in Seq(Streams) /\ turn \in 1..Len(StreamOrder)

HistoryTypeOK ==
    /\ cb \in {"idle", "admit", "hold", "pend", "hook"}
    /\ reqs \in Seq(Requests) /\ gone \subseteq Nat /\ answered \subseteq Nat
    /\ heard \in [Streams -> 0..(SeqMod - 1)]

TypeOK == FlagsOK /\ LinkTypeOK /\ SharedTypeOK /\ PumpTypeOK /\ HistoryTypeOK

Init ==
    /\ link = 0 /\ up = FALSE /\ central = NoCentral /\ subs = {} /\ polled = 2
    /\ room = TRUE /\ notify = FALSE /\ stalls = 0
    /\ trkUp = FALSE /\ trkCentral = NoCentral
    /\ queue = <<>> /\ pendingControl = 0
    /\ pending = [s \in Streams |-> NoPayload]
    /\ ready = TRUE /\ blocked = FALSE /\ overdue = FALSE
    /\ turn = 1
    /\ seq = [s \in Streams |-> 0] /\ dropped = [s \in Streams |-> 0]
    /\ probe = "none"
    /\ pc = "read" /\ seen = FALSE /\ snap = {} /\ inHand = 0 /\ left = <<>>
    /\ cb = "idle"
    /\ reqs = <<>> /\ gone = {} /\ answered = {}
    /\ heard = [s \in Streams |-> 0] /\ debt = [s \in Streams |-> 0]

-----------------------------------------------------------------------------
(* Who may run *)

\* The callback thread may run here: between two ticks always, elsewhere only
\* if Preempt admits the statement group the pump is inside of.
CallbackRuns ==
    /\ cb = "idle"
    /\ \/ pc \in {"read", "dead"}
       \/ pc = "edge"              /\ "poll"    \in Preempt
       \/ pc \in {"take", "hold"}  /\ "due"     \in Preempt
       \/ pc = "pop"               /\ "send"    \in Preempt
       \/ pc \in {"elapsed", "refused"} /\ "hook" \in Preempt
       \/ pc \in {"offer", "commit"}   /\ "streams" \in Preempt
       \/ /\ pc \in {"subs", "due", "retry", "control", "poll", "gate"}
          /\ "tick" \in Preempt

\* The link, or what its central subscribed to, changes inside a tick only
\* where "link" admits that as well.
LinkChanges == CallbackRuns /\ (pc \in {"read", "dead"} \/ "link" \in Preempt)

PumpRuns ==
    \/ cb = "idle"
    \/ /\ cb \in {"admit", "hold", "pend"} /\ "write" \in Preempt
       /\ pc \in {"due", "take", "hold"} => "due" \in Preempt
    \/ cb = "hook" /\ "hook" \in Preempt

-----------------------------------------------------------------------------
(* Link edges *)

IsConnected == IF BlessSemantics THEN subs # {} ELSE up
Identity    == IF subs = {} THEN NoCentral ELSE central

\* Mutant of Edge: a callback on an established link reports the edge again.
EdgeNotIdempotent(flag, c) ==
    IF flag THEN "connected" ELSE IF trkUp THEN "disconnected" ELSE "none"

\* ConnectionTracker.update: the edge it reports.
Edge(flag, c) ==
    IF flag # trkUp THEN (IF flag THEN "connected" ELSE "disconnected")
    ELSE IF flag /\ c \notin {NoCentral, trkCentral} THEN "connected" ELSE "none"

\* Mutant of ResetTransport: the payloads held for the old link stay held.
ResetKeepsPayloads ==
    /\ queue' = <<>> /\ pendingControl' = 0 /\ UNCHANGED pending
    /\ ready' = TRUE /\ blocked' = FALSE /\ overdue' = FALSE

ResetTransport ==
    /\ queue' = <<>> /\ pendingControl' = 0
    /\ pending' = [s \in Streams |-> NoPayload]
    /\ ready' = TRUE /\ blocked' = FALSE /\ overdue' = FALSE

\* Mutant of FreshSeq: a new connection goes on counting where the last stopped.
SeqCarriedOver == seq
FreshSeq == [s \in Streams |-> 0]

OnConnected ==
    /\ ResetTransport
    /\ seq' = FreshSeq /\ dropped' = [s \in Streams |-> 0]
    /\ debt' = [s \in Streams |-> 0]
    /\ probe' = "none"

OnDisconnected ==
    /\ ResetTransport
    /\ debt' = [s \in Streams |-> debt[s] - Items(pending[s])]
    /\ probe' = "none"
    /\ UNCHANGED <<seq, dropped>>

\* update() followed by the handler of the edge it returned.
TakeEdge(flag) ==
    /\ trkUp' = flag
    /\ trkCentral' = IF Edge(flag, Identity) = "connected" THEN Identity ELSE trkCentral
    /\ \/ Edge(flag, Identity) = "connected"    /\ OnConnected
       \/ Edge(flag, Identity) = "disconnected" /\ OnDisconnected
       \/ /\ Edge(flag, Identity) = "none"
          /\ UNCHANGED <<ctlVars, streamVars, readyVars, probe>>

\* Mutant of ObserveLinkUp: only the poll takes the rising edge.
ObserveNothing == UNCHANGED <<trkVars, ctlVars, streamVars, readyVars, probe>>

\* A callback is itself evidence that a central is being served.
ObserveLinkUp == TakeEdge(TRUE)

-----------------------------------------------------------------------------
(* The GATT callbacks *)

\* A read, and an aiding or monitor write, only take the edge out here.
OtherGatt ==
    /\ CallbackRuns /\ up
    /\ ObserveLinkUp
    /\ UNCHANGED <<linkVars, stackVars, pumpVars, histVars, cb>>

\* A control write arrives and takes the edge before anything is applied.
WriteArrives(kind) ==
    /\ CallbackRuns /\ up /\ Len(reqs) < MaxReqs
    /\ ObserveLinkUp
    /\ reqs' = Append(reqs, [link |-> link, kind |-> kind, verdict |-> "new"])
    /\ cb' = "admit"
    /\ UNCHANGED <<linkVars, stackVars, pumpVars, gone, answered, heard>>

\* Mutant of Admit: the deferred answer is not an outstanding request.
AdmitDuringProbe ==
    IF "control" \notin subs \/ Len(queue) > Depth THEN "discarded"
    ELSE IF Len(queue) = Depth THEN "busy" ELSE "done"

\* The verdict on a request: ControlQueue.admit, then the deferred answer.
Admit ==
    IF "control" \notin subs \/ Len(queue) > Depth THEN "discarded"
    ELSE IF Len(queue) = Depth \/ pendingControl # 0 THEN "busy" ELSE "done"

WriteAdmit ==
    /\ cb = "admit"
    /\ reqs' = [reqs EXCEPT ![Len(reqs)].verdict = Admit]
    /\ LET deferred == Admit = "done" /\ reqs[Len(reqs)].kind = "probe" IN
         /\ probe' = IF deferred THEN "running" ELSE probe
         /\ cb' = CASE Admit = "discarded" -> "idle"
                    [] deferred            -> "pend"
                    [] OTHER               -> "hold"
    /\ UNCHANGED <<linkVars, stackVars, trkVars, ctlVars, readyVars, streamVars,
                   pumpVars, gone, answered, heard>>

\* The response is queued, or a deferred one noted, after the request was applied.
WriteEnd ==
    /\ cb \in {"hold", "pend"}
    /\ cb' = "idle"
    /\ queue' = IF cb = "hold" THEN Append(queue, Len(reqs)) ELSE queue
    /\ pendingControl' = IF cb = "pend" THEN Len(reqs) ELSE pendingControl
    /\ UNCHANGED <<linkVars, stackVars, trkVars, readyVars, streamVars, pumpVars,
                   histVars, probe>>

\* The ready hook: two assignments, in this order.
ReadyHook ==
    /\ CallbackRuns /\ notify /\ room
    /\ ready' = TRUE /\ notify' = FALSE /\ cb' = "hook"
    /\ UNCHANGED <<linkVars, room, stalls, trkVars, ctlVars, blocked, overdue,
                   streamVars, pumpVars, histVars, probe>>

ReadyHookEnd ==
    /\ cb = "hook"
    /\ blocked' = FALSE /\ overdue' = FALSE /\ cb' = "idle"
    /\ UNCHANGED <<linkVars, stackVars, trkVars, ctlVars, ready, streamVars,
                   pumpVars, histVars, probe>>

-----------------------------------------------------------------------------
(* The pump: one tick of Peripheral.run *)

Goto(place) == pc' = place

PumpRead ==
    /\ pc = "read" /\ PumpRuns
    /\ seen' = IsConnected
    /\ polled' = IF polled = 0 THEN 1 ELSE polled
    /\ Goto("edge")
    /\ UNCHANGED <<link, up, central, subs, stackVars, trkVars, ctlVars, readyVars, streamVars,
                   snap, inHand, left, turn, histVars, probe, cb>>

PumpEdge ==
    /\ pc = "edge" /\ PumpRuns
    /\ TakeEdge(seen)
    /\ polled' = IF polled = 1 THEN 2 ELSE polled
    /\ Goto("subs")
    /\ UNCHANGED <<link, up, central, subs, stackVars, seen, snap, inHand, left, turn, histVars, cb>>

PumpSubs ==
    /\ pc = "subs" /\ PumpRuns
    /\ snap' = subs
    /\ Goto("due")
    /\ UNCHANGED <<linkVars, stackVars, trkVars, ctlVars, readyVars, streamVars,
                   seen, inHand, left, turn, histVars, probe, cb>>

\* due_control_response() hands the answer over once, when the probe is done.
PumpDue ==
    /\ pc = "due" /\ PumpRuns
    /\ IF pendingControl # 0 /\ probe = "due"
         THEN probe' = "none" /\ Goto("take")
         ELSE UNCHANGED probe /\ Goto("retry")
    /\ UNCHANGED <<linkVars, stackVars, trkVars, ctlVars, readyVars, streamVars,
                   seen, snap, inHand, left, turn, histVars, cb>>

\* tag, request = self._pending_control: unpacking None ends the pump.
PumpTake ==
    /\ pc = "take" /\ PumpRuns
    /\ Goto(IF pendingControl = 0 THEN "dead" ELSE "hold")
    /\ inHand' = pendingControl /\ pendingControl' = 0
    /\ UNCHANGED <<linkVars, stackVars, trkVars, queue, readyVars, streamVars,
                   seen, snap, left, turn, histVars, probe, cb>>

PumpHold ==
    /\ pc = "hold" /\ PumpRuns
    /\ queue' = Append(queue, inHand) /\ inHand' = 0
    /\ Goto("retry")
    /\ UNCHANGED <<linkVars, stackVars, trkVars, pendingControl, readyVars, streamVars,
                   seen, snap, left, turn, histVars, probe, cb>>

\* Mutant of RetryDue: the timer only serves a held response.
RetryDueForResponse == overdue /\ queue # <<>>
RetryDue == overdue

PumpRetry ==
    /\ pc = "retry" /\ PumpRuns
    /\ Goto(IF ~ready /\ blocked THEN "elapsed" ELSE "control")
    /\ UNCHANGED <<linkVars, stackVars, trkVars, ctlVars, readyVars, streamVars,
                   seen, snap, inHand, left, turn, histVars, probe, cb>>

\* The second reading of _blocked_since: subtracting None ends the pump.
PumpElapsed ==
    /\ pc = "elapsed" /\ PumpRuns
    /\ Goto(IF blocked THEN "control" ELSE "dead")
    /\ IF blocked /\ RetryDue
         THEN ready' = TRUE /\ blocked' = FALSE /\ overdue' = FALSE
         ELSE UNCHANGED readyVars
    /\ UNCHANGED <<linkVars, stackVars, trkVars, ctlVars, streamVars,
                   seen, snap, inHand, left, turn, histVars, probe, cb>>

\* update_value: the stack takes it when the link is up and its queue has room,
\* which the value it takes may use up.
StackTakes == up /\ room
Used == room' \in IF Fills THEN BOOLEAN ELSE {room}

PumpControl ==
    /\ pc = "control" /\ PumpRuns
    /\ \/ /\ queue # <<>> /\ ready /\ StackTakes
          /\ answered' = answered \cup {Head(queue)} /\ Used
          /\ Goto("pop") /\ UNCHANGED <<notify, left>>
       \/ /\ queue # <<>> /\ ready /\ ~StackTakes
          /\ notify' = TRUE
          /\ left' = <<>> /\ Goto("refused") /\ UNCHANGED <<room, answered>>
       \/ /\ queue = <<>> \/ ~ready
          /\ Goto("poll") /\ UNCHANGED <<room, notify, left, answered>>
    /\ UNCHANGED <<linkVars, stalls, trkVars, ctlVars, readyVars, streamVars,
                   seen, snap, inHand, turn, reqs, gone, heard, probe, cb>>

\* ControlQueue.delivered: popleft of an emptied queue ends the pump.
PumpPop ==
    /\ pc = "pop" /\ PumpRuns
    /\ IF queue = <<>> THEN Goto("dead") /\ UNCHANGED queue
       ELSE queue' = Tail(queue) /\ Goto("control")
    /\ UNCHANGED <<linkVars, stackVars, trkVars, pendingControl, readyVars, streamVars,
                   seen, snap, inHand, left, turn, histVars, probe, cb>>

\* Mutant of ArmRetry: the pump waits for the ready callback alone.
ArmNothing == UNCHANGED <<blocked, overdue>>
ArmRetry   == blocked' = TRUE /\ overdue' = FALSE

\* update_value returned False: note it, and end the loop that was sending.
\* `left` tells which one it was: the streams' pass still names the refused one.
PumpRefused ==
    /\ pc = "refused" /\ PumpRuns
    /\ ready' = FALSE /\ ArmRetry
    /\ Goto(IF left = <<>> THEN "poll" ELSE "read")
    /\ left' = <<>>
    /\ UNCHANGED <<linkVars, stackVars, trkVars, ctlVars, streamVars,
                   seen, snap, inHand, turn, histVars, probe, cb>>

\* Mutant of RecordRefused: the count the header carried is forgotten.
RecordRefusedItems(p) == p.n

\* VtpDevice.record_refused: what superseding a payload adds to `dropped`.
RecordRefused(p) == p.n + p.d

\* What device.poll built for a stream in one call: b payloads of one item, the
\* first carrying the count taken from `dropped`.  Each supersedes the one held.
PollStream(s, b) ==
    LET taken == dropped[s] IN
    CASE b = 0 -> [hold |-> pending[s], drop |-> dropped[s], owe |-> debt[s]]
      [] b > 0 /\ s \notin snap ->
           [hold |-> pending[s], drop |-> 0, owe |-> debt[s] - taken]
      [] b = 1 /\ s \in snap ->
           [hold |-> [n |-> 1, d |-> taken, link |-> link],
            drop |-> RecordRefused(pending[s]), owe |-> debt[s] + 1]
      [] b > 1 /\ s \in snap ->
           [hold |-> [n |-> 1, d |-> 0, link |-> link],
            drop |-> RecordRefused(pending[s]) + (b - 1) + taken, owe |-> debt[s] + b]

PumpPoll(burst) ==
    /\ pc = "poll" /\ PumpRuns
    /\ \A s \in Streams : burst[s] > 0 => debt[s] + burst[s] <= MaxDebt
    /\ pending' = [s \in Streams |-> PollStream(s, burst[s]).hold]
    /\ dropped' = [s \in Streams |-> PollStream(s, burst[s]).drop]
    /\ debt'    = [s \in Streams |-> PollStream(s, burst[s]).owe]
    /\ Goto("gate")
    /\ UNCHANGED <<linkVars, stackVars, trkVars, ctlVars, readyVars, seq,
                   seen, snap, inHand, left, turn, histVars, probe, cb>>

Rotated(t) == [i \in 1..Len(StreamOrder) |->
                 StreamOrder[1 + ((t + i - 2) % Len(StreamOrder))]]

\* Mutant of NextTurn: no wrap at the last stream.
NextTurnUnwrapped(t) == t + 1
NextTurn(t) == 1 + (t % Len(StreamOrder))

\* Mutant of GateOpen: `ready` alone opens the streams.
GateOnReady == ready /\ \E s \in Streams : pending[s] # NoPayload
GateOpen == ready /\ queue = <<>> /\ \E s \in Streams : pending[s] # NoPayload

\* The gate in front of the streams: nothing while a response is held.
PumpGate ==
    /\ pc = "gate" /\ PumpRuns
    /\ IF GateOpen
         THEN /\ turn' = NextTurn(turn)
              /\ left' = Rotated(turn')
              /\ Goto("offer")
         ELSE UNCHANGED <<turn, left>> /\ Goto("read")
    /\ UNCHANGED <<linkVars, stackVars, trkVars, ctlVars, readyVars, streamVars,
                   seen, snap, inHand, histVars, probe, cb>>

\* _deliver: stamp the next number and offer.
PumpOffer ==
    /\ pc = "offer" /\ PumpRuns /\ left # <<>>
    /\ LET s == Head(left) IN
       \/ /\ pending[s] = NoPayload
          /\ left' = Tail(left)
          /\ UNCHANGED <<pc, room, notify, heard>>
       \/ /\ pending[s] # NoPayload /\ StackTakes
          /\ heard' = [heard EXCEPT ![s] = (seq[s] + 1) % SeqMod]
          /\ Goto("commit") /\ Used
          /\ UNCHANGED <<left, notify>>
       \/ /\ pending[s] # NoPayload /\ ~StackTakes
          /\ notify' = TRUE
          /\ Goto("refused")
          /\ UNCHANGED <<room, left, heard>>
    /\ UNCHANGED <<linkVars, stalls, trkVars, ctlVars, readyVars, streamVars, seen, snap,
                   inHand, turn, reqs, gone, answered, probe, cb>>

\* The number is committed once the stack took the payload, which is then let go:
\* del of a payload that an edge has cleared meanwhile ends the pump.
PumpCommit ==
    /\ pc = "commit" /\ PumpRuns /\ left # <<>>
    /\ LET s == Head(left) IN
         /\ seq' = [seq EXCEPT ![s] = (@ + 1) % SeqMod]
         /\ debt' = [debt EXCEPT ![s] = @ - Items(pending[s])]
         /\ pending' = [pending EXCEPT ![s] = NoPayload]
         /\ Goto(IF pending[s] = NoPayload THEN "dead" ELSE "offer")
    /\ left' = Tail(left)
    /\ UNCHANGED <<linkVars, stackVars, trkVars, ctlVars, readyVars, dropped,
                   seen, snap, inHand, turn, histVars, probe, cb>>

PumpTickEnd ==
    /\ pc = "offer" /\ PumpRuns /\ left = <<>>
    /\ Goto("read")
    /\ UNCHANGED <<linkVars, stackVars, trkVars, ctlVars, readyVars, streamVars,
                   seen, snap, inHand, left, turn, histVars, probe, cb>>

Pump ==
    \/ PumpRead \/ PumpEdge \/ PumpSubs \/ PumpDue \/ PumpTake \/ PumpHold
    \/ PumpRetry \/ PumpElapsed \/ PumpControl \/ PumpPop \/ PumpRefused
    \/ \E burst \in [Streams -> 0..MaxBurst] : PumpPoll(burst)
    \/ PumpGate \/ PumpOffer \/ PumpCommit \/ PumpTickEnd

-----------------------------------------------------------------------------
(* The central, the stack and time *)

peripheralVars == <<trkVars, ctlVars, readyVars, streamVars, pumpVars, probe, cb>>

\* Unless Swift, what is_connected() reports holds for at least one poll, and a
\* link does not follow another before a poll has seen the outage.
MayChange == Swift \/ polled = 2
Steady    == /\ IsConnected' # IsConnected => MayChange
             /\ polled' = IF IsConnected' # IsConnected THEN 0 ELSE polled

Connect(c) ==
    /\ LinkChanges /\ ~up /\ link < MaxLinks /\ MayChange
    /\ link' = link + 1 /\ up' = TRUE /\ central' = c /\ subs' = {}
    /\ heard' = [s \in Streams |-> 0]
    /\ Steady
    /\ UNCHANGED <<stackVars, peripheralVars, reqs, gone, answered>>

Drop ==
    /\ LinkChanges /\ up
    /\ IsConnected => MayChange
    /\ up' = FALSE /\ subs' = {} /\ polled' = 0
    /\ gone' = 1..Len(reqs)
    /\ UNCHANGED <<link, central, stackVars, peripheralVars, reqs, answered, heard>>

Subscribe(c) ==
    /\ LinkChanges /\ up /\ c \notin subs
    /\ subs' = subs \cup {c}
    /\ UNCHANGED <<link, up, central, stackVars, peripheralVars, histVars>>
    /\ Steady

\* A client that turns its indications off no longer waits for an answer.
Unsubscribe(c) ==
    /\ LinkChanges /\ up /\ c \in subs
    /\ subs' = subs \ {c}
    /\ gone' = IF c = "control" THEN 1..Len(reqs) ELSE gone
    /\ UNCHANGED <<link, up, central, stackVars, peripheralVars, reqs, answered, heard>>
    /\ Steady

Stall ==
    /\ room /\ stalls < MaxStalls
    /\ room' = FALSE /\ stalls' = stalls + 1
    /\ UNCHANGED <<linkVars, notify, peripheralVars, histVars>>

\* The queue empties; the callback that should follow is ReadyHook, and may not.
Drain ==
    /\ ~room
    /\ room' = TRUE
    /\ UNCHANGED <<linkVars, notify, stalls, peripheralVars, histVars>>

RetryElapses ==
    /\ blocked /\ ~overdue
    /\ overdue' = TRUE
    /\ UNCHANGED <<linkVars, stackVars, trkVars, ctlVars, ready, blocked, streamVars,
                   pumpVars, histVars, probe, cb>>

ProbeCompletes ==
    /\ probe = "running"
    /\ probe' = "due"
    /\ UNCHANGED <<linkVars, stackVars, trkVars, ctlVars, readyVars, streamVars,
                   pumpVars, histVars, cb>>

Environment ==
    \/ \E c \in Centrals : Connect(c)
    \/ Drop
    \/ \E c \in Chars : Subscribe(c) \/ Unsubscribe(c)
    \/ Stall \/ Drain \/ RetryElapses \/ ProbeCompletes

Callback ==
    \/ OtherGatt
    \/ \E kind \in {"quick", "probe"} : WriteArrives(kind)
    \/ WriteAdmit \/ WriteEnd \/ ReadyHook \/ ReadyHookEnd

Next == Pump \/ Callback \/ Environment

Spec == Init /\ [][Next]_vars

\* The pump is a loop, a callback that began returns, time passes, a probe
\* ends, and a full transmit queue drains; nothing is assumed of the client
\* and nothing of the ready callback.
Fairness ==
    /\ WF_vars(Pump)
    /\ WF_vars(WriteAdmit) /\ WF_vars(WriteEnd) /\ WF_vars(ReadyHookEnd)
    /\ WF_vars(RetryElapses) /\ WF_vars(ProbeCompletes) /\ WF_vars(Drain)

FairSpec == Spec /\ Fairness
-----------------------------------------------------------------------------
(* What the transport promises *)

\* The requests a response is owed for: accepted, and not yet handed to the stack.
Applied(r) == reqs[r].verdict = "done"
Owed == (({queue[i] : i \in 1..Len(queue)} \cup ({pendingControl, inHand} \ {0})
          \cup IF cb \in {"hold", "pend"} THEN {Len(reqs)} ELSE {})) \ answered

\* Requests accepted from a client that is still connected and listening.
Expected == {r \in 1..Len(reqs) : reqs[r].verdict \in {"done", "busy"}} \ gone

\* A request that took effect or was told busy is answered or still owed its
\* answer for as long as its client listens: no edge, retry or queue operation
\* of write_request and run loses one (SPEC.md 9.4).
NothingForgotten == Expected \subseteq Owed \cup answered

\* One request is outstanding: two responses of applied requests are never owed
\* at once, whether queued or waiting for a probe (write_request's `busy`).
OneOutstanding ==
    \A r1, r2 \in Owed : Applied(r1) /\ Applied(r2) => r1 = r2

\* ControlQueue's own comment: "this queue holds TWO".
QueueHoldsTwo == Len(queue) <= Depth + 1

\* What it holds at most: two busy refusals can be waiting when the deferred
\* OBD_INFO answer joins them.
QueueBounded == Len(queue) <= Depth + 2

Accepted(s) == pc = "offer" /\ pc' = "commit" /\ s = Head(left)

\* No stream notification is handed to the stack while a response is held
\* (the gate in front of the stream loop, SPEC.md 9.4).
HeldResponseFirst == [][\A s \in Streams : Accepted(s) => queue = <<>>]_vars

\* The first notification a client gets on a link carries 0 and each next one
\* is one more, whatever was refused, superseded or unwanted in between.  On the
\* pinned backend a client that turns every subscription off and one on again
\* looks like a new link: its numbers may restart at 0, and never jump.
SeqContiguous ==
    [][\A s \in Streams : Accepted(s) =>
          seq[s] = heard[s] \/ (BlessSemantics /\ seq[s] = 0)]_vars

\* A request is answered once, on the link that asked, and a notification reaches
\* only the link it was built for (_reset_transport_state on both edges).
OwnLinkOnly ==
    [][/\ pc = "control" /\ pc' = "pop" =>
            Head(queue) \notin answered /\ reqs[Head(queue)].link = link
       /\ \A s \in Streams : Accepted(s) => pending[s].link = link]_vars

\* SPEC.md 8.3 has the device count every item it accepted and then discarded: what a poll
\* finds counted it leaves counted, in `dropped` or in a header still to be sent.
DiscardsStayCounted ==
    [][pc = "poll" /\ up /\ trkUp => \A s \in Streams :
          dropped[s] + pending[s].d <= dropped'[s] + pending'[s].d]_vars

\* Every item the device produced on this connection is in the held payload,
\* in the `dropped` counter about to be reported, or was delivered or reported:
\* superseding a payload counts its items and the count its header carried.
LossAccounted ==
    \A s \in Streams : debt[s] = Items(pending[s]) + dropped[s]

\* A pump that was refused has its retry timer armed, so it never depends on a
\* ready callback that may not come (RETRY_BLOCKED_S).
RetryArmed == ready \/ blocked \/ cb = "hook" \/ pc = "refused"

\* What the ready hook does when the pump noted a refusal between its two assignments:
\* the hook's second one clears the timer that the refusal armed.
HookDisarms == cb = "hook" /\ ~ready /\ cb' = "idle"

\* Whatever runs inside of a tick, one step alone takes the retry timer from a refused
\* pump: the second assignment of a ready hook that the refusal came in the middle of.
RetryKept == [][RetryArmed => RetryArmed' \/ HookDisarms]_vars

\* The pump outlives every interleaving (no unpack of None, no subtraction of
\* None, no popleft of an emptied queue, no del of a payload already cleared).
PumpSurvives == pc # "dead"

\* A response that is owed is handed to the stack, or its client has gone.
ResponseDelivered ==
    \A r \in 1..MaxReqs : (r \in Owed) ~> (r \in answered \/ r \in gone)

\* The streams as a whole never stand still: while payloads are held, one or another is
\* handed over again and again, through refusals, responses ahead of them and a ready
\* callback that never comes.
StreamsMove ==
    <>[](\E s \in Streams : pending[s] # NoPayload)
        => []<><<\E s \in Streams : Accepted(s)>>_vars

\* The rotation's comment: the streams are offered in turn so that none absorbs every
\* refusal.  A payload held for a stream does not stay held while the others flow.
StreamsFlow == \A s \in Streams : (pending[s] # NoPayload) ~> (pending[s] = NoPayload)

\* The control plane as its client sees it.
Channel == INSTANCE ControlChannel WITH
    Requests  <- 1..MaxReqs,
    Room      <- Depth + 2,
    owed      <- Owed,
    applied   <- {r \in Owed : Applied(r)},
    answered  <- answered,
    abandoned <- gone
ChannelSpec == Channel!Spec
=============================================================================

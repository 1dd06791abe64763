------------------------------- MODULE Aiding -------------------------------
(***************************************************************************)
(* The aiding transfer of the reference device (reference/peripheral/      *)
(* vtp_device.py, SPEC.md 14): a client opens a transfer on the Control    *)
(* plane, writes its chunks without a response, in any order and on any    *)
(* ATT bearer, and commits.  Around it, what decides the chunk size and    *)
(* the life of a transfer: the link edges serve.py takes, and the ATT MTU  *)
(* its subscribe hook observes on the one backend that reports it.         *)
(*                                                                         *)
(* A control request and its answer are one step (module Peripheral checks *)
(* the channel they travel on).  A chunk is in flight from its write to    *)
(* its arrival: a commit, another BEGIN or a link edge may overtake it.    *)
(***************************************************************************)
EXTENDS Integers, FiniteSets

CONSTANTS
    Centrals,        \* the identities the backend reports
    Mtus,            \* what a link may negotiate
    Ceiling,         \* the --mtu argument
    MinMtu,          \* MIN_ATT_MTU
    Overhead,        \* AID_CHUNK_OVERHEAD
    MaxBytes,        \* AID_MAX_BYTES_DECLARED
    MaxChunks,       \* AID_MAX_CHUNKS
    Tokens,          \* 255
    Totals,          \* what a client asks to transfer
    Hooks,           \* whether the backend may be one that reports the MTU
    MaxLinks, MaxBegins, MaxFlight, MaxLost, MaxFaults       \* bounds of the model

ASSUME MtuAssumption ==
    /\ MinMtu \in Nat /\ Overhead \in Nat /\ Overhead < MinMtu
    /\ \A m \in Mtus \cup {Ceiling} : m \in Nat /\ m >= MinMtu
ASSUME SizeAssumption  == MaxBytes \in Nat /\ MaxChunks \in Nat /\ Totals \subseteq Nat
ASSUME TokenAssumption == Tokens \in Nat \ {0, 1}
ASSUME HookAssumption  == Hooks \subseteq BOOLEAN
ASSUME AidBounds       == {MaxLinks, MaxBegins, MaxFlight, MaxLost, MaxFaults} \subseteq Nat

VARIABLES
    hooked,              \* the backend reports the MTU to the subscribe hook
    link,                \* the link there is: up, central, mtu
    tracker,             \* ConnectionTracker: connected, central
    observedMtu,         \* Peripheral._observed_mtu; 0: None
    mtu, mtuObserved,    \* VtpDevice.mtu, _mtu_observed
    aid,                 \* VtpDevice._aid
    lastToken,           \* _aid_last_token; 0: None
    client,              \* the transfer as the client knows it
    flight,              \* chunks written and not yet arrived
    links, begins, lost, faults,     \* counted by the bounds
    answer               \* the last commit's answer (history)

deviceVars == <<mtu, mtuObserved, aid, lastToken>>
linkVars   == <<link, tracker, observedMtu>>
countVars  == <<links, begins, lost, faults>>
vars == <<hooked, linkVars, deviceVars, client, flight, countVars, answer>>

NoTransfer == [token |-> 0, total |-> 0, size |-> 1, chunks |-> {}, serial |-> 0,
               owner |-> "nobody"]
NoClient   == [token |-> 0, total |-> 0, size |-> 1, todo |-> {}, serial |-> 0]
NoAnswer   == [result |-> "none", missing |-> 0, serial |-> 0]

Open    == aid # NoTransfer
Opened  == client # NoClient

\* Chunks of a transfer, and the length each must have (the last is the rest).
Expected(t) == (t.total + t.size - 1) \div t.size
Indices(t)  == 0..(Expected(t) - 1)

Want(t, i) == IF i = Expected(t) - 1 THEN t.total - i * t.size ELSE t.size

Sizes  == {m - Overhead : m \in Mtus \cup {Ceiling, MinMtu}}
Bodies == [index : Nat, serial : Nat, len : Nat]

TypeOK ==
    /\ hooked \in BOOLEAN
    /\ link.up \in BOOLEAN /\ tracker.up \in BOOLEAN
    /\ observedMtu \in Mtus \cup {0} /\ mtu \in Mtus \cup {Ceiling}
    /\ mtuObserved \in BOOLEAN
    /\ Open => /\ aid.token \in 1..Tokens /\ aid.size \in Sizes
               /\ aid.total \in 1..MaxBytes /\ Expected(aid) <= MaxChunks
               /\ \A c \in aid.chunks : c.index \in Indices(aid)
               /\ \A c, d \in aid.chunks : c.index = d.index => c = d
    /\ lastToken \in 0..Tokens
    /\ \A c \in flight : c.token \in 1..Tokens

Init ==
    /\ hooked \in Hooks
    /\ link = [up |-> FALSE, central |-> "nobody", mtu |-> Ceiling]
    /\ tracker = [up |-> FALSE, central |-> "nobody"]
    /\ observedMtu = 0 /\ mtu = Ceiling /\ mtuObserved = FALSE
    /\ aid = NoTransfer /\ lastToken = 0
    /\ client = NoClient /\ flight = {}
    /\ links = 0 /\ begins = 0 /\ lost = 0 /\ faults = 0
    /\ answer = NoAnswer

-----------------------------------------------------------------------------
(* Link edges and the MTU *)

Rising  == link.up /\ (~tracker.up \/ tracker.central # link.central)
Falling == ~link.up /\ tracker.up

\* Mutant of AfterEdge: a transfer is dropped by on_disconnect only.
KeptOnConnect == aid
AfterEdge == IF Rising THEN NoTransfer ELSE aid

TakeEdge ==
    /\ tracker' = [up |-> TRUE, central |-> link.central]
    /\ observedMtu' = IF Rising THEN 0 ELSE observedMtu

\* Mutant of ObserveLinkUp: a callback leaves the rising edge to the pump.
ObserveNothing == UNCHANGED <<tracker, observedMtu>>
ObserveLinkUp  == TakeEdge

PumpEdge ==
    \/ /\ Rising /\ TakeEdge /\ aid' = AfterEdge
       /\ UNCHANGED <<hooked, link, mtu, mtuObserved, lastToken, client, flight,
                      countVars, answer>>
    \/ /\ Falling
       /\ tracker' = [tracker EXCEPT !.up = FALSE]
       /\ aid' = NoTransfer /\ mtu' = Ceiling /\ observedMtu' = 0
       /\ UNCHANGED <<hooked, link, mtuObserved, lastToken, client, flight, countVars, answer>>

\* _note_mtu, when the backend says what the central negotiated.
NoteMtu(m) ==
    IF hooked /\ m # observedMtu
      THEN /\ observedMtu' = m /\ mtuObserved' = TRUE
           /\ mtu' = IF m < Ceiling THEN m ELSE Ceiling
      ELSE UNCHANGED <<observedMtu, mtuObserved, mtu>>

\* A central subscribes: it is served from here on.
Connect(c, m) ==
    /\ ~link.up /\ links < MaxLinks /\ links' = links + 1
    /\ link' = [up |-> TRUE, central |-> c, mtu |-> m]
    /\ NoteMtu(m)
    /\ UNCHANGED <<hooked, tracker, aid, lastToken, client, flight, begins, lost, faults, answer>>

\* ... and to another characteristic.
Subscribe ==
    /\ link.up /\ NoteMtu(link.mtu)
    /\ UNCHANGED <<hooked, link, tracker, aid, lastToken, client, flight, countVars, answer>>

\* The link drops, with what was in flight on it.
Drop ==
    /\ link.up /\ link' = [link EXCEPT !.up = FALSE]
    /\ client' = NoClient /\ flight' = {} /\ answer' = NoAnswer
    /\ UNCHANGED <<hooked, tracker, observedMtu, deviceVars, countVars>>

-----------------------------------------------------------------------------
(* Control requests *)

\* Mutant of ChunkBytes: chunks are sized from an MTU nobody observed.
ChunkBytesAssumed == mtu - Overhead
ChunkBytes == (IF mtuObserved THEN mtu ELSE MinMtu) - Overhead

\* Mutants of NextToken: every transfer is the first; the byte overflows.
TokenOne(t) == 1
TokenUnwrapped(t) == (IF t # NoTransfer THEN t.token ELSE lastToken) + 1
NextToken(t) ==
    LET previous == IF t # NoTransfer THEN t.token ELSE lastToken IN
      IF previous = 0 THEN 1 ELSE (previous % Tokens) + 1

\* A transfer the device can hold and whose chunks can all be named.
Acceptable(total) ==
    /\ total # 0 /\ total <= MaxBytes
    /\ ChunkBytes > 0
    /\ Expected([total |-> total, size |-> ChunkBytes]) <= MaxChunks

\* No bearer holds a chunk back while Tokens transfers are opened.
ShortLag == \A c \in flight : begins + 1 - c.serial < Tokens

\* GNSS_AID_BEGIN opens a transfer over whatever was open, or is refused and
\* leaves it.
Begin(total) ==
    /\ link.up /\ begins < MaxBegins /\ ShortLag
    /\ ObserveLinkUp /\ answer' = NoAnswer
    /\ \/ /\ Acceptable(total)
          /\ begins' = begins + 1
          /\ aid' = [token |-> NextToken(AfterEdge), total |-> total, size |-> ChunkBytes,
                     chunks |-> {}, serial |-> begins', owner |-> link.central]
          /\ lastToken' = aid'.token
          /\ client' = [token |-> aid'.token, total |-> total, size |-> aid'.size,
                        todo |-> Indices(aid'), serial |-> begins']
       \/ /\ ~Acceptable(total)
          /\ aid' = AfterEdge
          /\ UNCHANGED <<begins, lastToken, client>>
    /\ UNCHANGED <<hooked, link, mtu, mtuObserved, flight, links, lost, faults>>

Missing(t) == Indices(t) \ {c.index : c \in t.chunks}

\* Mutant of FirstMissing: what has arrived is taken to have arrived in order.
FirstMissingCounted(t) == Cardinality(t.chunks)
FirstMissing(t) == CHOOSE i \in Missing(t) : \A j \in Missing(t) : i <= j

\* The assembled payload is what the client meant to send.
Whole(t) == t.chunks = {[index |-> i, serial |-> t.serial, len |-> Want(client, i)] : i \in Indices(client)}

Kept(t) == t
Incomplete(t) == Missing(t) # {}

\* Mutant of CrcMatches: the CRC is not looked at.
CrcIgnored(t, honest) == TRUE
CrcMatches(t, honest) == honest /\ Whole(t)

\* GNSS_AID_COMMIT, its CRC the transfer's or not, and a receiver that may refuse.
Commit(honest, accepts) ==
    LET t == AfterEdge
        Says(r, m) == answer' = [result |-> r, missing |-> m, serial |-> t.serial] IN
    /\ link.up /\ ObserveLinkUp
    /\ Opened => client.todo = {}
    /\ ~honest => faults < MaxFaults
    /\ faults' = IF honest THEN faults ELSE faults + 1
    /\ \/ /\ t = NoTransfer
          /\ Says("bad_params", 0) /\ aid' = t /\ client' = NoClient
       \/ /\ t # NoTransfer /\ Incomplete(t)
          /\ Says("incomplete", FirstMissing(t)) /\ aid' = Kept(t)
          /\ client' = IF Opened THEN [client EXCEPT !.todo = {FirstMissing(t)}] ELSE client
       \/ /\ t # NoTransfer /\ ~Incomplete(t) /\ ~CrcMatches(t, honest)
          /\ Says("bad_crc", 0) /\ aid' = NoTransfer /\ client' = NoClient
       \/ /\ t # NoTransfer /\ ~Incomplete(t) /\ CrcMatches(t, honest)
          /\ Says(IF accepts THEN "applied" ELSE "rejected", 0)
          /\ aid' = NoTransfer /\ client' = NoClient
    /\ UNCHANGED <<hooked, link, mtu, mtuObserved, lastToken, flight, links, begins, lost>>

-----------------------------------------------------------------------------
(* Chunks *)

Chunk(i, len) == [token |-> client.token, index |-> i, serial |-> client.serial, len |-> len]

\* The client writes a chunk, again if it likes.
Write(i) ==
    /\ link.up /\ Opened /\ i \in Indices(client) /\ Cardinality(flight) < MaxFlight
    /\ flight' = flight \cup {Chunk(i, Want(client, i))}
    /\ client' = [client EXCEPT !.todo = @ \ {i}]
    /\ UNCHANGED <<hooked, linkVars, deviceVars, countVars, answer>>

\* A chunk no client of SPEC.md 14.3 writes: short, or beyond the transfer.
WriteFaulty ==
    /\ link.up /\ Opened /\ Cardinality(flight) < MaxFlight
    /\ faults < MaxFaults /\ faults' = faults + 1
    /\ flight' \in {flight \cup {Chunk(i, IF i \in Indices(client) THEN Want(client, i) - 1
                                                              ELSE client.size)} :
                     i \in 0..Expected(client)}
    /\ UNCHANGED <<hooked, linkVars, deviceVars, client, links, begins, lost, answer>>

\* Mutant of Admits: the token is not compared.
AdmitsAnyToken(t, c) == t # NoTransfer /\ c.index < Expected(t) /\ c.len = Want(t, c.index)
Admits(t, c) ==
    /\ t # NoTransfer /\ c.token = t.token
    /\ c.index < Expected(t) /\ c.len = Want(t, c.index)

\* handle_aiding_write: the chunk takes its place, or is ignored.
Arrive(c) ==
    /\ c \in flight /\ link.up
    /\ flight' = flight \ {c}
    /\ ObserveLinkUp
    /\ aid' = IF ~Admits(AfterEdge, c) THEN AfterEdge
              ELSE [AfterEdge EXCEPT !.chunks =
                      {d \in @ : d.index # c.index} \cup
                      {[index |-> c.index, serial |-> c.serial, len |-> c.len]}]
    /\ UNCHANGED <<hooked, link, mtu, mtuObserved, lastToken, client, countVars, answer>>

\* A Write Command is lost on its way: nobody is told.
Lose ==
    /\ lost < MaxLost /\ lost' = lost + 1
    /\ \E c \in flight : flight' = flight \ {c}
    /\ UNCHANGED <<hooked, linkVars, deviceVars, client, links, begins, faults, answer>>

Next ==
    \/ PumpEdge \/ Drop \/ Subscribe \/ WriteFaulty \/ Lose
    \/ \E c \in Centrals, m \in Mtus : Connect(c, m)
    \/ \E total \in Totals : Begin(total)
    \/ \E honest, accepts \in BOOLEAN : Commit(honest, accepts)
    \/ \E i \in 0..(MaxChunks - 1) : Write(i)
    \/ \E c \in flight : Arrive(c)

\* What the client owes and the link carries does happen; nobody else need act.
\* A chunk owed is written strongly fairly, for MaxFlight bounds what is in flight
\* and the client's own repeats may fill it.
Fairness ==
    /\ \A i \in 0..MaxChunks : WF_vars(\E c \in flight : c.index = i /\ Arrive(c))
    /\ SF_vars(\E i \in client.todo : Write(i))
    /\ WF_vars(Commit(TRUE, TRUE))

Spec == Init /\ [][Next]_vars /\ Fairness
-----------------------------------------------------------------------------
(* What a transfer promises *)

\* The receiver is handed exactly what the client committed to: nothing of a
\* discarded transfer, nothing short, nothing before every chunk and the CRC of
\* the whole (SPEC.md 14.3, "applied whole or not at all").
AppliedWhole ==
    [][answer' # answer /\ answer'.result \in {"applied", "rejected"} =>
          faults' = faults /\ Whole(aid)]_vars

\* No chunk of another transfer is ever held, though chunks of discarded ones
\* keep arriving: the CRC is not what keeps them out.
OwnChunksOnly == \A c \in aid.chunks : c.serial = aid.serial

\* Every chunk the device asks for can be written on the link it was asked on,
\* whoever was connected before and whenever the edges were taken.
ChunkWritable == Opened /\ link.up => client.size + Overhead <= link.mtu

\* A commit reports on a transfer of the central that sends it, never of one
\* served before.
OwnTransferOnly ==
    [][answer' # answer /\ answer'.result \notin {"none", "bad_params"} =>
          aid.owner = link.central]_vars

\* A client's open transfer stays open on its link until it is answered: no
\* edge the pump takes late discards it.
TransferKept ==
    link.up /\ Opened => aid.serial = client.serial /\ ~Rising

\* A client that writes what is missing and commits gets an end to its transfer,
\* whatever overtakes what and however many chunks are lost.
TransferEnds == \A s \in 1..MaxBegins : client.serial = s ~> client.serial # s
=============================================================================

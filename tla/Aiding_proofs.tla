---------------------------- MODULE Aiding_proofs ----------------------------
(***************************************************************************)
(* Proofs about the aiding transfer of Aiding, from one inductive          *)
(* invariant.  Its parts: the shape of the records; how the device's MTU   *)
(* follows the link's; that an open transfer belongs to the central on     *)
(* record and to the last BEGIN; that a client's transfer is the device's; *)
(* and that a chunk's token is as many steps behind the last one as its    *)
(* transfer is, which is what keeps another transfer's chunks out.         *)
(***************************************************************************)
EXTENDS Aiding, TLAPS

Names     == Centrals \cup {"nobody"}
Links     == [up : BOOLEAN, central : Names, mtu : Mtus \cup {Ceiling}]
Trackers  == [up : BOOLEAN, central : Names]
Places    == [index : Nat, serial : Nat, len : Int]
Transfers == [token : Nat, total : Int, size : Int, chunks : SUBSET Places, serial : Nat,
              owner : Names]
Chunks    == [token : 1..Tokens, index : Nat, serial : Nat, len : Int]

\* A client's record, whatever the chunks it owes.
IsClient(c) ==
    /\ c = [token |-> c.token, total |-> c.total, size |-> c.size, todo |-> c.todo,
            serial |-> c.serial]
    /\ c.token \in Nat /\ c.total \in Int /\ c.size \in Int /\ c.serial \in Nat

\* The records the operations read and rebuild.
ShapeOK ==
    /\ link \in Links /\ (link.up => link.mtu \in Mtus)
    /\ tracker \in Trackers
    /\ aid \in Transfers /\ IsClient(client)
    /\ flight \subseteq Chunks
    /\ begins \in Nat /\ links \in Nat /\ lost \in Nat /\ faults \in Nat

\* On the backend that reports it, the device's MTU is the link's, up to the ceiling.
Capped(m) == IF m < Ceiling THEN m ELSE Ceiling
MtuInv ==
    /\ mtuObserved => hooked
    /\ observedMtu # 0 => mtu = Capped(observedMtu)
    /\ hooked /\ link.up => mtu = Capped(link.mtu)

\* The open transfer is the last BEGIN's, of the central on record.
OwnerInv ==
    /\ Open => /\ tracker.up /\ aid.owner = tracker.central
               /\ aid.serial = begins /\ aid.token = lastToken
    /\ begins = 0 <=> lastToken = 0

\* What the client means is what the device holds open.
ClientInv ==
    Opened => /\ link.up /\ ~Rising /\ Open
              /\ client.token = aid.token /\ client.serial = aid.serial
              /\ client.total = aid.total /\ client.size = aid.size
              /\ client.size + Overhead <= link.mtu

\* The token of the transfer opened `age` BEGINs before the last.
TokenOf(age) == IF age < lastToken THEN lastToken - age ELSE lastToken + Tokens - age
FlightInv ==
    /\ begins = 0 => flight = {}
    /\ \A c \in flight : /\ c.serial <= begins /\ begins - c.serial < Tokens
                         /\ c.token = TokenOf(begins - c.serial)

AidInv == TypeOK /\ ShapeOK /\ MtuInv /\ OwnerInv /\ ClientInv /\ FlightInv /\ OwnChunksOnly
-----------------------------------------------------------------------------
(* Tokens, sizes and edges *)

LEMMA TokenStep == \A p \in 1..Tokens : (p % Tokens) + 1 = IF p = Tokens THEN 1 ELSE p + 1
  BY TokenAssumption

\* What TypeOK says of an open transfer.
AidOK ==
    Open => /\ aid.token \in 1..Tokens /\ aid.size \in Sizes
            /\ aid.total \in 1..MaxBytes /\ Expected(aid) <= MaxChunks
            /\ \A c \in aid.chunks : c.index \in Indices(aid)
            /\ \A c, d \in aid.chunks : c.index = d.index => c = d

\* The transfer a BEGIN opens has the token after that of the last one opened.
LEMMA NextTokenIs ==
    ASSUME TypeOK, OwnerInv, begins \in Nat
    PROVE  NextToken(AfterEdge) = IF lastToken \in {0, Tokens} THEN 1 ELSE lastToken + 1
<1>1. lastToken \in 0..Tokens /\ Tokens \in Nat \ {0, 1}
  BY TokenAssumption DEF TypeOK
<1> DEFINE previous == IF AfterEdge # NoTransfer THEN AfterEdge.token ELSE lastToken
<1>2. previous = lastToken
  BY DEF AfterEdge, OwnerInv, Open
<1>3. NextToken(AfterEdge) = IF previous = 0 THEN 1 ELSE (previous % Tokens) + 1
  BY DEF NextToken
<1>4. CASE lastToken = 0
  BY <1>2, <1>3, <1>4
<1>5. CASE lastToken \in 1..Tokens
  BY <1>1, <1>2, <1>3, <1>5, TokenStep
<1> QED
  BY <1>1, <1>4, <1>5

LEMMA MtusAre ==
    /\ MinMtu \in Nat /\ Overhead \in Nat /\ Overhead < MinMtu /\ Ceiling \in Nat /\ Ceiling >= MinMtu
    /\ \A m \in Mtus : m \in Nat /\ m >= MinMtu /\ m # 0 /\ Capped(m) \in Mtus \cup {Ceiling}
    /\ \A m \in Mtus : Capped(m) <= m
  BY MtuAssumption DEF Capped

LEMMA SizesAre == \A s \in Sizes : s \in Nat \ {0}
<1> SUFFICES ASSUME NEW m \in Mtus \cup {Ceiling, MinMtu} PROVE m - Overhead \in Nat \ {0}
  BY DEF Sizes
<1> QED
  BY MtusAre

LEMMA ExpectedIs ==
    \A t : t.total \in Int /\ t.size \in Nat \ {0} => Expected(t) \in Int
  BY DEF Expected

LEMMA ChunkBytesIs ==
    ASSUME TypeOK, ShapeOK, MtuInv, link.up
    PROVE  ChunkBytes \in Sizes /\ ChunkBytes \in Int /\ ChunkBytes + Overhead <= link.mtu
<1>1. link.mtu \in Mtus /\ mtu \in Mtus \cup {Ceiling} /\ mtu \in Nat
  BY MtusAre DEF ShapeOK, TypeOK
<1>2. CASE mtuObserved
  <2>1. mtu = Capped(link.mtu) /\ ChunkBytes = mtu - Overhead
    BY <1>2 DEF MtuInv, ChunkBytes
  <2>2. ChunkBytes \in Sizes
    BY <1>1, <2>1 DEF Sizes
  <2>3. mtu \in Nat /\ link.mtu \in Nat /\ mtu <= link.mtu /\ Overhead \in Nat
    BY <1>1, <2>1, MtusAre
  <2> QED
    BY <2>1, <2>2, <2>3
<1>3. CASE ~mtuObserved
  <2>1. ChunkBytes = MinMtu - Overhead
    BY <1>3 DEF ChunkBytes
  <2>2. ChunkBytes \in Sizes
    BY <2>1 DEF Sizes
  <2>3. MinMtu \in Nat /\ link.mtu \in Nat /\ MinMtu <= link.mtu /\ Overhead \in Nat
    BY <1>1, MtusAre
  <2> QED
    BY <2>1, <2>2, <2>3
<1> QED
  BY <1>2, <1>3

\* A callback on a link that is up puts its central on record, and forgets the transfer of
\* whoever was there before.
LEMMA EdgeTaken ==
    ASSUME ShapeOK, link.up, TakeEdge
    PROVE  /\ tracker' = [up |-> TRUE, central |-> link.central] /\ tracker' \in Trackers
           /\ link' = link => ~Rising'
           /\ AfterEdge # NoTransfer => AfterEdge = aid /\ ~Rising /\ Open
           /\ ~Rising => AfterEdge = aid /\ tracker' = tracker /\ UNCHANGED observedMtu
           /\ observedMtu' \in {0, observedMtu}
<1>1. tracker' = [up |-> TRUE, central |-> link.central] /\ link \in Links /\ tracker \in Trackers
  BY DEF TakeEdge, ShapeOK
<1>2. tracker' \in Trackers
  BY <1>1 DEF Links, Trackers
<1>3. tracker'.up = TRUE /\ tracker'.central = link.central
  BY <1>1
<1>4. link' = link => ~Rising'
  BY <1>3 DEF Rising
<1>5. ~Rising => tracker.up /\ tracker.central = link.central
  BY DEF Rising
<1>6. tracker.up /\ tracker.central = link.central => tracker' = tracker
  BY <1>1 DEF Trackers
<1> QED
  BY <1>1, <1>2, <1>4, <1>5, <1>6 DEF TakeEdge, AfterEdge, Open

-----------------------------------------------------------------------------
(* The invariant *)

Rest == /\ hooked \in BOOLEAN /\ observedMtu \in Mtus \cup {0} /\ mtu \in Mtus \cup {Ceiling}
        /\ mtuObserved \in BOOLEAN /\ lastToken \in 0..Tokens

\* TypeOK, by its parts, in two states.
LEMMA TypeParts ==
    /\ TypeOK => Rest /\ AidOK
    /\ ShapeOK' /\ Rest' /\ AidOK' => TypeOK'
<1>1. TypeOK => Rest /\ AidOK
  BY DEF TypeOK, Rest, AidOK
<1>2. ASSUME ShapeOK', Rest', AidOK' PROVE TypeOK'
  <2>1. (link.up)' \in BOOLEAN /\ (tracker.up)' \in BOOLEAN
    BY <1>2 DEF ShapeOK, Links, Trackers
  <2>2. \A c \in flight' : c.token \in 1..Tokens
    BY <1>2 DEF ShapeOK, Chunks
  <2> QED
    BY <1>2, <2>1, <2>2 DEF TypeOK, Rest, AidOK
<1> QED
  BY <1>1, <1>2

LEMMA NoTransferIs ==
    NoTransfer \in Transfers /\ NoTransfer.chunks = {} /\ IsClient(NoClient)
  BY DEF NoTransfer, Transfers, Names, NoClient, IsClient

\* A transfer that is kept or dropped stays what it was.
LEMMA AidFrame ==
    ASSUME AidInv, aid' \in {aid, NoTransfer}
    PROVE  AidOK' /\ OwnChunksOnly' /\ aid' \in Transfers
<1>1. CASE aid' = aid
  <2>1. AidOK /\ OwnChunksOnly /\ aid \in Transfers
    BY TypeParts DEF AidInv, ShapeOK
  <2> QED
    BY <1>1, <2>1 DEF AidOK, OwnChunksOnly, Open
<1>2. CASE aid' = NoTransfer
  BY <1>2, NoTransferIs DEF AidOK, OwnChunksOnly, Open
<1> QED
  BY <1>1, <1>2

LEMMA AidingInit == Init => AidInv
<1> SUFFICES ASSUME Init PROVE AidInv
  OBVIOUS
<1>1. aid = NoTransfer /\ client = NoClient /\ flight = {} /\ begins = 0 /\ lastToken = 0
  BY DEF Init
<1>2. ShapeOK
  BY <1>1, NoTransferIs DEF Init, ShapeOK, Links, Trackers, Names
<1>3. TypeOK
  <2>1. hooked \in BOOLEAN /\ link.up \in BOOLEAN /\ tracker.up \in BOOLEAN
    BY HookAssumption DEF Init
  <2>2. lastToken \in 0..Tokens
    BY <1>1, TokenAssumption
  <2> QED
    BY <1>1, <2>1, <2>2 DEF Init, TypeOK, Open
<1>4. MtuInv
  BY DEF Init, MtuInv
<1>5. OwnChunksOnly
  BY <1>1, NoTransferIs DEF OwnChunksOnly
<1> QED
  BY <1>1, <1>2, <1>3, <1>4, <1>5 DEF AidInv, OwnerInv, ClientInv, FlightInv, Open, Opened

\* The pump's own edges: no open transfer of a client that is there is met.
LEMMA AidingPump == AidInv /\ PumpEdge => AidInv'
<1> SUFFICES ASSUME AidInv, PumpEdge PROVE AidInv'
  OBVIOUS
<1> USE DEF AidInv
<1>0. Rest /\ TokenAssumption
  BY TypeParts, TokenAssumption
<1>1. CASE Rising /\ TakeEdge
  <2>1. /\ UNCHANGED <<hooked, link, mtu, mtuObserved, lastToken, client, flight, countVars>>
        /\ aid' = NoTransfer /\ observedMtu' = 0
    BY <1>1 DEF PumpEdge, Falling, Rising, TakeEdge, AfterEdge
  <2>2. tracker' \in Trackers
    BY <1>1, EdgeTaken DEF Rising
  <2>3. ~Opened' /\ ~Open'
    BY <1>1, <2>1 DEF ClientInv, Opened, Open
  <2>4. AidOK' /\ OwnChunksOnly' /\ aid' \in Transfers
    BY <2>1, AidFrame
  <2>5. ShapeOK' /\ Rest'
    BY <1>0, <2>1, <2>2, <2>4 DEF ShapeOK, Rest, countVars
  <2>6. MtuInv' /\ OwnerInv' /\ ClientInv' /\ FlightInv'
    BY <2>1, <2>3 DEF MtuInv, OwnerInv, ClientInv, FlightInv, TokenOf, countVars
  <2> QED
    BY <2>4, <2>5, <2>6, TypeParts
<1>2. CASE Falling
  <2>1. /\ UNCHANGED <<hooked, link, mtuObserved, lastToken, client, flight, countVars>>
        /\ aid' = NoTransfer /\ observedMtu' = 0 /\ mtu' = Ceiling
        /\ tracker' = [tracker EXCEPT !.up = FALSE] /\ ~link.up
    BY <1>2 DEF PumpEdge, Falling, Rising
  <2>2. tracker' \in Trackers
    BY <2>1 DEF ShapeOK, Trackers
  <2>3. ~Opened' /\ ~Open'
    BY <2>1 DEF ClientInv, Opened, Open
  <2>4. AidOK' /\ OwnChunksOnly' /\ aid' \in Transfers
    BY <2>1, AidFrame
  <2>5. ShapeOK' /\ Rest'
    BY <1>0, <2>1, <2>2, <2>4 DEF ShapeOK, Rest, countVars
  <2>6. MtuInv' /\ OwnerInv' /\ ClientInv' /\ FlightInv'
    BY <2>1, <2>3 DEF MtuInv, OwnerInv, ClientInv, FlightInv, TokenOf, countVars
  <2> QED
    BY <2>4, <2>5, <2>6, TypeParts
<1> QED
  BY <1>1, <1>2 DEF PumpEdge

\* The link comes, shows its MTU, and goes.
LEMMA NoteMtuKeeps ==
    ASSUME Rest, MtuInv, NEW m \in Mtus, NoteMtu(m)
    PROVE  /\ observedMtu' \in Mtus \cup {0} /\ mtu' \in Mtus \cup {Ceiling}
           /\ mtuObserved' \in BOOLEAN /\ (mtuObserved' => hooked)
           /\ (observedMtu' # 0 => mtu' = Capped(observedMtu'))
           /\ (hooked => mtu' = Capped(m))
<1>1. m # 0 /\ Capped(m) \in Mtus \cup {Ceiling}
  BY MtusAre
<1>2. CASE hooked /\ m # observedMtu
  <2>1. observedMtu' = m /\ mtuObserved' = TRUE /\ mtu' = Capped(m)
    BY <1>2 DEF NoteMtu, Capped
  <2> QED
    BY <1>1, <1>2, <2>1
<1>3. CASE ~(hooked /\ m # observedMtu)
  <2>1. UNCHANGED <<observedMtu, mtuObserved, mtu>>
    BY <1>3, Zenon DEF NoteMtu
  <2> QED
    BY <1>1, <1>3, <2>1 DEF Rest, MtuInv
<1> QED
  BY <1>2, <1>3

LEMMA AidingLink ==
    ASSUME AidInv, Drop \/ Subscribe \/ \E c \in Centrals, m \in Mtus : Connect(c, m)
    PROVE  AidInv'
<1> USE DEF AidInv
<1>0. Rest
  BY TypeParts
<1>1. UNCHANGED <<hooked, tracker, aid, lastToken, begins, lost, faults>>
  BY DEF Drop, Subscribe, Connect, deviceVars, countVars
<1>2. AidOK' /\ OwnChunksOnly' /\ aid' \in Transfers
  BY <1>1, AidFrame
<1>3. OwnerInv'
  BY <1>1 DEF OwnerInv, Open
<1>4. CASE Drop
  <2>1. /\ link' = [link EXCEPT !.up = FALSE] /\ client' = NoClient /\ flight' = {}
        /\ UNCHANGED <<observedMtu, mtu, mtuObserved, links>>
    BY <1>4 DEF Drop, deviceVars, countVars
  <2>2. link' \in Links /\ ~link'.up
    BY <2>1 DEF ShapeOK, Links
  <2>3. ShapeOK'
    BY <1>1, <1>2, <2>1, <2>2, NoTransferIs DEF ShapeOK
  <2>4. MtuInv' /\ ClientInv' /\ FlightInv' /\ Rest'
    BY <1>0, <1>1, <2>1, <2>2 DEF MtuInv, ClientInv, FlightInv, Opened, Rest
  <2> QED
    BY <1>2, <1>3, <2>3, <2>4, TypeParts
<1>5. CASE Subscribe
  <2>1. link.up /\ link.mtu \in Mtus /\ NoteMtu(link.mtu) /\ UNCHANGED <<link, client, flight, links>>
    BY <1>5 DEF Subscribe, ShapeOK, countVars
  <2>2. Rest' /\ MtuInv'
    BY <1>0, <1>1, <2>1, NoteMtuKeeps DEF Rest, MtuInv
  <2>3. ShapeOK'
    BY <1>1, <1>2, <2>1 DEF ShapeOK
  <2>4. ClientInv' /\ FlightInv'
    BY <1>1, <2>1 DEF ClientInv, FlightInv, Opened, Open, Rising, TokenOf
  <2> QED
    BY <1>2, <1>3, <2>2, <2>3, <2>4, TypeParts
<1>6. ASSUME NEW c \in Centrals, NEW m \in Mtus, Connect(c, m)
      PROVE  AidInv'
  <2>1. /\ ~link.up /\ link' = [up |-> TRUE, central |-> c, mtu |-> m] /\ NoteMtu(m)
        /\ links' = links + 1 /\ UNCHANGED <<client, flight>>
    BY <1>6 DEF Connect
  <2>2. link' \in Links /\ link'.up /\ link'.mtu = m
    BY <2>1 DEF Links, Names
  <2>3. Rest' /\ MtuInv'
    BY <1>0, <1>1, <2>1, <2>2, NoteMtuKeeps DEF Rest, MtuInv
  <2>4. ShapeOK'
    BY <1>1, <1>2, <2>1, <2>2 DEF ShapeOK
  <2>5. ClientInv' /\ FlightInv'
    BY <1>1, <2>1 DEF ClientInv, FlightInv, Opened, TokenOf
  <2> QED
    BY <1>2, <1>3, <2>3, <2>4, <2>5, TypeParts
<1> QED
  BY <1>4, <1>5, <1>6

-----------------------------------------------------------------------------
(* Chunks *)

\* A chunk of the client's transfer carries the token of the last BEGIN.
LEMMA FlightGrows ==
    ASSUME AidInv, Opened, UNCHANGED <<lastToken, begins>>, NEW i \in Nat, NEW len \in Int,
           flight' = flight \cup {Chunk(i, len)}
    PROVE  FlightInv' /\ flight' \subseteq Chunks
<1> USE DEF AidInv
<1>1. /\ client.token = lastToken /\ client.serial = begins /\ begins # 0
      /\ lastToken \in 1..Tokens /\ begins \in Nat /\ Tokens \in Nat \ {0, 1}
  BY TokenAssumption DEF ClientInv, OwnerInv, TypeOK, ShapeOK
<1> DEFINE new == Chunk(i, len)
<1>2. new \in Chunks /\ new.serial = begins /\ new.token = lastToken
  BY <1>1 DEF Chunk, Chunks
<1>3. TokenOf(0) = lastToken
  BY <1>1 DEF TokenOf
<1>4. new.serial <= begins /\ begins - new.serial < Tokens /\ new.token = TokenOf(begins - new.serial)
  BY <1>1, <1>2, <1>3
<1> HIDE DEF new
<1>5. flight' = flight \cup {new}
  BY DEF new
<1> QED
  BY <1>1, <1>2, <1>4, <1>5 DEF FlightInv, ShapeOK, TokenOf

LEMMA WantIs == ASSUME ShapeOK, NEW i \in Int PROVE Want(client, i) \in Int
  BY DEF ShapeOK, IsClient, Want

LEMMA AidingWrite ==
    ASSUME AidInv, WriteFaulty \/ \E i \in 0..(MaxChunks - 1) : Write(i)
    PROVE  AidInv'
<1> USE DEF AidInv
<1>1. /\ UNCHANGED <<hooked, linkVars, deviceVars, links, begins, lost>> /\ Opened /\ link.up
      /\ (faults' = faults \/ faults' = faults + 1)
  BY DEF WriteFaulty, Write, countVars
<1>2. AidOK' /\ OwnChunksOnly' /\ aid' \in Transfers
  BY <1>1, AidFrame DEF deviceVars
<1>3. FlightInv' /\ flight' \subseteq Chunks
  <2>1. CASE \E i \in 0..(MaxChunks - 1) : Write(i)
    <3> PICK i \in 0..(MaxChunks - 1) : Write(i)
      BY <2>1
    <3>1. flight' = flight \cup {Chunk(i, Want(client, i))} /\ Want(client, i) \in Int /\ i \in Nat
      BY WantIs DEF Write
    <3> QED
      BY <1>1, <3>1, FlightGrows DEF deviceVars
  <2>2. CASE WriteFaulty
    <3> PICK i \in 0..Expected(client) :
               flight' = flight \cup {Chunk(i, IF i \in Indices(client) THEN Want(client, i) - 1
                                                                     ELSE client.size)}
      BY <2>2 DEF WriteFaulty
    <3> DEFINE len == IF i \in Indices(client) THEN Want(client, i) - 1 ELSE client.size
    <3>1. len \in Int /\ i \in Nat
      BY WantIs DEF ShapeOK, IsClient
    <3> QED
      BY <1>1, <3>1, FlightGrows DEF deviceVars
  <2> QED
    BY <2>1, <2>2
<1>4. IsClient(client') /\ Opened' /\ client'.token = client.token /\ client'.serial = client.serial
      /\ client'.total = client.total /\ client'.size = client.size
  <2>0. IsClient(client) /\ client.token # 0
    BY <1>1 DEF ShapeOK, ClientInv, TypeOK
  <2>1. client' = client \/ \E x : client' = [client EXCEPT !.todo = x]
    BY DEF WriteFaulty, Write
  <2>2. ASSUME NEW x, client' = [client EXCEPT !.todo = x]
        PROVE  client' = [token |-> client.token, total |-> client.total, size |-> client.size,
                          todo |-> x, serial |-> client.serial]
    BY <2>0, <2>2 DEF IsClient
  <2>3. \E x : client' = [token |-> client.token, total |-> client.total, size |-> client.size,
                          todo |-> x, serial |-> client.serial]
    BY <2>0, <2>1, <2>2 DEF IsClient
  <2> QED
    BY <2>0, <2>3 DEF IsClient, Opened, NoClient
<1>5. ShapeOK' /\ Rest'
  BY <1>1, <1>2, <1>3, <1>4, TypeParts DEF ShapeOK, Rest, linkVars, deviceVars
<1>6. MtuInv' /\ OwnerInv'
  BY <1>1 DEF MtuInv, OwnerInv, Open, linkVars, deviceVars
<1>7. ClientInv'
  BY <1>1, <1>4 DEF ClientInv, Open, Rising, linkVars, deviceVars
<1> QED
  BY <1>2, <1>3, <1>5, <1>6, <1>7, TypeParts

LEMMA AidingLose == AidInv /\ Lose => AidInv'
<1> SUFFICES ASSUME AidInv, Lose PROVE AidInv'
  OBVIOUS
<1> USE DEF AidInv
<1>1. /\ UNCHANGED <<hooked, linkVars, deviceVars, client, links, begins, faults>>
      /\ lost' = lost + 1 /\ flight' \subseteq flight
  BY DEF Lose
<1>2. AidOK' /\ OwnChunksOnly' /\ aid' \in Transfers
  BY <1>1, AidFrame DEF deviceVars
<1>3. ShapeOK' /\ Rest'
  BY <1>1, <1>2, TypeParts DEF ShapeOK, Rest, linkVars, deviceVars
<1>4. MtuInv' /\ OwnerInv' /\ ClientInv' /\ FlightInv'
  BY <1>1 DEF MtuInv, OwnerInv, ClientInv, FlightInv, Open, Opened, Rising, TokenOf, linkVars, deviceVars
<1> QED
  BY <1>2, <1>3, <1>4, TypeParts

\* A chunk that carries the open transfer's token is the transfer's own.
LEMMA OwnToken ==
    ASSUME AidInv, Open, NEW c \in flight, c.token = aid.token
    PROVE  c.serial = aid.serial
<1> USE DEF AidInv
<1> DEFINE age == begins - c.serial
<1>1. c.serial \in Nat /\ begins \in Nat /\ lastToken \in Nat /\ Tokens \in Nat \ {0, 1}
  BY TokenAssumption DEF ShapeOK, Chunks, TypeOK
<1>2. age \in Nat /\ age < Tokens /\ aid.token = lastToken /\ aid.serial = begins
  BY <1>1 DEF FlightInv, OwnerInv
<1>3. lastToken = TokenOf(age)
  BY <1>2 DEF FlightInv
<1> HIDE DEF age
<1>4. age = 0
  BY <1>1, <1>2, <1>3 DEF TokenOf
<1> QED
  BY <1>1, <1>2, <1>4 DEF age

LEMMA AidingArrive == ASSUME AidInv, NEW c \in flight, Arrive(c) PROVE AidInv'
<1> USE DEF AidInv
<1>1. /\ UNCHANGED <<hooked, link, mtu, mtuObserved, lastToken, client, countVars>>
      /\ link.up /\ TakeEdge /\ flight' = flight \ {c} /\ c \in Chunks
  BY DEF Arrive, ObserveLinkUp, ShapeOK
<1>2. /\ tracker' \in Trackers /\ ~Rising' /\ observedMtu' \in {0, observedMtu}
      /\ tracker' = [up |-> TRUE, central |-> link.central]
      /\ (~Rising => AfterEdge = aid /\ tracker' = tracker)
      /\ (AfterEdge # NoTransfer => AfterEdge = aid /\ ~Rising /\ Open)
  BY <1>1, EdgeTaken
<1>3. CASE ~Admits(AfterEdge, c)
  <2>1. aid' = AfterEdge /\ aid' \in {aid, NoTransfer}
    BY <1>2, <1>3 DEF Arrive
  <2>2. AidOK' /\ OwnChunksOnly' /\ aid' \in Transfers
    BY <2>1, AidFrame
  <2>3. ShapeOK' /\ Rest'
    BY <1>1, <1>2, <2>2, TypeParts DEF ShapeOK, Rest, countVars
  <2>4. MtuInv' /\ FlightInv'
    BY <1>1, <1>2 DEF MtuInv, FlightInv, TokenOf, countVars
  <2>5. OwnerInv' /\ ClientInv'
    BY <1>1, <1>2, <2>1 DEF OwnerInv, ClientInv, Open, Opened, countVars
  <2> QED
    BY <2>2, <2>3, <2>4, <2>5, TypeParts
<1>4. CASE Admits(AfterEdge, c)
  <2>1. AfterEdge = aid /\ ~Rising /\ Open /\ c.token = aid.token /\ c.index < Expected(aid)
    BY <1>2, <1>4 DEF Admits
  <2> DEFINE new == [index |-> c.index, serial |-> c.serial, len |-> c.len]
             held == {d \in aid.chunks : d.index # c.index} \cup {new}
  <2>2. aid' = [aid EXCEPT !.chunks = held]
    BY <1>4, <2>1 DEF Arrive
  <2>3. new \in Places /\ new.index = c.index /\ new.serial = aid.serial
    BY <1>1, <2>1, OwnToken DEF Chunks, Places
  <2>4. c.index \in Indices(aid)
    <3>1. Expected(aid) \in Int
      <4>1. aid.total \in Int /\ aid.size \in Sizes
        BY <2>1, TypeParts DEF AidOK, ShapeOK, Transfers
      <4> QED
        BY <4>1, SizesAre, ExpectedIs
    <3>2. c.index \in Nat
      BY <1>1 DEF Chunks
    <3> QED
      BY <2>1, <3>1, <3>2 DEF Indices
  <2>5. aid \in Transfers /\ held \in SUBSET Places
    BY <2>3 DEF ShapeOK, Transfers
  <2>6. /\ \A d \in held : d.index \in Indices(aid) /\ d.serial = aid.serial
        /\ \A d, e \in held : d.index = e.index => d = e
    <3>1. AidOK /\ OwnChunksOnly
      BY TypeParts
    <3> HIDE DEF new
    <3> QED
      BY <2>1, <2>3, <2>4, <3>1 DEF AidOK, OwnChunksOnly
  <2> HIDE DEF held
  <2>7. /\ aid' \in Transfers /\ aid'.chunks = held
        /\ aid'.token = aid.token /\ aid'.total = aid.total /\ aid'.size = aid.size
        /\ aid'.serial = aid.serial /\ aid'.owner = aid.owner
    BY <2>2, <2>5 DEF Transfers
  <2>8. Expected(aid') = Expected(aid) /\ Indices(aid') = Indices(aid)
    BY <2>7 DEF Expected, Indices
  <2>9. AidOK /\ OwnChunksOnly
    BY TypeParts
  <2>10. AidOK' /\ OwnChunksOnly'
    BY <2>1, <2>6, <2>7, <2>8, <2>9 DEF AidOK, OwnChunksOnly
  <2>11. Open'
    BY <2>1, <2>7, <2>9, NoTransferIs DEF Open, AidOK, NoTransfer
  <2>12. ShapeOK' /\ Rest'
    BY <1>1, <1>2, <2>7, TypeParts DEF ShapeOK, Rest, countVars
  <2>13. MtuInv' /\ FlightInv'
    BY <1>1, <1>2 DEF MtuInv, FlightInv, TokenOf, countVars
  <2>14. OwnerInv' /\ ClientInv'
    BY <1>1, <1>2, <2>1, <2>7, <2>11 DEF OwnerInv, ClientInv, Opened, countVars
  <2> QED
    BY <2>10, <2>12, <2>13, <2>14, TypeParts
<1> QED
  BY <1>3, <1>4

-----------------------------------------------------------------------------
(* Requests *)

\* The device opens what the client is told of.
LEMMA AidingOpens ==
    ASSUME AidInv, NEW total \in Totals, Begin(total), Acceptable(total)
    PROVE  AidInv'
<1> USE DEF AidInv
<1> DEFINE n == begins + 1
           t == NextToken(AfterEdge)
           s == ChunkBytes
<1>1. /\ UNCHANGED <<hooked, link, mtu, mtuObserved, flight, links, lost, faults>>
      /\ link.up /\ TakeEdge /\ ShortLag /\ begins' = n
      /\ aid' = [token |-> t, total |-> total, size |-> s, chunks |-> {}, serial |-> n,
                 owner |-> link.central]
      /\ lastToken' = aid'.token
      /\ client' = [token |-> aid'.token, total |-> total, size |-> aid'.size,
                    todo |-> Indices(aid'), serial |-> n]
  BY DEF Begin, ObserveLinkUp
<1>2. /\ tracker' \in Trackers /\ ~Rising' /\ observedMtu' \in {0, observedMtu}
      /\ tracker' = [up |-> TRUE, central |-> link.central]
  BY <1>1, EdgeTaken
<1>3. /\ begins \in Nat /\ lastToken \in 0..Tokens /\ Tokens \in Nat \ {0, 1}
      /\ t = (IF lastToken \in {0, Tokens} THEN 1 ELSE lastToken + 1)
  BY TokenAssumption, NextTokenIs DEF ShapeOK, TypeOK
<1>4. t \in 1..Tokens
  BY <1>3
<1>5. s \in Sizes /\ s \in Int /\ s + Overhead <= link.mtu
  BY <1>1, ChunkBytesIs
<1>6. total \in Nat /\ total # 0 /\ total <= MaxBytes
      /\ Expected([total |-> total, size |-> s]) <= MaxChunks
  BY SizeAssumption DEF Acceptable
<1> HIDE DEF t, s
<1>7. /\ aid'.token = t /\ aid'.total = total /\ aid'.size = s /\ aid'.chunks = {}
      /\ aid'.serial = n /\ aid'.owner = link.central /\ lastToken' = t
  BY <1>1
<1>8. aid' \in Transfers
  BY <1>1, <1>3, <1>4, <1>5, <1>6 DEF Transfers, ShapeOK, Links
<1>9. Open'
  BY <1>4, <1>7 DEF Open, NoTransfer
<1>10. AidOK'
  <2>1. Expected(aid') = Expected([total |-> total, size |-> s])
    BY <1>7 DEF Expected
  <2>2. total \in 1..MaxBytes
    BY <1>6, SizeAssumption
  <2> QED
    BY <1>4, <1>5, <1>6, <1>7, <2>1, <2>2 DEF AidOK
<1>11. OwnChunksOnly'
  BY <1>7 DEF OwnChunksOnly
<1>12. /\ IsClient(client') /\ client'.token = t /\ client'.total = total /\ client'.size = s
       /\ client'.serial = n
  BY <1>1, <1>3, <1>4, <1>5, <1>6, <1>7 DEF IsClient
<1>13. ShapeOK' /\ Rest'
  BY <1>1, <1>2, <1>3, <1>4, <1>7, <1>8, <1>12, TypeParts DEF ShapeOK, Rest
<1>14. MtuInv'
  BY <1>1, <1>2 DEF MtuInv
<1>15. OwnerInv'
  BY <1>1, <1>2, <1>3, <1>4, <1>7 DEF OwnerInv
<1>16. ClientInv'
  BY <1>1, <1>2, <1>5, <1>7, <1>9, <1>12 DEF ClientInv
<1>17. FlightInv'
  <2>1. begins' # 0
    BY <1>1, <1>3
  <2> SUFFICES ASSUME NEW c \in flight
               PROVE  /\ c.serial <= n /\ n - c.serial < Tokens
                      /\ c.token = IF n - c.serial < t THEN t - (n - c.serial)
                                                       ELSE t + Tokens - (n - c.serial)
    BY <1>1, <1>7, <2>1 DEF FlightInv, TokenOf
  <2>2. /\ c.serial \in Nat /\ c.serial <= begins /\ begins - c.serial < Tokens
        /\ c.token = TokenOf(begins - c.serial)
    BY DEF FlightInv, ShapeOK, Chunks
  <2>3. n - c.serial < Tokens
    <3>1. ShortLag
      BY <1>1
    <3> QED
      BY <1>3, <2>2, <3>1 DEF ShortLag
  <2>4. lastToken # 0
    BY DEF FlightInv, OwnerInv
  <2>5. c.token = IF n - c.serial < t THEN t - (n - c.serial) ELSE t + Tokens - (n - c.serial)
    <3> DEFINE age == begins - c.serial
    <3>1. n - c.serial = age + 1 /\ age \in Nat
      BY <1>3, <2>2
    <3>2. c.token = IF age < lastToken THEN lastToken - age ELSE lastToken + Tokens - age
      BY <2>2 DEF TokenOf
    <3>3. age + 1 < Tokens
      BY <2>3, <3>1
    <3> HIDE DEF age
    <3>4. c.token = IF age + 1 < t THEN t - (age + 1) ELSE t + Tokens - (age + 1)
      <4>1. CASE lastToken = Tokens
        BY <1>3, <2>4, <3>1, <3>2, <3>3, <4>1
      <4>2. CASE lastToken # Tokens
        BY <1>3, <2>4, <3>1, <3>2, <3>3, <4>2
      <4> QED
        BY <4>1, <4>2
    <3> QED
      BY <3>1, <3>4
  <2>6. c.serial <= n
    BY <1>3, <2>2
  <2> QED
    BY <2>3, <2>5, <2>6
<1> QED
  BY <1>10, <1>11, <1>13, <1>14, <1>15, <1>16, <1>17, TypeParts

\* A refused BEGIN, and a commit, leave the transfer or take it away.
LEMMA AidingKeeps ==
    ASSUME AidInv, UNCHANGED <<hooked, link, mtu, mtuObserved, lastToken, flight, links, begins, lost>>,
           link.up, TakeEdge, faults' \in {faults, faults + 1},
           \/ aid' = AfterEdge /\ UNCHANGED client
           \/ aid' = AfterEdge /\ Opened /\ \E x : client' = [client EXCEPT !.todo = x]
           \/ aid' \in {AfterEdge, NoTransfer} /\ client' = NoClient
    PROVE  AidInv'
<1> USE DEF AidInv
<1>1. /\ tracker' \in Trackers /\ ~Rising' /\ observedMtu' \in {0, observedMtu}
      /\ tracker' = [up |-> TRUE, central |-> link.central]
      /\ (~Rising => AfterEdge = aid /\ tracker' = tracker)
      /\ (AfterEdge # NoTransfer => AfterEdge = aid /\ ~Rising /\ Open)
  BY EdgeTaken
<1>2. aid' \in {aid, NoTransfer}
  BY <1>1
<1>3. AidOK' /\ OwnChunksOnly' /\ aid' \in Transfers
  BY <1>2, AidFrame
<1>4. IsClient(client) /\ (Opened => client.token # 0)
  BY DEF ShapeOK, ClientInv, TypeOK
<1>5. \/ client' = NoClient
      \/ /\ IsClient(client') /\ (Opened' => Opened) /\ client'.token = client.token
         /\ client'.serial = client.serial /\ client'.total = client.total /\ client'.size = client.size
         /\ aid' = AfterEdge
  <2>1. CASE UNCHANGED client /\ aid' = AfterEdge
    BY <1>4, <2>1 DEF Opened
  <2>2. ASSUME NEW x, client' = [client EXCEPT !.todo = x], Opened, aid' = AfterEdge
        PROVE  /\ IsClient(client') /\ (Opened' => Opened) /\ client'.token = client.token
               /\ client'.serial = client.serial /\ client'.total = client.total
               /\ client'.size = client.size /\ aid' = AfterEdge
    <3>1. client' = [token |-> client.token, total |-> client.total, size |-> client.size,
                     todo |-> x, serial |-> client.serial]
      BY <1>4, <2>2 DEF IsClient
    <3> QED
      BY <1>4, <2>2, <3>1 DEF IsClient
  <2> QED
    BY <2>1, <2>2
<1>6. ShapeOK' /\ Rest'
  BY <1>1, <1>3, <1>5, TypeParts, NoTransferIs DEF ShapeOK, Rest
<1>7. MtuInv' /\ FlightInv'
  BY <1>1 DEF MtuInv, FlightInv, TokenOf
<1>8. OwnerInv'
  BY <1>1, <1>2 DEF OwnerInv, Open
<1>9. ClientInv'
  BY <1>1, <1>5 DEF ClientInv, Open, Opened
<1> QED
  BY <1>3, <1>6, <1>7, <1>8, <1>9, TypeParts

LEMMA AidingRequest ==
    ASSUME AidInv, \/ \E total \in Totals : Begin(total)
                   \/ \E honest, accepts \in BOOLEAN : Commit(honest, accepts)
    PROVE  AidInv'
<1>1. ASSUME NEW total \in Totals, Begin(total) PROVE AidInv'
  <2>1. CASE Acceptable(total)
    BY <1>1, <2>1, AidingOpens
  <2>2. CASE ~Acceptable(total)
    BY <1>1, <2>2, AidingKeeps DEF Begin, ObserveLinkUp
  <2> QED
    BY <2>1, <2>2
<1>2. ASSUME NEW honest \in BOOLEAN, NEW accepts \in BOOLEAN, Commit(honest, accepts)
      PROVE  AidInv'
  <2>1. /\ UNCHANGED <<hooked, link, mtu, mtuObserved, lastToken, flight, links, begins, lost>>
        /\ link.up /\ TakeEdge /\ faults' \in {faults, faults + 1}
    BY <1>2 DEF Commit, ObserveLinkUp
  <2>2. \/ aid' = AfterEdge /\ client' = (IF Opened THEN [client EXCEPT !.todo = {FirstMissing(AfterEdge)}]
                                                    ELSE client)
        \/ aid' \in {AfterEdge, NoTransfer} /\ client' = NoClient
    BY <1>2 DEF Commit, Kept
  <2>3. \/ aid' = AfterEdge /\ UNCHANGED client
        \/ aid' = AfterEdge /\ Opened /\ \E x : client' = [client EXCEPT !.todo = x]
        \/ aid' \in {AfterEdge, NoTransfer} /\ client' = NoClient
    BY <2>2
  <2> QED
    BY <2>1, <2>3, AidingKeeps
<1> QED
  BY <1>1, <1>2

LEMMA AidingNext == AidInv /\ [Next]_vars => AidInv'
<1> SUFFICES ASSUME AidInv, [Next]_vars PROVE AidInv'
  OBVIOUS
<1>1. CASE UNCHANGED vars
  <2>1. UNCHANGED <<hooked, linkVars, deviceVars, client, flight, countVars>>
    BY <1>1 DEF vars
  <2>2. AidOK' /\ OwnChunksOnly' /\ aid' \in Transfers
    BY <2>1, AidFrame DEF deviceVars
  <2>3. ShapeOK' /\ Rest'
    BY <2>1, <2>2, TypeParts DEF AidInv, ShapeOK, Rest, linkVars, deviceVars, countVars
  <2>4. MtuInv' /\ OwnerInv' /\ ClientInv' /\ FlightInv'
    BY <2>1 DEF AidInv, MtuInv, OwnerInv, ClientInv, FlightInv, Open, Opened, Rising, TokenOf,
       linkVars, deviceVars, countVars
  <2> QED
    BY <2>2, <2>3, <2>4, TypeParts DEF AidInv
<1> QED
  BY <1>1, AidingPump, AidingLink, AidingWrite, AidingLose, AidingArrive, AidingRequest DEF Next

LEMMA AidingInvariant == Spec => []AidInv
  BY AidingInit, AidingNext, PTL DEF Spec

-----------------------------------------------------------------------------
(* What a transfer promises *)

\* The state of a transfer is what the code takes it for, whatever the MTUs, the sizes and
\* the token space.
THEOREM TypeCorrect == Spec => []TypeOK
  BY AidingInvariant, PTL DEF AidInv

\* No chunk of a discarded transfer is ever held, for any token space, any number of
\* transfers and any order of arrival: a chunk's token is as many steps behind the last one
\* as its transfer is, so that it can only match its own.  Assumed, as in the model (ShortLag):
\* no chunk is held back while a whole token space of transfers is opened.
THEOREM ChunksAreOwn == Spec => []OwnChunksOnly
  BY AidingInvariant, PTL DEF AidInv

\* Every chunk the device asks for fits the link it asks on, whatever the link before it
\* negotiated: the MTU a chunk is sized from is the link's own or the least one there is.
THEOREM ChunksCanBeWritten == Spec => []ChunkWritable
<1>1. AidInv => ChunkWritable
  BY DEF AidInv, ClientInv, ChunkWritable
<1> QED
  BY <1>1, AidingInvariant, PTL

\* A client's open transfer is the device's, and no edge is left to take that would drop it.
THEOREM TransferIsKept == Spec => []TransferKept
<1>1. AidInv => TransferKept
  BY DEF AidInv, ClientInv, TransferKept
<1> QED
  BY <1>1, AidingInvariant, PTL

\* An answer that says something of a transfer comes from a commit, and of what was open.
LEMMA AnswersCommit ==
    ASSUME AidInv, [Next]_vars, answer' # answer, answer'.result # "none"
    PROVE  \E honest, accepts \in BOOLEAN : Commit(honest, accepts)
<1>1. answer' # NoAnswer
  BY DEF NoAnswer
<1>2. ~PumpEdge /\ ~Subscribe /\ ~WriteFaulty /\ ~Lose /\ ~UNCHANGED vars
  BY DEF PumpEdge, Subscribe, WriteFaulty, Lose, vars
<1>3. ~Drop /\ ~(\E total \in Totals : Begin(total))
  BY <1>1 DEF Drop, Begin
<1>4. /\ ~(\E c \in Centrals, m \in Mtus : Connect(c, m))
      /\ ~(\E i \in 0..(MaxChunks - 1) : Write(i))
      /\ ~(\E c \in flight : Arrive(c))
  BY DEF Connect, Write, Arrive
<1> QED
  BY <1>2, <1>3, <1>4 DEF Next

\* A commit is answered for the transfer of the central that sent it, never for one of a
\* central served before it, whatever edge the callback finds not yet taken.
THEOREM TransfersAreOwn == Spec => OwnTransferOnly
<1> DEFINE Step == answer' # answer /\ answer'.result \notin {"none", "bad_params"} =>
                     aid.owner = link.central
<1>1. AidInv /\ [Next]_vars => Step
  <2> SUFFICES ASSUME AidInv, [Next]_vars, answer' # answer,
                      answer'.result \notin {"none", "bad_params"}
               PROVE  aid.owner = link.central
    OBVIOUS
  <2> PICK honest \in BOOLEAN, accepts \in BOOLEAN : Commit(honest, accepts)
    BY AnswersCommit
  <2>1. AfterEdge # NoTransfer
    BY DEF Commit
  <2>2. link.up /\ TakeEdge
    BY DEF Commit, ObserveLinkUp
  <2>3. Open /\ ~Rising
    BY <2>1, <2>2, EdgeTaken DEF AidInv
  <2> QED
    BY <2>2, <2>3 DEF AidInv, OwnerInv, Rising
<1>2. OwnTransferOnly <=> [][Step]_vars
  BY DEF OwnTransferOnly
<1> HIDE DEF Step
<1> QED
  BY <1>1, <1>2, AidingInvariant, PTL DEF Spec

\* The receiver is handed a payload only if every chunk of the transfer the client means is
\* there, of that transfer and of its own length, and the CRC is the honest one.
THEOREM OnlyWholeIsApplied == Spec => AppliedWhole
<1> DEFINE Step == answer' # answer /\ answer'.result \in {"applied", "rejected"} =>
                     faults' = faults /\ Whole(aid)
<1>1. AidInv /\ [Next]_vars => Step
  <2> SUFFICES ASSUME AidInv, [Next]_vars, answer' # answer,
                      answer'.result \in {"applied", "rejected"}
               PROVE  faults' = faults /\ Whole(aid)
    OBVIOUS
  <2> PICK honest \in BOOLEAN, accepts \in BOOLEAN : Commit(honest, accepts)
    BY AnswersCommit
  <2>1. AfterEdge # NoTransfer /\ CrcMatches(AfterEdge, honest)
    BY DEF Commit
  <2>2. link.up /\ TakeEdge /\ faults' = IF honest THEN faults ELSE faults + 1
    BY DEF Commit, ObserveLinkUp
  <2>3. AfterEdge = aid
    BY <2>1, <2>2, EdgeTaken DEF AidInv
  <2> QED
    BY <2>1, <2>2, <2>3 DEF CrcMatches
<1>2. AppliedWhole <=> [][Step]_vars
  BY DEF AppliedWhole
<1> HIDE DEF Step
<1> QED
  BY <1>1, <1>2, AidingInvariant, PTL DEF Spec

=============================================================================

-------------------------- MODULE HarnessRun_proofs --------------------------
(***************************************************************************)
(* What holds of every conformance run, whatever the device's fault, the   *)
(* number of its slots and the options it is run with (HarnessRun): the    *)
(* type of the run's state, and that the session's notes on the            *)
(* subscriptions are what the device's table holds, when the table is      *)
(* smaller than what the fill check asks for.                              *)
(*                                                                         *)
(* TypeInv is inductive.  It adds to the type what a check needs of those  *)
(* before it: the device's table is finite and within its slots, and the   *)
(* session has the fields a check reads, from the reading of Info on.      *)
(* Every check hands such a world on (Fine): it has only asked the device, *)
(* by requests that keep its table within its slots.                       *)
(*                                                                         *)
(* NotesInv is inductive beside it.  At a conforming device the notes and  *)
(* the table match between two checks, and the place in the registry tells *)
(* what can be installed (Stock): nothing but the probe's identifier while *)
(* the first checks of the table run, nothing before them, and nothing     *)
(* from there to the observation.  Without Stock no step could be shown:   *)
(* the check that fills the table, and those that reset it, leave notes    *)
(* that match the table only when they find nothing else noted.            *)
(***************************************************************************)
EXTENDS HarnessRun, FiniteSetTheorems, FunctionTheorems, WellFoundedInduction,
        TLAPS

-----------------------------------------------------------------------------
(* A device whatever it is asked *)

\* What a device keeps: finitely many subscriptions, never more than it has slots.
Steady(d) ==
    /\ {"fault", "caps", "slots", "table", "late", "car", "aid_room"} \subseteq DOMAIN d
    /\ d.slots \in Nat
    /\ IsFiniteSet(DOMAIN d.table) /\ Used(d) <= d.slots
    /\ "ecus" \in DOMAIN d.car /\ d.car.ecus \in Nat
    /\ d.aid_room \in Nat
    /\ d.fault = "none" => d.late = "spent"
Kept(d, o) == Steady(d) /\ d.fault = o.fault /\ d.caps = o.caps /\ d.slots = o.slots

\* What is neither declared nor in the table may change freely.
LEMMA Elsewhere ==
    ASSUME NEW d, Steady(d), NEW x
    PROVE  /\ Kept([d EXCEPT !.poll = x], d)
           /\ Kept([d EXCEPT !.ever = x], d)
           /\ Kept([d EXCEPT !.probe = x], d)
           /\ Kept([d EXCEPT !.aid = x], d)
           /\ Kept([d EXCEPT !.tokens = x], d)
           /\ Kept([d EXCEPT !.rate = x], d)
           /\ Kept([d EXCEPT !.doubled = x], d)
           /\ Kept([d EXCEPT !.decorated = x], d)
<1>1. Kept([d EXCEPT !.poll = x], d)
  BY DEF Kept, Steady, Used
<1>2. Kept([d EXCEPT !.ever = x], d)
  BY DEF Kept, Steady, Used
<1>3. Kept([d EXCEPT !.probe = x], d)
  BY DEF Kept, Steady, Used
<1>4. Kept([d EXCEPT !.aid = x], d)
  BY DEF Kept, Steady, Used
<1>5. Kept([d EXCEPT !.tokens = x], d)
  BY DEF Kept, Steady, Used
<1>6. Kept([d EXCEPT !.rate = x], d)
  BY DEF Kept, Steady, Used
<1>7. Kept([d EXCEPT !.doubled = x], d)
  BY DEF Kept, Steady, Used
<1>8. Kept([d EXCEPT !.decorated = x], d)
  BY DEF Kept, Steady, Used
<1> QED
  BY <1>1, <1>2, <1>3, <1>4, <1>5, <1>6, <1>7, <1>8

LEMMA KeptThrough ==
    ASSUME NEW a, NEW b, NEW c, Kept(b, a), Kept(c, b)
    PROVE  Kept(c, a)
  BY DEF Kept

LEMMA KeptItself ==
    ASSUME NEW d, Steady(d)
    PROVE  Kept(d, d)
  BY DEF Kept

\* A table that fits.
LEMMA KeptTable ==
    ASSUME NEW d, Steady(d), NEW t, IsFiniteSet(DOMAIN t), Cardinality(DOMAIN t) <= d.slots
    PROVE  Kept([d EXCEPT !.table = t], d)
  BY DEF Kept, Steady, Used

LEMMA KeptCar ==
    ASSUME NEW d, Steady(d), NEW n \in Nat
    PROVE  Kept([d EXCEPT !.car.ecus = n], d)
  BY DEF Kept, Steady, Used

LEMMA KeptEntry ==
    ASSUME NEW d, Steady(d), NEW k, NEW e
    PROVE  /\ Kept([d EXCEPT !.table[k] = e], d)
           /\ DOMAIN [d EXCEPT !.table[k] = e].table = DOMAIN d.table
  BY DEF Kept, Steady, Used

LEMMA KeptSeen ==
    ASSUME NEW d, Steady(d), NEW k, NEW e
    PROVE  Kept([d EXCEPT !.table[k].seen = e], d)
  BY DEF Kept, Steady, Used

LEMMA PlacedIn ==
    ASSUME NEW t, NEW k, NEW e
    PROVE  DOMAIN Placed(t, k, e) = DOMAIN t \cup {k}
  BY DEF Placed

LEMMA InstalledIn ==
    ASSUME NEW t, NEW q
    PROVE  DOMAIN Installed(t, q) = DOMAIN t \cup {q.key}
  BY PlacedIn DEF Installed

LEMMA WithoutIn ==
    ASSUME NEW t, NEW k
    PROVE  DOMAIN Without(t, k) = DOMAIN t \ {k}
  BY DEF Without, Restrict

\* A subscription that fits.
LEMMA KeptPlaced ==
    ASSUME NEW d, Steady(d), NEW k, NEW e, k \in DOMAIN d.table \/ Used(d) < d.slots
    PROVE  Kept([d EXCEPT !.table = Placed(d.table, k, e)], d)
<1>1. IsFiniteSet(DOMAIN d.table \cup {k}) /\ Cardinality(DOMAIN d.table \cup {k}) <= d.slots
  <2>1. IsFiniteSet(DOMAIN d.table) /\ Used(d) <= d.slots /\ d.slots \in Nat
    BY DEF Steady
  <2>2. Cardinality(DOMAIN d.table) \in Nat
    BY <2>1, FS_CardinalityType
  <2>3. /\ IsFiniteSet(DOMAIN d.table \cup {k})
        /\ Cardinality(DOMAIN d.table \cup {k}) =
              IF k \in DOMAIN d.table THEN Cardinality(DOMAIN d.table)
              ELSE Cardinality(DOMAIN d.table) + 1
    BY <2>1, FS_AddElement
  <2> QED
    BY <2>1, <2>2, <2>3 DEF Used
<1> QED
  BY <1>1, PlacedIn, KeptTable

LEMMA KeptWithout ==
    ASSUME NEW d, Steady(d), NEW k
    PROVE  Kept([d EXCEPT !.table = Without(d.table, k)], d)
<1>1. IsFiniteSet(DOMAIN d.table \ {k}) /\ Cardinality(DOMAIN d.table \ {k}) <= d.slots
  <2>1. IsFiniteSet(DOMAIN d.table) /\ Used(d) <= d.slots /\ d.slots \in Nat
    BY DEF Steady
  <2>2. Cardinality(DOMAIN d.table) \in Nat
    BY <2>1, FS_CardinalityType
  <2>3. IsFiniteSet(DOMAIN d.table \ {k}) /\ Cardinality(DOMAIN d.table \ {k}) <= Cardinality(DOMAIN d.table)
    BY <2>1, FS_Subset
  <2>4. Cardinality(DOMAIN d.table \ {k}) \in Nat
    BY <2>3, FS_CardinalityType
  <2> QED
    BY <2>1, <2>2, <2>3, <2>4 DEF Used
<1> QED
  BY <1>1, WithoutIn, KeptTable

LEMMA KeptEmpty ==
    ASSUME NEW d, Steady(d)
    PROVE  Kept([d EXCEPT !.table = <<>>], d)
<1>1. DOMAIN <<>> = {}
  OBVIOUS
<1>2. d.slots \in Nat
  BY DEF Steady
<1> QED
  BY <1>1, <1>2, FS_EmptySet, KeptTable

-----------------------------------------------------------------------------
(* handle_control keeps it *)

LEMMA SubscribeKeeps ==
    ASSUME NEW d, Steady(d), NEW q
    PROVE  Kept(HandleSubscribe(d, q).device, d)
<1> DEFINE r == HandleSubscribe(d, q)
<1>1. CASE q.mode = "unknown"
  BY <1>1, KeptItself DEF HandleSubscribe, Answer
<1>2. CASE q.mode # "unknown" /\ Known(d, q.key)
  <2>1. r.device = [d EXCEPT !.table[q.key] = Updated(d.table[q.key], q)]
    BY <1>2 DEF HandleSubscribe, Answer
  <2> QED
    BY <2>1, KeptEntry
<1>3. CASE q.mode # "unknown" /\ ~Known(d, q.key) /\ ~FreeSlot(d)
  BY <1>3, KeptItself DEF HandleSubscribe, Answer
<1>4. CASE q.mode # "unknown" /\ ~Known(d, q.key) /\ FreeSlot(d)
  <2>1. r.device = [d EXCEPT !.table = Placed(d.table, q.key, Entry(d.table, q))]
    BY <1>4 DEF HandleSubscribe, Answer, Installed
  <2>2. Used(d) < d.slots
    BY <1>4 DEF FreeSlot
  <2>3. Kept([d EXCEPT !.table = Placed(d.table, q.key, Entry(d.table, q))], d)
    BY <2>2, KeptPlaced
  <2> QED
    BY <2>1, <2>3
<1> QED
  BY <1>1, <1>2, <1>3, <1>4

LEMMA RateKeeps ==
    ASSUME NEW d, Steady(d), NEW q
    PROVE  Kept(HandleRate(d, q).device, d)
  BY KeptItself DEF HandleRate, Answer, Kept, Steady, Used

LEMMA ProbedKeeps ==
    ASSUME NEW d, Steady(d)
    PROVE  Kept(Probed(d), d)
  BY DEF Probed, Kept, Steady, Used

LEMMA PolledKeeps ==
    ASSUME NEW d, Steady(d), NEW groups
    PROVE  Kept(Polled(d, groups), d)
  BY DEF Polled, Kept, Steady, Used

LEMMA PollSetKeeps ==
    ASSUME NEW d, Steady(d), NEW q
    PROVE  Kept(HandlePollSet(d, q).device, d)
  BY KeptItself, PolledKeeps DEF HandlePollSet, Answer

LEMMA BeginKeeps ==
    ASSUME NEW d, Steady(d), NEW q
    PROVE  Kept(HandleBegin(d, q).device, d)
<1>1. ASSUME NEW t, NEW n PROVE Kept([d EXCEPT !.aid = t, !.tokens = n], d)
  BY DEF Kept, Steady, Used
<1> QED
  BY <1>1, KeptItself DEF HandleBegin, Answer

LEMMA CommitKeeps ==
    ASSUME NEW d, Steady(d)
    PROVE  Kept(HandleCommit(d).device, d)
  BY KeptItself, Elsewhere DEF HandleCommit, Answer

LEMMA HandleKeeps ==
    ASSUME NEW d, Steady(d), NEW q
    PROVE  Kept(Handle(d, q).device, d)
<1> DEFINE r == Handle(d, q)
<1>1. CASE ~Owns(d, q.op) \/ q.malformed
  BY <1>1, KeptItself DEF Handle, Answer
<1>2. CASE Owns(d, q.op) /\ ~q.malformed
  <2>1. CASE q.op = "CAN_RESET"
    <3>1. Kept([d EXCEPT !.table = <<>>], d)
      BY KeptEmpty
    <3>2. Kept([d EXCEPT !.table = <<>>, !.poll = <<>>], d)
      BY <3>1 DEF Kept, Steady, Used
    <3>3. r.device = [d EXCEPT !.table = <<>>, !.poll = <<>>]
      BY <1>2, <2>1 DEF Handle, Answer, Installs
    <3> QED
      BY <3>2, <3>3
  <2>2. CASE Installs(q)
    BY <1>2, <2>2, SubscribeKeeps DEF Handle, Installs
  <2>3. CASE q.op = "CAN_UNSUBSCRIBE"
    <3>1. r.device = [d EXCEPT !.table = Without(d.table, q.key)]
      BY <1>2, <2>3 DEF Handle, Answer, Installs
    <3> QED
      BY <3>1, KeptWithout
  <2>4. CASE q.op \in {"GPS_SET_RATE", "IMU_SET_RATE"}
    BY <1>2, <2>4, RateKeeps DEF Handle, Installs
  <2>5. CASE q.op = "OBD_INFO"
    BY <1>2, <2>5, ProbedKeeps DEF Handle, Installs, Answer
  <2>6. CASE q.op = "OBD_POLL_SET"
    BY <1>2, <2>6, PollSetKeeps DEF Handle, Installs
  <2>7. CASE q.op = "GNSS_AID_BEGIN"
    BY <1>2, <2>7, BeginKeeps DEF Handle, Installs
  <2>8. CASE q.op = "GNSS_AID_COMMIT"
    BY <1>2, <2>8, CommitKeeps DEF Handle, Installs
  <2>9. CASE /\ q.op \notin {"CAN_RESET", "CAN_UNSUBSCRIBE", "GPS_SET_RATE", "IMU_SET_RATE",
                             "OBD_INFO", "OBD_POLL_SET", "GNSS_AID_BEGIN", "GNSS_AID_COMMIT"}
             /\ ~Installs(q)
    BY <1>2, <2>9, KeptItself DEF Handle, Answer
  <2> QED
    BY <2>1, <2>2, <2>3, <2>4, <2>5, <2>6, <2>7, <2>8, <2>9
<1> QED
  BY <1>1, <1>2

-----------------------------------------------------------------------------
(* What a defect does to a request keeps it too *)

LEMMA PreparedKeeps ==
    ASSUME NEW d, Steady(d), NEW q
    PROVE  Kept(Prepared(d, q), d)
<1> DEFINE p == Prepared(d, q)
           known == Installs(q) /\ Known(d, q.key)
<1>1. CASE Has(d, "duplicate_consumes_slot") /\ known
  <2> DEFINE t == Without(d.table, q.key)
             e == [d EXCEPT !.table = t]
             k == Tomb(d.table)
  <2>1. p = [d EXCEPT !.table = Placed(t, k, d.table[q.key])]
    BY <1>1 DEF Prepared, Has
  <2>2. Kept(e, d) /\ Used(e) < d.slots
    <3>1. Kept(e, d)
      BY KeptWithout
    <3>2. IsFiniteSet(DOMAIN d.table) /\ Used(d) <= d.slots /\ d.slots \in Nat
      BY DEF Steady
    <3>3. e.table = t
      BY DEF Steady
    <3>4. DOMAIN t = DOMAIN d.table \ {q.key} /\ q.key \in DOMAIN d.table
      BY <1>1, WithoutIn DEF Known
    <3>5. Cardinality(DOMAIN t) = Cardinality(DOMAIN d.table) - 1
      BY <3>2, <3>4, FS_RemoveElement
    <3>6. Cardinality(DOMAIN d.table) \in Nat
      BY <3>2, FS_CardinalityType
    <3> QED
      BY <3>1, <3>2, <3>3, <3>5, <3>6 DEF Used
  <2>3. Kept([e EXCEPT !.table = Placed(e.table, k, d.table[q.key])], e)
    <3>1. Steady(e) /\ Used(e) < e.slots
      BY <2>2 DEF Kept
    <3> QED
      BY <3>1, KeptPlaced
  <2>4. [e EXCEPT !.table = Placed(e.table, k, d.table[q.key])] = p
    <3>1. e.table = t
      BY DEF Steady
    <3> QED
      BY <2>1, <3>1
  <2> QED
    BY <2>2, <2>3, <2>4, KeptThrough
<1>2. CASE Has(d, "reinstall_rearms") /\ known
  <2>1. p = [d EXCEPT !.table[q.key].seen = {}]
    BY <1>2 DEF Prepared, Has
  <2> QED
    BY <2>1, KeptSeen
<1>3. CASE Has(d, "schedule_keyed_by_identifier") /\ Installs(q) /\ ~known
  <2> DEFINE t == [k \in DOMAIN d.table |-> Forgetting(d, k, q.key)]
  <2>1. p = [d EXCEPT !.table = t]
    BY <1>3 DEF Prepared, Has
  <2>2. DOMAIN t = DOMAIN d.table
    OBVIOUS
  <2>3. Kept([d EXCEPT !.table = t], d)
    <3> HIDE DEF t
    <3> QED
      BY <2>2 DEF Kept, Steady, Used
  <2> QED
    BY <2>1, <2>3
<1>4. CASE Has(d, "duplicate_double_entry") /\ known
  <2>1. p = [d EXCEPT !.doubled = d.doubled \cup {q.key}]
    BY <1>4 DEF Prepared, Has
  <2>2. Kept([d EXCEPT !.doubled = d.doubled \cup {q.key}], d)
    BY Elsewhere
  <2> QED
    BY <2>1, <2>2
<1>5. CASE Has(d, "transmission_bits_in_identity") /\ Installs(q)
  <2> DEFINE x == IF q.decorated THEN d.decorated \cup {q.key} ELSE d.decorated \ {q.key}
  <2>1. p = [d EXCEPT !.decorated = x]
    BY <1>5 DEF Prepared, Has
  <2>2. Kept([d EXCEPT !.decorated = x], d)
    <3> HIDE DEF x
    <3> QED
      BY Elsewhere
  <2> QED
    BY <2>1, <2>2
<1>6. CASE Has(d, "obd_polls_before_probe") /\ q.op = "OBD_POLL_SET" /\ d.probe = "none"
  <2>1. p = [d EXCEPT !.probe = "assumed"]
    BY <1>6 DEF Prepared, Has
  <2>2. Kept([d EXCEPT !.probe = "assumed"], d)
    BY Elsewhere
  <2> QED
    BY <2>1, <2>2
<1>7. CASE /\ ~(Has(d, "duplicate_consumes_slot") /\ known)
           /\ ~(Has(d, "reinstall_rearms") /\ known)
           /\ ~(Has(d, "schedule_keyed_by_identifier") /\ Installs(q) /\ ~known)
           /\ ~(Has(d, "duplicate_double_entry") /\ known)
           /\ ~(Has(d, "transmission_bits_in_identity") /\ Installs(q))
           /\ ~(Has(d, "obd_polls_before_probe") /\ q.op = "OBD_POLL_SET" /\ d.probe = "none")
  <2>1. p = d
    BY <1>7 DEF Prepared
  <2> QED
    BY <2>1, KeptItself
<1> QED
  BY <1>1, <1>2, <1>3, <1>4, <1>5, <1>6, <1>7

LEMMA RemovalKeeps ==
    ASSUME NEW d, NEW q, NEW a, NEW o, Kept(a.device, o)
    PROVE  Kept(RemovalCorrupted(d, q, a).device, o)
<1>1. Kept([a EXCEPT !.status = "ok"].device, o)
  BY DEF Kept
<1> QED
  BY <1>1 DEF RemovalCorrupted, Kept, Steady, Used

LEMMA CorruptedKeeps ==
    ASSUME NEW d, NEW q, NEW s, NEW e, Kept(e, d)
    PROVE  Kept(Corrupted(d, q, [device |-> e, status |-> s, detail |-> FALSE]).device, d)
<1> DEFINE a == [device |-> e, status |-> s, detail |-> FALSE]
           c == Corrupted(d, q, a)
<1>1. /\ [a EXCEPT !.status = "ok"].device = e
      /\ [a EXCEPT !.status = "none"].device = e
      /\ [a EXCEPT !.status = "bad_params"].device = e
      /\ [a EXCEPT !.status = "unsupported"].device = e
      /\ [a EXCEPT !.detail = TRUE].device = e
      /\ a.device = e
  OBVIOUS
<1>2. /\ Kept([a EXCEPT !.device.poll = d.poll].device, d)
      /\ Kept([a EXCEPT !.device.rate = d.rate].device, d)
  BY DEF Kept, Steady, Used
<1>3. Kept(RemovalCorrupted(d, q, a).device, d)
  BY RemovalKeeps
<1> HIDE DEF a
<1>4. Kept(c.device, d)
  BY <1>1, <1>2, <1>3 DEF Corrupted
<1> QED
  BY <1>4 DEF a

LEMMA ServedKeeps ==
    ASSUME NEW d, Steady(d), NEW q, NEW handed
    PROVE  Kept(Served(d, q, handed).device, d)
<1> DEFINE h == Handle(d, handed)
<1>1. Kept(h.device, d)
  BY HandleKeeps
<1>2. h = [device |-> h.device, status |-> h.status, detail |-> FALSE]
  <2> DEFINE Plain(r) == r = [device |-> r.device, status |-> r.status, detail |-> FALSE]
  <2>1. \A e, s : Plain(Answer(e, s))
    BY DEF Answer
  <2> HIDE DEF Plain
  <2>2. Plain(HandleSubscribe(d, handed)) /\ Plain(HandleRate(d, handed))
    BY <2>1 DEF HandleSubscribe, HandleRate
  <2>3. Plain(HandlePollSet(d, handed))
    BY <2>1 DEF HandlePollSet
  <2>4. Plain(HandleBegin(d, handed)) /\ Plain(HandleCommit(d))
    BY <2>1 DEF HandleBegin, HandleCommit
  <2>5. Plain(h)
    BY <2>1, <2>2, <2>3, <2>4 DEF Handle
  <2> QED
    BY <2>5 DEF Plain
<1> HIDE DEF h
<1>3. Kept(Corrupted(d, q, [device |-> h.device, status |-> h.status, detail |-> FALSE]).device, d)
  BY <1>1, CorruptedKeeps
<1> QED
  BY <1>2, <1>3 DEF Served, h

LEMMA MetKeeps ==
    ASSUME NEW d, Steady(d), NEW q, NEW before
    PROVE  Kept(Met(d, q, before).device, d)
<1> DEFINE p == Prepared(d, q)
           s == Served(p, q, Rewritten(d, q))
<1>1. Kept(p, d) /\ Steady(p)
  BY PreparedKeeps DEF Kept
<1>2. Kept(s.device, d)
  BY <1>1, ServedKeeps, KeptThrough
<1> HIDE DEF s
<1>3. ASSUME NEW x PROVE Kept([s EXCEPT !.status = x].device, d)
  BY <1>2 DEF Kept
<1>4. Kept(Answer(d, before).device, d)
  BY KeptItself DEF Answer
<1> QED
  BY <1>3, <1>4 DEF Met, s

\* handle_control behind LoopbackTransport, whatever defect is seeded.
LEMMA ExchangeKeeps ==
    ASSUME NEW d, Steady(d), NEW q
    PROVE  Kept(Exchange(d, q).device, d)
<1>1. CASE d.late = "pending"
  BY <1>1 DEF Exchange, Answer, Kept, Steady, Used
<1>2. CASE d.late # "pending"
  <2> DEFINE i == Idle(d, q)
             x == IF d.late = "armed" /\ q = Bare("TIME_SYNC") THEN "pending" ELSE i.device.late
  <2>1. Kept(i.device, d)
    BY MetKeeps DEF Idle
  <2>2. d.fault = "none" => x = "spent"
    BY <2>1 DEF Kept, Steady
  <2>3. Exchange(d, q) = [i EXCEPT !.device.late = x]
    BY <1>2 DEF Exchange
  <2> HIDE DEF i, x
  <2>4. Kept([i EXCEPT !.device.late = x].device, d)
    BY <2>1, <2>2 DEF Kept, Steady, Used
  <2> QED
    BY <2>3, <2>4
<1> QED
  BY <1>1, <1>2

LEMMA WhileOwedKeeps ==
    ASSUME NEW d, Steady(d), NEW q
    PROVE  Kept(WhileOwed(d, q).device, d)
<1> DEFINE h == Handle(d, q)
<1>1. Kept(h.device, d)
  BY HandleKeeps
<1> HIDE DEF h
<1>2. Kept([h EXCEPT !.status = "none"].device, d) /\ Kept([h EXCEPT !.status = "busy"].device, d)
  BY <1>1 DEF Kept
<1>3. Kept(Answer(d, "busy").device, d) /\ Kept(Answer(d, "bad_params").device, d)
  BY KeptItself DEF Answer
<1> QED
  BY <1>2, <1>3 DEF WhileOwed, h

LEMMA WatchedKeeps ==
    ASSUME NEW d, Steady(d)
    PROVE  Kept(Watched(d), d) /\ DOMAIN Watched(d).table = DOMAIN d.table
<1> DEFINE t == [k \in DOMAIN d.table |-> Seeing(d, k)]
<1>1. Watched(d) = [d EXCEPT !.table = t]
  BY DEF Watched
<1>2. DOMAIN t = DOMAIN d.table
  OBVIOUS
<1> HIDE DEF t
<1> QED
  BY <1>1, <1>2 DEF Kept, Steady, Used

LEMMA ChunkKeeps ==
    ASSUME NEW d, Steady(d), NEW token, NEW index, NEW foreign
    PROVE  Kept(Chunk(d, token, index, foreign), d) /\ Chunk(d, token, index, foreign).table = d.table
<1>1. ASSUME NEW x, NEW y
      PROVE  Kept([d EXCEPT !.aid.held = x, !.aid.spoilt = y], d)
             /\ [d EXCEPT !.aid.held = x, !.aid.spoilt = y].table = d.table
  BY DEF Kept, Steady, Used
<1> QED
  BY <1>1, KeptItself DEF Chunk

\* The connection that is opened is to the same device.
LEMMA ConnectedKeeps ==
    ASSUME NEW d, Steady(d), d.slots # 0, NEW stale, IsFiniteSet(DOMAIN stale),
           Cardinality(DOMAIN stale) <= d.slots
    PROVE  Kept(Connected(d, stale), d)
<1> DEFINE q == Subscribe(Catchall)
           one == Installed(<<>>, q)
           t == CASE Has(d, "subs_survive_reconnect") -> stale
                  [] Has(d, "stream_before_subscribe") -> one
                  [] OTHER -> <<>>
           l == IF Has(d, "owes_until_confirmed") THEN "armed" ELSE "spent"
           c == [d EXCEPT !.table = t]
<1>1. IsFiniteSet(DOMAIN t) /\ Cardinality(DOMAIN t) <= d.slots
  <2>1. DOMAIN <<>> = {}
    OBVIOUS
  <2>2. DOMAIN one = {q.key}
    <3>1. DOMAIN one = DOMAIN <<>> \cup {q.key}
      BY InstalledIn
    <3> QED
      BY <2>1, <3>1
  <2> HIDE DEF one
  <2>3. IsFiniteSet(DOMAIN one) /\ Cardinality(DOMAIN one) = 1
    <3>1. IsFiniteSet({q.key}) /\ Cardinality({q.key}) = 1
      BY FS_Singleton
    <3> QED
      BY <2>2, <3>1
  <2>4. IsFiniteSet({}) /\ Cardinality({}) = 0
    BY FS_EmptySet
  <2>5. d.slots \in Nat
    BY DEF Steady
  <2>6. t = stale \/ t = one \/ t = <<>>
    BY DEF Has
  <2> HIDE DEF t
  <2> QED
    BY <2>1, <2>3, <2>4, <2>5, <2>6
<1>2. Kept(c, d)
  <2> HIDE DEF t
  <2> QED
    BY <1>1, KeptTable
<1>3. d.fault = "none" => l = "spent"
  BY DEF Has
<1>4. Connected(d, stale) =
        [d EXCEPT !.table = t, !.late = l, !.doubled = {}, !.decorated = {}, !.probe = "none",
                  !.poll = <<>>, !.aid = NoAid]
  BY DEF Connected
<1> HIDE DEF t, l
<1> QED
  BY <1>2, <1>3, <1>4 DEF Kept, Steady, Used

-----------------------------------------------------------------------------
(* A world whatever a check asks *)

\* What a check may have come to, and what the session has noted for good.
Verdicts == {"running", "pass", "fail", "warn", "skip", "observe"}
Settled(n) ==
    /\ {"installed", "installed_before", "caps", "capacity", "can_ids", "blob"} \subseteq DOMAIN n
    /\ IsFiniteSet(n.installed) /\ IsFiniteSet(n.installed_before) /\ IsFiniteSet(n.can_ids)
    /\ n.capacity.can \in Nat /\ n.blob.chunks \in Nat
SameNotes(n, m) ==
    /\ n.installed_before = m.installed_before /\ n.caps = m.caps
    /\ n.capacity = m.capacity /\ n.can_ids = m.can_ids /\ n.blob = m.blob

\* w is what a check made of v; Fine: and what is believed installed is the same.
Sound(w, v) ==
    /\ {"device", "session", "status", "detail", "verdict"} \subseteq DOMAIN w
    /\ w.verdict \in Verdicts
    /\ Kept(w.device, v.device)
    /\ Settled(w.session) /\ SameNotes(w.session, v.session)
Fine(w, v) == Sound(w, v) /\ w.session.installed = v.session.installed

LEMMA FineSound ==
    ASSUME NEW w, NEW v, NEW u, Sound(v, u), Fine(w, v)
    PROVE  Sound(w, u)
  BY KeptThrough DEF Fine, Sound, SameNotes

LEMMA SoundItself ==
    ASSUME NEW w, NEW v, Sound(w, v)
    PROVE  Fine(w, w)
  BY KeptItself DEF Fine, Sound, SameNotes, Kept

LEMMA FineVerdict ==
    ASSUME NEW w, NEW u, NEW v, Fine(w, u), v \in Verdicts
    PROVE  Fine([w EXCEPT !.verdict = v], u)
  BY DEF Fine, Sound

LEMMA FineEnd ==
    ASSUME NEW w, NEW u, NEW v, Fine(w, u), v \in Verdicts
    PROVE  Fine(End(w, v), u)
  BY FineVerdict DEF End

LEMMA FineIf ==
    ASSUME NEW w, NEW u, Fine(w, u), NEW c
    PROVE  /\ Fine(FailIf(w, c), u) /\ Fine(WarnIf(w, c), u)
           /\ Fine(SkipIf(w, c), u) /\ Fine(ObserveIf(w, c), u)
<1>1. /\ Fine(End(w, "fail"), u) /\ Fine(End(w, "warn"), u)
      /\ Fine(End(w, "skip"), u) /\ Fine(End(w, "observe"), u)
  BY FineEnd DEF Verdicts
<1> QED
  BY <1>1 DEF FailIf, WarnIf, SkipIf, ObserveIf

\* A note of anything but the subscriptions and what Info said.
LEMMA FineNoted ==
    ASSUME NEW w, NEW u, Fine(w, u), NEW n, Settled(n), SameNotes(n, u.session),
           n.installed = u.session.installed
    PROVE  Fine(Noted(w, n), u)
  BY DEF Noted, Fine, Sound

LEMMA SoundNoted ==
    ASSUME NEW w, NEW u, Sound(w, u), NEW n, Settled(n), SameNotes(n, u.session)
    PROVE  Sound(Noted(w, n), u)
  BY DEF Noted, Sound

LEMMA FineTold ==
    ASSUME NEW w, NEW u, Fine(w, u), NEW a, Kept(a.device, w.device)
    PROVE  Fine(Told(w, a), u)
<1> DEFINE h == IF w.device.brisk THEN Flowing(a.device) ELSE {}
           x == w.session.unprovoked \/ a.status = "busy"
           y == w.session.heard \cup h
           z == IF a.status = "att" THEN "fail" ELSE w.verdict
<1>1. Told(w, a) = [w EXCEPT !.device = a.device, !.status = a.status, !.detail = a.detail,
                             !.session.unprovoked = x, !.session.heard = y, !.verdict = z]
  BY DEF Told
<1>2. z \in Verdicts
  BY DEF Fine, Sound, Verdicts
<1>3. Kept(a.device, u.device)
  BY KeptThrough DEF Fine, Sound
<1> HIDE DEF x, y, z
<1>4. Fine([w EXCEPT !.device = a.device, !.status = a.status, !.detail = a.detail,
                     !.session.unprovoked = x, !.session.heard = y, !.verdict = z], u)
  BY <1>2, <1>3 DEF Fine, Sound, Settled, SameNotes
<1> QED
  BY <1>1, <1>4

LEMMA FineTry ==
    ASSUME NEW w, NEW u, Fine(w, u), NEW q
    PROVE  Fine(Try(w, q), u)
  BY FineTold, ExchangeKeeps DEF Try, Fine, Sound, Kept

LEMMA FineListen ==
    ASSUME NEW w, NEW u, Fine(w, u)
    PROVE  Fine(Listen(w), u)
<1>1. Kept(Watched(w.device), u.device)
  BY WatchedKeeps, KeptThrough DEF Fine, Sound, Kept
<1> DEFINE y == w.session.heard \cup Flowing(w.device)
<1>2. ~Over(w) => Listen(w) = [w EXCEPT !.session.heard = y, !.device = Watched(w.device)]
  BY DEF Listen
<1> HIDE DEF y
<1>3. Fine([w EXCEPT !.session.heard = y, !.device = Watched(w.device)], u)
  BY <1>1 DEF Fine, Sound, Settled, SameNotes
<1> QED
  BY <1>2, <1>3 DEF Listen

LEMMA FineTake ==
    ASSUME NEW w, NEW u, Fine(w, u), NEW step, step.otherwise \in Verdicts
    PROVE  Fine(Take(w, step), u)
<1>1. ASSUME NEW x, Fine(x, u), NEW outcome PROVE Fine(Judge(x, outcome, step), u)
  BY <1>1, FineEnd DEF Judge
<1>2. Fine(Listen(w), u) /\ Fine(Timely(Try(w, Head(step.ask)), step), u)
  BY FineListen, FineTry, FineIf DEF Timely
<1> QED
  BY <1>1, <1>2 DEF Take, Replied

-----------------------------------------------------------------------------
(* Folds *)

\* A nonempty set of naturals has a least element.
LEMMA LeastOf ==
    ASSUME NEW S \in SUBSET Nat, S # {}
    PROVE  \E t \in S : \A u \in S : t <= u
<1>1. PICK m \in S : \A u \in S : <<u, m>> \notin OpToRel(<, Nat)
  BY WFMin, NatLessThanWellFounded, Zenon
<1>2. \A u \in S : ~(u < m)
  BY <1>1, Zenon DEF OpToRel
<1> QED
  BY <1>2

\* A set of numbers up to N that holds 0 and, with a number, the next holds them all.
LEMMA UpTo ==
    ASSUME NEW N \in Nat, NEW S, 0 \in S, \A n \in 1..N : n - 1 \in S => n \in S
    PROVE  \A n \in 0..N : n \in S
<1> DEFINE Bad == {n \in 0..N : n \notin S}
<1> SUFFICES ASSUME Bad # {} PROVE FALSE
  OBVIOUS
<1>1. PICK n \in Bad : \A u \in Bad : n <= u
  <2>1. Bad \in SUBSET Nat
    OBVIOUS
  <2> HIDE DEF Bad
  <2> QED
    BY <2>1, LeastOf
<1>2. n \in 1..N /\ n - 1 \in 0..N
  BY <1>1
<1> QED
  BY <1>1, <1>2

\* The worlds of a script, one step after the other.
Walk(w, steps, m, f) ==
    /\ f = [n \in 0..m |-> f[n]]
    /\ f[0] = w /\ \A n \in 1..m : f[n] = Take(f[n - 1], steps[n])

LEMMA SomeWalk ==
    ASSUME NEW N \in Nat, NEW w, NEW steps
    PROVE  \E f : Walk(w, steps, N, f)
<1> DEFINE Reach(m) == \E f : Walk(w, steps, m, f)
           R == {m \in 0..N : Reach(m)}
<1>1. 0 \in R
  <2> DEFINE f == [n \in 0..0 |-> w]
  <2>1. f = [n \in 0..0 |-> f[n]] /\ f[0] = w
    OBVIOUS
  <2> HIDE DEF f
  <2>2. Walk(w, steps, 0, f)
    BY <2>1 DEF Walk
  <2> QED
    BY <2>2
<1>2. ASSUME NEW m \in 1..N, m - 1 \in R PROVE m \in R
  <2>1. PICK f : Walk(w, steps, m - 1, f)
    BY <1>2
  <2> DEFINE g == [n \in 0..m |-> IF n = m THEN Take(f[m - 1], steps[m]) ELSE f[n]]
  <2>2. \A n \in 0..(m - 1) : g[n] = f[n]
    BY <1>2
  <2>3. g[m] = Take(f[m - 1], steps[m])
    BY <1>2
  <2>4. g = [n \in 0..m |-> g[n]]
    OBVIOUS
  <2> HIDE DEF g
  <2>5. ASSUME NEW n \in 1..m PROVE g[n] = Take(g[n - 1], steps[n])
    <3>1. CASE n = m
      BY <1>2, <2>2, <2>3, <3>1
    <3>2. CASE n # m
      <4>1. n \in 1..(m - 1) /\ n \in 0..(m - 1) /\ n - 1 \in 0..(m - 1)
        BY <1>2, <3>2
      <4>2. f[n] = Take(f[n - 1], steps[n])
        BY <2>1, <4>1 DEF Walk
      <4> QED
        BY <2>2, <4>1, <4>2
    <3> QED
      BY <3>1, <3>2
  <2>6. g[0] = w
    BY <1>2, <2>1, <2>2 DEF Walk
  <2>7. Walk(w, steps, m, g)
    BY <2>4, <2>5, <2>6 DEF Walk
  <2> QED
    BY <1>2, <2>7
<1>3. N \in R
  <2> HIDE DEF R
  <2> QED
    BY <1>1, <1>2, UpTo
<1> QED
  BY <1>3

\* Course goes from world to world.
LEMMA CourseWalks ==
    ASSUME NEW w, NEW steps, Len(steps) \in Nat
    PROVE  Walk(w, steps, Len(steps), Course(w, steps))
<1> DEFINE N == Len(steps)
           Equation(f) == f = [n \in 0..N |-> IF n = 0 THEN w ELSE Take(f[n - 1], steps[n])]
           c == CHOOSE f : Equation(f)
<1>1. PICK f : Walk(w, steps, N, f)
  BY SomeWalk
<1>2. f = [n \in 0..N |-> IF n = 0 THEN w ELSE Take(f[n - 1], steps[n])]
  BY <1>1 DEF Walk
<1>3. Equation(c)
  BY <1>2
<1>4. c = [n \in 0..N |-> IF n = 0 THEN w ELSE Take(c[n - 1], steps[n])]
  BY <1>3
<1>5. Course(w, steps) = c
  BY DEF Course
<1> HIDE DEF c
<1>6. c[0] = w /\ \A n \in 1..N : c[n] = Take(c[n - 1], steps[n])
  BY <1>4
<1>7. c = [n \in 0..N |-> c[n]]
  BY <1>4
<1> QED
  BY <1>5, <1>6, <1>7 DEF Walk

\* Steps that end with a verdict when they end.
Proper(step) == step.otherwise \in Verdicts
Steps(s) == \E T : s \in Seq(T) /\ \A q \in T : Proper(q)

LEMMA StepsProper ==
    ASSUME NEW s, Steps(s)
    PROVE  Len(s) \in Nat /\ \A n \in 1..Len(s) : Proper(s[n])
<1>1. PICK T : s \in Seq(T) /\ \A q \in T : Proper(q)
  BY DEF Steps
<1>2. Len(s) \in Nat /\ \A n \in 1..Len(s) : s[n] \in T
  BY <1>1
<1> QED
  BY <1>1, <1>2

LEMMA StepsEach ==
    ASSUME NEW s, NEW n \in Nat, s = [i \in 1..n |-> s[i]], \A i \in 1..n : Proper(s[i])
    PROVE  Steps(s) /\ Len(s) = n
<1> DEFINE T == {s[i] : i \in 1..n}
<1>1. s \in [1..n -> T]
  OBVIOUS
<1>2. \A q \in T : Proper(q)
  OBVIOUS
<1> HIDE DEF T
<1>3. s \in Seq(T)
  BY <1>1
<1>4. DOMAIN s = 1..n /\ DOMAIN s = 1..Len(s) /\ Len(s) \in Nat
  BY <1>1, <1>3
<1> QED
  BY <1>2, <1>3, <1>4 DEF Steps

LEMMA StepsAfter ==
    ASSUME NEW s, Steps(s), NEW t, Steps(t)
    PROVE  Steps(s \o t)
<1>1. PICK S : s \in Seq(S) /\ \A e \in S : Proper(e)
  BY DEF Steps
<1>2. PICK T : t \in Seq(T) /\ \A q \in T : Proper(q)
  BY DEF Steps
<1>3. s \in Seq(S \cup T) /\ t \in Seq(S \cup T)
  BY <1>1, <1>2
<1>4. s \o t \in Seq(S \cup T)
  BY <1>3
<1> QED
  BY <1>1, <1>2, <1>4 DEF Steps

\* The steps of a script that is listed.
LEMMA StepsListed ==
    /\ Steps(<<>>)
    /\ \A a : Proper(a) => Steps(<<a>>)
    /\ \A a, b : Proper(a) /\ Proper(b) => Steps(<<a, b>>)
    /\ \A a, b, c : Proper(a) /\ Proper(b) /\ Proper(c) => Steps(<<a, b, c>>)
    /\ \A a, b, c, d : Proper(a) /\ Proper(b) /\ Proper(c) /\ Proper(d) => Steps(<<a, b, c, d>>)
    /\ \A a, b, c, d, e : Proper(a) /\ Proper(b) /\ Proper(c) /\ Proper(d) /\ Proper(e)
           => Steps(<<a, b, c, d, e>>)
    /\ \A a, b, c, d, e, f, g, h : Proper(a) /\ Proper(b) /\ Proper(c) /\ Proper(d)
           /\ Proper(e) /\ Proper(f) /\ Proper(g) /\ Proper(h)
           => Steps(<<a, b, c, d, e, f, g, h>>)
<1>1. ASSUME NEW T, \A q \in T : Proper(q), NEW s \in Seq(T) PROVE Steps(s)
  BY <1>1 DEF Steps
<1>2. ASSUME NEW a, Proper(a) PROVE Steps(<<a>>)
  <2> DEFINE T == {a}
             s == <<a>>
  <2>1. s \in Seq(T) /\ \A q \in T : Proper(q)
    BY <1>2
  <2> HIDE DEF T, s
  <2>2. Steps(s)
    BY <1>1, <2>1
  <2> QED
    BY <2>2 DEF s
<1>3. ASSUME NEW a, Proper(a), NEW b, Proper(b) PROVE Steps(<<a, b>>)
  <2> DEFINE T == {a, b}
             s == <<a, b>>
  <2>1. s \in Seq(T) /\ \A q \in T : Proper(q)
    BY <1>3
  <2> HIDE DEF T, s
  <2>2. Steps(s)
    BY <1>1, <2>1
  <2> QED
    BY <2>2 DEF s
<1>4. ASSUME NEW a, Proper(a), NEW b, Proper(b), NEW c, Proper(c) PROVE Steps(<<a, b, c>>)
  <2> DEFINE T == {a, b, c}
             s == <<a, b, c>>
  <2>1. s \in Seq(T) /\ \A q \in T : Proper(q)
    BY <1>4
  <2> HIDE DEF T, s
  <2>2. Steps(s)
    BY <1>1, <2>1
  <2> QED
    BY <2>2 DEF s
<1>5. ASSUME NEW a, Proper(a), NEW b, Proper(b), NEW c, Proper(c), NEW d, Proper(d) PROVE Steps(<<a, b, c, d>>)
  <2> DEFINE T == {a, b, c, d}
             s == <<a, b, c, d>>
  <2>1. s \in Seq(T) /\ \A q \in T : Proper(q)
    BY <1>5
  <2> HIDE DEF T, s
  <2>2. Steps(s)
    BY <1>1, <2>1
  <2> QED
    BY <2>2 DEF s
<1>6. ASSUME NEW a, Proper(a), NEW b, Proper(b), NEW c, Proper(c), NEW d, Proper(d), NEW e, Proper(e) PROVE Steps(<<a, b, c, d, e>>)
  <2> DEFINE T == {a, b, c, d, e}
             s == <<a, b, c, d, e>>
  <2>1. s \in Seq(T) /\ \A q \in T : Proper(q)
    BY <1>6
  <2> HIDE DEF T, s
  <2>2. Steps(s)
    BY <1>1, <2>1
  <2> QED
    BY <2>2 DEF s
<1>7. \A a, b, c, d, e, f, g, h : Proper(a) /\ Proper(b) /\ Proper(c) /\ Proper(d)
           /\ Proper(e) /\ Proper(f) /\ Proper(g) /\ Proper(h)
           => Steps(<<a, b, c, d, e, f, g, h>>)
  <2> TAKE a, b, c, d, e, f, g, h
  <2> HAVE /\ Proper(a) /\ Proper(b) /\ Proper(c) /\ Proper(d)
           /\ Proper(e) /\ Proper(f) /\ Proper(g) /\ Proper(h)
  <2> DEFINE T == {a, b, c, d, e, f, g, h}
             s == <<a, b, c, d, e, f, g, h>>
  <2>1. s \in Seq(T) /\ \A q \in T : Proper(q)
    OBVIOUS
  <2> HIDE DEF T, s
  <2>2. Steps(s)
    BY <1>1, <2>1
  <2> QED
    BY <2>2 DEF s
<1>8. Steps(<<>>)
  <2> DEFINE T == {}
  <2>1. <<>> \in Seq(T) /\ \A q \in T : Proper(q)
    OBVIOUS
  <2> HIDE DEF T
  <2> QED
    BY <1>1, <2>1
<1>9. \A a : Proper(a) => Steps(<<a>>)
  BY <1>2
<1>10. \A a, b : Proper(a) /\ Proper(b) => Steps(<<a, b>>)
  BY <1>3
<1>11. \A a, b, c : Proper(a) /\ Proper(b) /\ Proper(c) => Steps(<<a, b, c>>)
  BY <1>4
<1>12. \A a, b, c, d : Proper(a) /\ Proper(b) /\ Proper(c) /\ Proper(d) => Steps(<<a, b, c, d>>)
  BY <1>5
<1>13. \A a, b, c, d, e : Proper(a) /\ Proper(b) /\ Proper(c) /\ Proper(d) /\ Proper(e)
           => Steps(<<a, b, c, d, e>>)
  BY <1>6
<1> QED
  BY <1>7, <1>8, <1>9, <1>10, <1>11, <1>12, <1>13

LEMMA ProperSteps ==
    ASSUME NEW q, NEW S
    PROVE  /\ Proper(May(q)) /\ Proper(Must(q)) /\ Proper(Should(q)) /\ Proper(MustNot(q))
           /\ Proper(Catch(q)) /\ Proper(Asking(q, S, "fail")) /\ Proper(Asking(q, S, "warn"))
           /\ Proper(Window(q, S, "fail")) /\ Proper(Window(q, S, "skip"))
           /\ Proper(Window(q, S, "running"))
  BY DEF Proper, May, Must, Should, MustNot, Catch, Asking, Window, Verdicts

LEMMA FineCourse ==
    ASSUME NEW w, NEW u, Fine(w, u), NEW steps, Steps(steps)
    PROVE  \A n \in 0..Len(steps) : Fine(Course(w, steps)[n], u)
<1> DEFINE N == Len(steps)
           c == Course(w, steps)
           R == {n \in 0..N : Fine(c[n], u)}
<1>1. N \in Nat /\ \A n \in 1..N : Proper(steps[n])
  BY StepsProper
<1>2. c[0] = w /\ \A n \in 1..N : c[n] = Take(c[n - 1], steps[n])
  BY <1>1, CourseWalks DEF Walk
<1> HIDE DEF c
<1>3. 0 \in R
  BY <1>1, <1>2
<1>4. ASSUME NEW n \in 1..N, n - 1 \in R PROVE n \in R
  <2>1. Fine(Take(c[n - 1], steps[n]), u)
    BY <1>1, <1>4, FineTake DEF Proper
  <2> QED
    BY <1>2, <2>1
<1>5. \A n \in 0..N : n \in R
  <2> HIDE DEF R
  <2> QED
    BY <1>1, <1>3, <1>4, UpTo
<1> QED
  BY <1>5 DEF c

LEMMA FineScript ==
    ASSUME NEW w, NEW u, Fine(w, u), NEW steps, Steps(steps)
    PROVE  Fine(Script(w, steps), u)
  BY FineCourse, StepsProper DEF Script

LEMMA FineAsk ==
    ASSUME NEW w, NEW u, Fine(w, u), NEW q, NEW S
    PROVE  /\ Fine(Ask(w, q), u) /\ Fine(Expect(w, q, S), u)
           /\ Fine(Script(w, <<Must(q)>>), u) /\ Fine(Script(w, <<Should(q)>>), u)
<1>1. /\ Proper(May(q)) /\ Proper(Asking(q, S, "fail")) /\ Proper(Must(q)) /\ Proper(Should(q))
  BY ProperSteps
<1>2. /\ Steps(<<May(q)>>) /\ Steps(<<Asking(q, S, "fail")>>) /\ Steps(<<Must(q)>>)
      /\ Steps(<<Should(q)>>)
  BY <1>1, StepsListed
<1> QED
  BY <1>2, FineScript DEF Ask, Expect

\* A step for each of n.
LEMMA StepsMay ==
    ASSUME NEW qs, NEW n \in Nat, DOMAIN qs = 1..n
    PROVE  Steps([i \in DOMAIN qs |-> May(qs[i])]) /\ Len([i \in DOMAIN qs |-> May(qs[i])]) = n
<1> DEFINE s == [i \in DOMAIN qs |-> May(qs[i])]
<1>1. s = [i \in 1..n |-> s[i]] /\ \A i \in 1..n : s[i] = May(qs[i])
  OBVIOUS
<1>2. \A i \in 1..n : Proper(s[i])
  BY <1>1, ProperSteps
<1> HIDE DEF s
<1>3. Steps(s) /\ Len(s) = n
  BY <1>1, <1>2, StepsEach
<1> QED
  BY <1>3 DEF s

LEMMA FineForgotten ==
    ASSUME NEW w, NEW u, Fine(w, u)
    PROVE  Sound(Forgotten(w), u) /\ Forgotten(w).session.installed = {}
<1>1. IsFiniteSet({})
  BY FS_EmptySet
<1> QED
  BY <1>1 DEF Forgotten, Fine, Sound, Settled, SameNotes

LEMMA FineResumed ==
    ASSUME NEW w, NEW u, Fine(w, u), NEW v \in Verdicts
    PROVE  Fine(Left(w, v, "kept"), u) /\ Fine(Resumed(w, v), u) /\ Sound(Left(w, v, "forgotten"), u)
<1>1. Fine([w EXCEPT !.verdict = v], u)
  BY FineVerdict
<1>2. Sound([Forgotten(w) EXCEPT !.verdict = v], u)
  BY FineForgotten DEF Sound
<1>3. Sound(w, u)
  BY DEF Fine
<1> QED
  BY <1>1, <1>2, <1>3 DEF Left, Resumed

\* A `finally` that keeps the notes, and one that forgets them.
LEMMA FineFinally ==
    ASSUME NEW w, NEW u, Fine(w, u), NEW qs, NEW n \in Nat, DOMAIN qs = 1..n
    PROVE  Fine(Finally(w, qs, "kept"), u) /\ Sound(Finally(w, qs, "forgotten"), u)
<1> DEFINE r == [w EXCEPT !.verdict = "running"]
           s == [i \in DOMAIN qs |-> May(qs[i])]
<1>1. Fine(r, u) /\ w.verdict \in Verdicts
  BY FineVerdict DEF Verdicts, Fine, Sound
<1>2. Steps(s)
  BY StepsMay
<1> HIDE DEF r, s
<1>3. Fine(Script(r, s), u)
  BY <1>1, <1>2, FineScript
<1> QED
  BY <1>1, <1>3, FineResumed DEF Finally, r, s

LEMMA FineReset ==
    ASSUME NEW w, NEW u, Fine(w, u), NEW q
    PROVE  Fine(Finally(w, <<q>>, "kept"), u) /\ Sound(Finally(w, <<q>>, "forgotten"), u)
<1>1. DOMAIN <<q>> = 1..1 /\ 1 \in Nat
  OBVIOUS
<1> QED
  BY <1>1, FineFinally

LEMMA FineTidied ==
    ASSUME NEW w, NEW u, Fine(w, u), NEW q
    PROVE  Fine(Tidied(w, q), u)
<1>1. Fine([w EXCEPT !.verdict = "running"], u) /\ w.verdict \in Verdicts
  BY FineVerdict DEF Verdicts, Fine, Sound
<1> QED
  BY <1>1, FineTry, FineResumed DEF Tidied

\* The notes of the checks that note anything but subscriptions.
LEMMA FineNotes ==
    ASSUME NEW w, NEW u, Fine(w, u), NEW v, Fine(v, u), NEW x, NEW y
    PROVE  /\ Fine(Noted(v, [w.session EXCEPT !.adv_data = x]), u)
           /\ Fine(Noted(v, [w.session EXCEPT !.powered = x, !.power = y]), u)
           /\ Fine(Noted(v, [w.session EXCEPT !.probe_response = x]), u)
           /\ Fine(Noted(v, [w.session EXCEPT !.probe_installed = x]), u)
           /\ Fine(Noted(v, [w.session EXCEPT !.time_sync = x]), u)
           /\ Fine(Noted(v, [w.session EXCEPT !.obd = x]), u)
           /\ Fine(Noted(v, [w.session EXCEPT !.channels = x]), u)
           /\ Fine(Noted(v, [w.session EXCEPT !.aid_caps = x]), u)
           /\ Fine(Noted(v, [w.session EXCEPT !.aid_begin = x]), u)
           /\ Fine(Noted(v, [w.session EXCEPT !.baseline = x]), u)
<1> DEFINE Still(n) == Settled(n) /\ SameNotes(n, u.session) /\ n.installed = u.session.installed
<1>1. \A n : Still(n) => Fine(Noted(v, n), u)
  BY FineNoted
<1>2. /\ Still([w.session EXCEPT !.adv_data = x])
      /\ Still([w.session EXCEPT !.powered = x, !.power = y])
      /\ Still([w.session EXCEPT !.probe_response = x])
      /\ Still([w.session EXCEPT !.probe_installed = x])
      /\ Still([w.session EXCEPT !.time_sync = x])
      /\ Still([w.session EXCEPT !.obd = x])
      /\ Still([w.session EXCEPT !.channels = x])
      /\ Still([w.session EXCEPT !.aid_caps = x])
      /\ Still([w.session EXCEPT !.aid_begin = x])
      /\ Still([w.session EXCEPT !.baseline = x])
  BY DEF Fine, Sound, Settled, SameNotes
<1> HIDE DEF Still
<1> QED
  BY <1>1, <1>2

-----------------------------------------------------------------------------
(* Before anything is asked, and the supply *)

LEMMA FineProfile ==
    ASSUME NEW w, NEW u, Fine(w, u)
    PROVE  /\ Fine(ServiceUuid(w), u) /\ Fine(ServiceData(w), u) /\ Fine(ServiceDataAgrees(w), u)
           /\ Fine(AttributeTable(w), u) /\ Fine(NoExtra(w), u) /\ Fine(InertCccd(w), u)
           /\ Fine(InertControl(w), u) /\ Fine(InfoDecodes(w), u) /\ Fine(InfoMajor(w), u)
           /\ Fine(ReservedCapabilities(w), u) /\ Fine(CapabilityImplications(w), u)
           /\ Fine(Capacities(w), u) /\ Fine(InfoRateCeiling(w), u)
<1>1. Fine(Decoded(w), u) /\ Fine(Scanned(w), u)
  BY FineIf DEF Decoded, Scanned
<1>2. Fine(ServiceUuid(w), u)
  BY <1>1, FineIf DEF ServiceUuid
<1>3. Fine(ServiceData(w), u)
  BY <1>1, FineIf, FineNotes DEF ServiceData
<1>4. Fine(ServiceDataAgrees(w), u)
  BY <1>1, FineIf DEF ServiceDataAgrees, Decoded
<1>5. Fine(AttributeTable(w), u) /\ Fine(NoExtra(w), u) /\ Fine(InfoDecodes(w), u)
  BY FineIf DEF AttributeTable, NoExtra, InfoDecodes
<1>6. Fine(InertCccd(w), u)
  BY <1>1, FineIf DEF InertCccd
<1>7. Fine(InertControl(w), u)
  BY <1>1, FineIf DEF InertControl
<1>8. Fine(InfoMajor(w), u) /\ Fine(ReservedCapabilities(w), u)
  BY <1>1, FineIf DEF InfoMajor, ReservedCapabilities
<1>9. Fine(CapabilityImplications(w), u)
  BY <1>1, FineIf DEF CapabilityImplications
<1>10. Fine(Capacities(w), u) /\ Fine(InfoRateCeiling(w), u)
  BY <1>1, FineIf DEF Capacities, InfoRateCeiling
<1> QED
  BY <1>2, <1>3, <1>4, <1>5, <1>6, <1>7, <1>8, <1>9, <1>10

LEMMA FinePower ==
    ASSUME NEW w, NEW u, Fine(w, u)
    PROVE  /\ Fine(GetPower(w), u) /\ Fine(PercentInRange(w), u) /\ Fine(SomethingValid(w), u)
           /\ Fine(PowerAbsentZero(w), u) /\ Fine(PowerReserved(w), u)
<1>1. Fine(Supplied(w), u)
  BY FineIf DEF Supplied
<1>2. Fine(GetPower(w), u)
  BY FineAsk, FineNotes DEF GetPower
<1>3. Fine(PercentInRange(w), u)
  BY <1>1, FineIf DEF PercentInRange
<1>4. Fine(SomethingValid(w), u)
  BY <1>1, FineIf DEF SomethingValid
<1>5. Fine(PowerAbsentZero(w), u) /\ Fine(PowerReserved(w), u)
  BY <1>1, FineIf DEF PowerAbsentZero, PowerReserved
<1> QED
  BY <1>2, <1>3, <1>4, <1>5

LEMMA FineProfileCheck ==
    ASSUME NEW w, NEW u, Fine(w, u), NEW id, In(id, ProfileRegistry \o PowerRegistry)
    PROVE  Fine(ProfileCheck(id, w), u)
<1>1. id \in {"adv.service_uuid", "adv.service_data", "gatt.attribute_table",
              "gatt.no_extra_characteristics", "gatt.inert_cccd", "gatt.inert_control_rejects_writes",
              "info.decodes", "info.major", "info.reserved_capabilities",
              "info.capability_implications", "info.capacities", "info.rate_ceiling",
              "adv.service_data_agrees", "power.get_power", "power.percent_in_range",
              "power.something_valid", "power.absent_fields_zero", "power.reserved"}
  BY DEF In, ProfileRegistry, PowerRegistry, Check
<1> QED
  BY <1>1, FineProfile, FinePower DEF ProfileCheck

-----------------------------------------------------------------------------
(* The envelope, the subscriptions and the rates *)

LEMMA PickedLength ==
    ASSUME NEW ops
    PROVE  Len(Picked(ops)) \in Nat /\ DOMAIN Picked(ops) = 1..Len(Picked(ops))
<1> DEFINE at == {i \in DOMAIN Opcodes : Opcodes[i] \in ops}
           n == Cardinality(at)
<1>1. n \in Nat
  <2>1. DOMAIN Opcodes = 1..15
    BY DEF Opcodes
  <2>2. IsFiniteSet(1..15)
    <3>1. 1 \in Int /\ 15 \in Int
      OBVIOUS
    <3> QED
      BY <3>1, FS_Interval, Zenon
  <2>3. IsFiniteSet(at)
    BY <2>1, <2>2, FS_Subset
  <2> QED
    BY <2>3, FS_CardinalityType
<1> HIDE DEF n
<1>2. Picked(ops) = [i \in 1..n |-> Picked(ops)[i]]
  BY DEF Picked, n
<1> DEFINE p == Picked(ops)
<1>3. p = [i \in 1..n |-> p[i]]
  BY <1>2
<1> HIDE DEF p
<1>4. DOMAIN p = 1..n /\ Len(p) = n
  BY <1>1, <1>3
<1> QED
  BY <1>1, <1>4 DEF p

LEMMA FineMalformed ==
    ASSUME NEW w, NEW u, Fine(w, u), NEW ops
    PROVE  Fine(Malformed(w, ops)[Len(Picked(ops))], u)
<1> DEFINE each == Picked(ops)
           q(i) == [Bare(each[i]) EXCEPT !.malformed = TRUE]
           s == [i \in DOMAIN each |-> Catch(q(i))]
           n == Len(each)
<1>1. n \in Nat /\ DOMAIN each = 1..n
  BY PickedLength
<1>2. s = [i \in 1..n |-> s[i]] /\ \A i \in 1..n : s[i] = Catch(q(i))
  BY <1>1
<1>3. \A i \in 1..n : Proper(s[i])
  BY <1>2, ProperSteps
<1> HIDE DEF s, n
<1>4. Steps(s) /\ Len(s) = n
  BY <1>1, <1>2, <1>3, StepsEach
<1>5. Fine(Course(w, s)[n], u)
  BY <1>1, <1>4, FineCourse
<1> QED
  BY <1>5 DEF Malformed, s, n

LEMMA FineEnvelope ==
    ASSUME NEW w, NEW u, Fine(w, u)
    PROVE  /\ Fine(UnsupportedOpcode(w), u) /\ Fine(EchoesRequest(w), u)
           /\ Fine(DetailOnlyOnOk(w), u) /\ Fine(MalformedParams(w), u)
           /\ Fine(OpcodeCapability(w), u)
<1>1. ASSUME NEW x, Fine(x, u) PROVE Fine(Remembered(x), u)
  BY <1>1, FineNotes, FineIf DEF Remembered
<1>2. Fine(UnsupportedOpcode(w), u)
  BY <1>1, FineAsk DEF UnsupportedOpcode
<1>3. Fine(EchoesRequest(w), u)
  BY FineAsk DEF EchoesRequest
<1>4. Fine(DetailOnlyOnOk(w), u)
  BY FineIf DEF DetailOnlyOnOk
<1>5. Fine(MalformedParams(w), u)
  BY FineMalformed, FineIf DEF MalformedParams
<1>6. Fine(OpcodeCapability(w), u)
  <2> DEFINE absent == Range(Opcodes) \ Owned(w)
             told == Malformed(w, absent)
             n == Len(Picked(absent))
             C == \E i \in 1..n : told[i].status # "unsupported"
             x == told[n]
  <2>1. OpcodeCapability(w) = IF absent = {} THEN End(w, "skip") ELSE FailIf(x, C)
    BY DEF OpcodeCapability
  <2>2. Fine(End(w, "skip"), u)
    BY FineEnd DEF Verdicts
  <2>3. Fine(x, u)
    BY FineMalformed
  <2> HIDE DEF absent, x, C
  <2>4. Fine(FailIf(x, C), u)
    BY <2>3, FineIf
  <2> QED
    BY <2>1, <2>2, <2>4
<1> QED
  BY <1>2, <1>3, <1>4, <1>5, <1>6

LEMMA FineBusy ==
    ASSUME NEW w, NEW u, Fine(w, u)
    PROVE  /\ Fine(BusyWhenOutstanding(w), u) /\ Fine(BusyNotApplied(w), u)
           /\ Fine(NoBusyForConformingClient(w), u) /\ Fine(NoUnprovokedBusy(w), u)
<1>1. ASSUME NEW a, NEW b, Kept(b.device, u.device) PROVE Fine(Paired(w, a, b), u)
  <2> DEFINE excluded == w.device.timing = "arrived"
             x == w.session.unprovoked \/ (b.status = "busy" /\ excluded)
             y == IF "none" \in {a.status, b.status} THEN w.session.busy_probe
                  ELSE [excluded |-> excluded, status |-> b.status]
             done == [w EXCEPT !.device = b.device, !.session.unprovoked = x,
                               !.session.busy_probe = y]
             tidy == IF "can" \in w.session.caps /\ b.status \in {"none", "ok"}
                     THEN RemoveBusyProbe(done) ELSE done
             v == Verdict(w, a.status, b, excluded)
  <2>1. Paired(w, a, b) = IF v = "running" THEN tidy ELSE End(tidy, v)
    BY DEF Paired
  <2>2. Fine(done, u)
    <3> HIDE DEF x, y
    <3> QED
      BY <1>1 DEF Fine, Sound, Settled, SameNotes
  <2>3. v \in Verdicts
    BY DEF Verdict, Verdicts
  <2> HIDE DEF done, v
  <2>4. Fine(tidy, u)
    BY <2>2, FineAsk DEF RemoveBusyProbe
  <2> HIDE DEF tidy
  <2> QED
    BY <2>1, <2>3, <2>4, FineEnd
<1>2. Fine(BusyWhenOutstanding(w), u)
  <2> DEFINE one == Exchange(w.device, Bare(NoOpcode))
             two == Second(w, one.device)
  <2>1. Kept(one.device, w.device) /\ Steady(one.device)
    BY ExchangeKeeps DEF Fine, Sound, Kept
  <2>2. Kept(two.device, one.device)
    BY <2>1, WhileOwedKeeps, ExchangeKeeps DEF Second
  <2>3. Kept(two.device, u.device)
    BY <2>1, <2>2, KeptThrough DEF Fine, Sound
  <2> HIDE DEF one, two
  <2>4. Fine(Paired(w, one, two), u)
    BY <1>1, <2>3
  <2> QED
    BY <2>4 DEF BusyWhenOutstanding, Overlapped, one, two
<1>3. Fine(BusyNotApplied(w), u)
  <2>1. ASSUME NEW x, Fine(x, u)
        PROVE  Fine(SkipIf(FailIf(x, x.status = "ok"), x.status # "unknown_subscription"), u)
    BY <2>1, FineIf
  <2> DEFINE p == w.session.busy_probe
             ready == SkipIf(w, p.status = "none" \/ p.excluded \/ p.status # "busy")
  <2>2. Fine(ready, u)
    BY FineIf
  <2> HIDE DEF ready
  <2>3. Fine(Ask(ready, Unsubscribe(BusyProbe)), u)
    BY <2>2, FineAsk
  <2> QED
    BY <2>1, <2>3 DEF BusyNotApplied, ready
<1>4. Fine(NoBusyForConformingClient(w), u)
  <2>1. ASSUME NEW op PROVE Proper(Unrefused(op))
    BY ProperSteps DEF Unrefused
  <2> DEFINE a == Script(w, <<Unrefused("TIME_SYNC")>>)
             again == Unrefused(IF a.status = "unsupported" THEN NoOpcode ELSE "TIME_SYNC")
             s == [i \in 1..(Rounds - 1) |-> again]
  <2>2. Fine(a, u)
    BY <2>1, StepsListed, FineScript
  <2>3. Proper(again)
    BY <2>1
  <2>4. Rounds - 1 \in Nat /\ s = [i \in 1..(Rounds - 1) |-> s[i]]
    BY FillAssumption
  <2>5. \A i \in 1..(Rounds - 1) : Proper(s[i])
    BY <2>3
  <2> HIDE DEF a, s
  <2>6. Steps(s)
    BY <2>4, <2>5, StepsEach
  <2>7. Fine(Script(a, s), u)
    BY <2>2, <2>6, FineScript
  <2> QED
    BY <2>7 DEF NoBusyForConformingClient, a, s
<1>5. Fine(NoUnprovokedBusy(w), u)
  BY FineIf DEF NoUnprovokedBusy
<1> QED
  BY <1>2, <1>3, <1>4, <1>5

LEMMA FineIdentity ==
    ASSUME NEW w, NEW u, Fine(w, u)
    PROVE  /\ Fine(UnknownSubscription(w), u) /\ Fine(TransmissionBitsIgnored(w), u)
           /\ Fine(UnknownModeRefused(w), u)
<1>1. Fine(UnknownSubscription(w), u)
  BY FineAsk DEF UnknownSubscription
<1>2. Fine(TransmissionBitsIgnored(w), u)
  <2> DEFINE k == Exact(Identity)
             s == <<Must(Decorated(Subscribe(k))), Must(Unsubscribe(k)),
                    Should(Subscribe(k)), Must(Decorated(Unsubscribe(k)))>>
  <2>1. Steps(s)
    BY ProperSteps, StepsListed
  <2> HIDE DEF s
  <2>2. Fine(Script(w, s), u)
    BY <2>1, FineScript
  <2> QED
    BY <2>2, FineReset DEF TransmissionBitsIgnored, s
<1>3. Fine(UnknownModeRefused(w), u)
  <2>1. ASSUME NEW x, Fine(x, u), NEW k PROVE Fine(Refusing(x, k), u) /\ Fine(Unknowing(x, k), u)
    BY <2>1, FineAsk, FineIf DEF Refusing, Unknowing
  <2> DEFINE k(i) == Exact(<<"mode", i>>)
             asked(x, i) == Refusing(Ask(x, [Subscribe(k(i)) EXCEPT !.mode = "unknown"]), k(i))
             step(x, i) == IF Over(x) THEN x
                           ELSE Unknowing(Ask(asked(x, i), Unsubscribe(k(i))), k(i))
  <2>2. ASSUME NEW x, Fine(x, u), NEW i PROVE Fine(step(x, i), u)
    <3>1. Fine(asked(x, i), u)
      BY <2>1, <2>2, FineAsk
    <3> HIDE DEF asked
    <3>2. Fine(Unknowing(Ask(asked(x, i), Unsubscribe(k(i))), k(i)), u)
      BY <2>1, <3>1, FineAsk
    <3> QED
      BY <2>2, <3>2
  <2>3. UnknownModeRefused(w) = step(step(step(w, 1), 2), 3)
    BY DEF UnknownModeRefused
  <2> HIDE DEF step
  <2> QED
    BY <2>2, <2>3
<1> QED
  BY <1>1, <1>2, <1>3

\* The steps that fill a table, and those of the pair that fills what is left of it.
LEMMA StepsRefill ==
    ASSUME NEW n \in Nat, NEW name
    PROVE  Steps(Refill(n, name)) /\ Len(Refill(n, name)) = n
<1> DEFINE s == Refill(n, name)
<1>1. s = [i \in 1..n |-> s[i]] /\ \A i \in 1..n : s[i] = Should(Subscribe(Exact(<<name, i>>)))
  BY DEF Refill
<1>2. \A i \in 1..n : Proper(s[i])
  BY <1>1, ProperSteps
<1> HIDE DEF s
<1>3. Steps(s) /\ Len(s) = n
  BY <1>1, <1>2, StepsEach
<1> QED
  BY <1>3 DEF s

LEMMA FinePair ==
    ASSUME NEW w, NEW u, Fine(w, u)
    PROVE  Fine(IdentityIsThePair(w), u)
<1> DEFINE grouped(id) == [id |-> id, mask |-> "group"]
           n == w.session.capacity.can
           pair == <<Should(Subscribe(grouped(Identity))), Must(Subscribe(grouped(Sibling)))>>
           last == <<MustNot(Subscribe(Exact(<<"rest", n>>)))>>
           more == IF n > FillLimit THEN <<>> ELSE Refill(n - 2, "rest") \o last
           a == Ask(Script(w, pair \o more), Unsubscribe(grouped(Identity)))
<1>1. n \in Nat
  BY DEF Fine, Sound, Settled
<1>2. CASE n < 2
  BY <1>2, FineEnd DEF IdentityIsThePair, Verdicts
<1>3. CASE ~(n < 2)
  <2>1. Steps(pair) /\ Steps(last) /\ Steps(<<>>)
    <3>1. Steps(pair)
      BY ProperSteps, StepsListed
    <3>2. Steps(last)
      BY ProperSteps, StepsListed
    <3> QED
      BY <3>1, <3>2, StepsListed
  <2>2. n - 2 \in Nat
    BY <1>1, <1>3
  <2>3. Steps(Refill(n - 2, "rest"))
    BY <2>2, StepsRefill
  <2> HIDE DEF pair, last
  <2>4. Steps(more)
    BY <2>1, <2>3, StepsAfter
  <2> HIDE DEF more
  <2>5. Steps(pair \o more)
    BY <2>1, <2>4, StepsAfter
  <2>6. Fine(a, u)
    BY <2>5, FineScript, FineAsk
  <2> HIDE DEF a
  <2>7. Fine(Removed(a, Unsubscribe(grouped(Sibling))), u)
    BY <2>6, FineAsk, FineIf DEF Removed, BothGone
  <2>8. IdentityIsThePair(w) = Finally(Removed(a, Unsubscribe(grouped(Sibling))), <<Reset>>, "kept")
    BY <1>3 DEF IdentityIsThePair, a, more, last, pair
  <2> QED
    BY <2>7, <2>8, FineReset
<1> QED
  BY <1>2, <1>3

LEMMA FineRates ==
    ASSUME NEW w, NEW u, Fine(w, u)
    PROVE  /\ Fine(RateCeiling(w), u) /\ Fine(RateReadback(w), u)
           /\ Fine(TimeSync(w), u) /\ Fine(TimeSyncOffset(w), u)
<1> DEFINE Going(x) == "w" \in DOMAIN x /\ Fine(x.w, u)
<1>1. Going(Untried(w))
  BY DEF Untried
<1>2. ASSUME NEW x, Going(x) PROVE Fine(RatesTried(w, x), u)
  BY <1>2, FineIf, FineEnd DEF RatesTried, Verdicts
<1>3. ASSUME NEW x, Going(x), NEW op, NEW was, NEW a, Fine(a, u)
      PROVE  Going(PastCeiling(x, op, was, a))
  BY <1>3, FineAsk DEF PastCeiling
<1>4. ASSUME NEW x, Going(x), NEW op, NEW was, NEW top, NEW a, Fine(a, u)
      PROVE  Going(AtCeiling(x, op, was, top, a))
  <2>1. Going([x EXCEPT !.w = a]) /\ Going([x EXCEPT !.w = a, !.bad = TRUE])
    BY <1>4
  <2>2. ASSUME NEW b, NEW c PROVE Going([w |-> Ask(a, SetRate(op, was)), bad |-> b, tried |-> c])
    BY <1>4, FineAsk
  <2> HIDE DEF Going
  <2> QED
    BY <2>1, <2>2 DEF AtCeiling
<1>5. Fine(RateCeiling(w), u)
  <2> DEFINE top(op) == w.session.capacity[Owner[op]]
             was(op) == w.session.rate[Owner[op]]
             step(x, op) == IF op \notin Rated(w) \/ top(op) >= RateTop THEN x
                            ELSE PastCeiling(x, op, was(op), Ask(x.w, SetRate(op, top(op) + 1)))
  <2>1. ASSUME NEW x, Going(x), NEW op PROVE Going(step(x, op))
    <3>1. Fine(Ask(x.w, SetRate(op, top(op) + 1)), u)
      BY <2>1, FineAsk
    <3> HIDE DEF Going
    <3> QED
      BY <1>3, <2>1, <3>1
  <2>2. RateCeiling(w) = RatesTried(w, step(step(Untried(w), "GPS_SET_RATE"), "IMU_SET_RATE"))
    BY DEF RateCeiling
  <2> HIDE DEF step, Going
  <2> QED
    BY <1>1, <1>2, <2>1, <2>2
<1>6. Fine(RateReadback(w), u)
  <2> DEFINE top(op) == w.session.capacity[Owner[op]]
             was(op) == w.session.rate[Owner[op]]
             step(x, op) == IF op \notin Rated(w) \/ top(op) \in {was(op), 0} THEN x
                            ELSE AtCeiling(x, op, was(op), top(op), Ask(x.w, SetRate(op, top(op))))
  <2>1. ASSUME NEW x, Going(x), NEW op PROVE Going(step(x, op))
    <3>1. Fine(Ask(x.w, SetRate(op, top(op))), u)
      BY <2>1, FineAsk
    <3> HIDE DEF Going
    <3> QED
      BY <1>4, <2>1, <3>1
  <2>2. RateReadback(w) = RatesTried(w, step(step(Untried(w), "GPS_SET_RATE"), "IMU_SET_RATE"))
    BY DEF RateReadback
  <2> HIDE DEF step, Going
  <2> QED
    BY <1>1, <1>2, <2>1, <2>2
<1>7. Fine(TimeSync(w), u)
  <2> DEFINE first == Asking(Bare("TIME_SYNC"), {"ok"} \cup (Refusals \ {"unsupported"}), "fail")
             rest == [i \in 1..6 |-> Must(Bare("TIME_SYNC"))]
  <2>1. Steps(<<first>>)
    BY ProperSteps, StepsListed
  <2>2. rest = [i \in 1..6 |-> rest[i]] /\ \A i \in 1..6 : Proper(rest[i])
    BY ProperSteps
  <2> HIDE DEF first, rest
  <2>3. Steps(rest)
    BY <2>2, StepsEach
  <2>4. Fine(Script(w, <<first>> \o rest), u)
    BY <2>1, <2>3, StepsAfter, FineScript
  <2>5. ASSUME NEW x, Fine(x, u) PROVE Fine(Synced(x), u)
    BY <2>5, FineNotes, FineIf DEF Synced
  <2> QED
    BY <2>4, <2>5 DEF TimeSync, first, rest
<1>8. Fine(TimeSyncOffset(w), u)
  BY FineIf DEF TimeSyncOffset
<1> QED
  BY <1>5, <1>6, <1>7, <1>8

-----------------------------------------------------------------------------
(* The transmitter *)

LEMMA FineHeard ==
    ASSUME NEW w, NEW u, Fine(w, u), NEW q, NEW n
    PROVE  /\ Fine(Asked(w, q), u) /\ Fine(Hushed(w), u) /\ Fine(Answered(w), u)
           /\ Fine(Usable(w, n), u)
<1>1. Fine(Script(w, <<Must(q)>>), u)
  BY FineAsk
<1>2. Fine(Asked(w, q), u)
  BY <1>1, FineListen DEF Asked
<1>3. Fine(Hushed(w), u) /\ Fine(Answered(w), u)
  BY FineIf DEF Hushed, Answered
<1>4. Fine(Usable(w, n), u)
  BY <1>3, FineIf DEF Usable
<1> QED
  BY <1>2, <1>3, <1>4

LEMMA FineRecord ==
    ASSUME NEW w, NEW u, Fine(w, u)
    PROVE  /\ Fine(PollBeforeProbe(w), u) /\ Fine(ProbeAnswered(w), u) /\ Fine(CountAgrees(w), u)
           /\ Fine(EntriesAscending(w), u) /\ Fine(ProbeAbsentZero(w), u)
           /\ Fine(ProbeReserved(w), u) /\ Fine(ObdCapacities(w), u)
<1>1. Fine(Answered(w), u)
  BY FineHeard
<1>2. Fine(PollBeforeProbe(w), u)
  BY FineAsk DEF PollBeforeProbe
<1>3. ASSUME NEW a, Fine(a, u) PROVE Fine(ProbeTaken(a), u)
  BY <1>3, FineNotes, FineIf DEF ProbeTaken
<1>4. Fine(ProbeAnswered(w), u)
  BY <1>3, FineAsk DEF ProbeAnswered
<1>5. Fine(CountAgrees(w), u)
  BY <1>1, FineIf DEF CountAgrees
<1>6. Fine(EntriesAscending(w), u)
  BY <1>1, FineIf DEF EntriesAscending
<1>7. Fine(ProbeAbsentZero(w), u) /\ Fine(ProbeReserved(w), u)
  BY <1>1, FineIf DEF ProbeAbsentZero, ProbeReserved
<1>8. Fine(ObdCapacities(w), u)
  BY FineIf DEF ObdCapacities
<1> QED
  BY <1>2, <1>4, <1>5, <1>6, <1>7, <1>8

\* Trials are a course as long as their list.
LEMMA FineTrials ==
    ASSUME NEW w, NEW u, Fine(w, u), NEW trials, NEW n \in Nat, DOMAIN trials = 1..n,
           Len(trials) = n
    PROVE  Fine(Trials(w, trials).w, u)
<1> DEFINE s == [i \in DOMAIN trials |-> May(trials[i][1])]
<1>1. s = [i \in 1..n |-> s[i]] /\ \A i \in 1..n : s[i] = May(trials[i][1])
  OBVIOUS
<1>2. \A i \in 1..n : Proper(s[i])
  BY <1>1, ProperSteps
<1> HIDE DEF s
<1>3. Steps(s) /\ Len(s) = n
  BY <1>1, <1>2, StepsEach
<1>4. Fine(Course(w, s)[n], u)
  BY <1>3, FineCourse
<1> QED
  BY <1>4 DEF Trials, s

LEMMA FineRefusals ==
    ASSUME NEW w, NEW u, Fine(w, u)
    PROVE  Fine(PollRefusals(w), u) /\ Fine(GroupingRefusals(w), u)
<1>1. ASSUME NEW x, Fine(x.w, u) PROVE Fine(Passing(x), u) /\ Fine(FailIf(Ask(x.w, Stop), x.bad), u)
  BY <1>1, FineIf, FineAsk DEF Passing
<1>2. ASSUME NEW A, NEW t \in Seq(A), NEW v, Fine(v, u) PROVE Fine(Trials(v, t).w, u)
  <2>1. Len(t) \in Nat /\ DOMAIN t = 1..Len(t)
    BY <1>2
  <2> QED
    BY <1>2, <2>1, FineTrials
<1> DEFINE p == w.session.obd
           n == w.session.capacity.obd
<1>3. Fine(Answered(w), u) /\ Fine(Usable(w, 2), u)
  BY FineHeard
<1>4. Fine(PollRefusals(w), u)
  <2> DEFINE a == <<Singles(<<IF p.responded THEN 0 ELSE 1>>), "bad_params">>
             b == <<Singles(<<0>>), "bad_params">>
             c == <<PollSet(0, <<Single(1)>>), "ok">>
             d == <<Singles([i \in 1..(n + 1) |-> 1]), "table_full">>
             e == <<PollSet(Pace, <<>>), "bad_params">>
             f == <<Stop, "ok">>
             maybe == IF p.responded /\ p.pids > 0 THEN <<c>> ELSE <<>>
             t == <<a, b>> \o maybe \o <<d, e, f>>
  <2>1. PollRefusals(w) = Passing(Trials(Answered(w), t))
    BY DEF PollRefusals
  <2> HIDE DEF a, b, c, d, e, f
  <2> DEFINE T == {a, b, c, d, e, f}
             last == <<d, e, f>>
             first == <<a, b>>
  <2>2. first \in Seq(T) /\ last \in Seq(T)
    OBVIOUS
  <2>3. maybe \in Seq(T)
    <3>1. <<c>> \in Seq(T) /\ <<>> \in Seq(T)
      OBVIOUS
    <3> HIDE DEF T
    <3> QED
      BY <3>1, Zenon
  <2> HIDE DEF T, first, last, maybe
  <2>4. first \o maybe \o last \in Seq(T)
    BY <2>2, <2>3
  <2>5. t \in Seq(T)
    BY <2>4 DEF first, last
  <2> HIDE DEF t
  <2> QED
    BY <1>1, <1>2, <1>3, <2>1, <2>5
<1>5. Fine(GroupingRefusals(w), u)
  <2> DEFINE fits(k) == p.pids >= k /\ w.session.capacity.obd >= k
             a == <<Broken(Group(<<1, 2>>)), "bad_params">>
             b == <<Group(Count(7)), "bad_params">>
             c == <<Group(Count(6)), "ok">>
             d == <<OnePid, "ok">>
             e == <<Broken(OnePid), "bad_params">>
             f == <<Group(<<0, 1>>), "bad_params">>
             seven == IF fits(7) THEN <<b>> ELSE <<>>
             six == IF fits(6) THEN <<c>> ELSE <<>>
             t == <<a>> \o seven \o six \o <<d, e, f>>
             x == Trials(Usable(w, 2), t)
  <2>1. GroupingRefusals(w) = FailIf(Ask(x.w, Stop), x.bad)
    BY DEF GroupingRefusals
  <2> HIDE DEF a, b, c, d, e, f
  <2> DEFINE T == {a, b, c, d, e, f}
             last == <<d, e, f>>
             first == <<a>>
  <2>2. first \in Seq(T) /\ last \in Seq(T)
    OBVIOUS
  <2>3. seven \in Seq(T)
    <3>1. <<b>> \in Seq(T) /\ <<>> \in Seq(T)
      OBVIOUS
    <3> HIDE DEF T
    <3> QED
      BY <3>1, Zenon
  <2>4. six \in Seq(T)
    <3>1. <<c>> \in Seq(T) /\ <<>> \in Seq(T)
      OBVIOUS
    <3> HIDE DEF T
    <3> QED
      BY <3>1, Zenon
  <2> HIDE DEF T, first, last, seven, six
  <2>5. first \o seven \o six \o last \in Seq(T)
    BY <2>2, <2>3, <2>4
  <2>6. t \in Seq(T)
    BY <2>5 DEF first, last
  <2> HIDE DEF t
  <2>7. Fine(x.w, u)
    BY <1>2, <1>3, <2>6
  <2> HIDE DEF x
  <2> QED
    BY <1>1, <2>1, <2>7
<1> QED
  BY <1>4, <1>5

\* The record of a probe names its ECUs in a list.
LEMMA RecordListed ==
    ASSUME NEW d, Steady(d)
    PROVE  \E n \in Nat : DOMAIN ProbeRecord(d).ecus = 1..n
<1> DEFINE n == IF d.car.ecus > EcuCap THEN EcuCap ELSE d.car.ecus
           all == [i \in Reported(d) |-> i]
           some == [taken |-> TRUE, responded |-> d.car.ecus > 0, truncated |-> d.car.ecus > EcuCap,
                    ecus |-> all, pids |-> IF d.car.ecus > 0 THEN d.car.pids ELSE 0,
                    stale |-> FALSE, reserved |-> 0]
<1>1. n \in Nat /\ all = [i \in 1..n |-> i]
  BY DEF Steady, EcuCap, Reported
<1> HIDE DEF n, all
<1>2. all \in Seq(Nat) /\ Len(all) = n /\ DOMAIN all = 1..n
  <2>1. all \in Seq(Nat) /\ DOMAIN all = 1..n
    BY <1>1
  <2>2. DOMAIN all = 1..Len(all) /\ Len(all) \in Nat
    BY <2>1
  <2> QED
    BY <1>1, <2>1, <2>2
<1>3. DOMAIN Reverse(all) = 1..n
  BY <1>2 DEF Reverse
<1>4. DOMAIN <<>> = 1..0
  OBVIOUS
<1>5. /\ some.ecus = all
      /\ [some EXCEPT !.ecus = <<>>].ecus = <<>>
      /\ [some EXCEPT !.ecus = Reverse(some.ecus)].ecus = Reverse(all)
      /\ [some EXCEPT !.truncated = TRUE].ecus = all
      /\ [some EXCEPT !.responded = FALSE, !.ecus = <<>>, !.stale = TRUE].ecus = <<>>
      /\ [some EXCEPT !.reserved = 1].ecus = all
  OBVIOUS
<1> DEFINE s == some
<1>6. ProbeRecord(d) \in
        {s, [s EXCEPT !.ecus = <<>>], [s EXCEPT !.ecus = Reverse(s.ecus)],
         [s EXCEPT !.truncated = TRUE], [s EXCEPT !.responded = FALSE, !.ecus = <<>>, !.stale = TRUE],
         [s EXCEPT !.reserved = 1]}
  BY DEF ProbeRecord, all
<1> HIDE DEF some, s
<1>7. ProbeRecord(d).ecus \in {all, <<>>, Reverse(all)}
  BY <1>5, <1>6 DEF s
<1> QED
  BY <1>1, <1>2, <1>3, <1>4, <1>7

LEMMA FineDiagnosed ==
    ASSUME NEW w, NEW u, Fine(w, u)
    PROVE  Fine(Diagnosed(w), u)
<1>1. ASSUME NEW a, Fine(a, u), NEW fresh PROVE Fine(Withheld(a, fresh), u)
  BY <1>1, FineIf DEF Withheld
<1>2. ASSUME NEW a, Fine(a, u), NEW fresh, NEW n \in Nat, DOMAIN fresh.ecus = 1..n
      PROVE  Fine(Rechecked(a, fresh), u)
  <2> DEFINE named == [i \in DOMAIN fresh.ecus |-> Must(Subscribe(Exact(Ecu(fresh.ecus[i]))))]
             alive == SkipIf(a, ~fresh.responded \/ fresh.pids = 0)
  <2>1. Fine(alive, u)
    BY <1>2, FineIf
  <2>2. named = [i \in 1..n |-> named[i]]
    BY <1>2
  <2>3. \A i \in 1..n : Proper(named[i])
    BY <1>2, ProperSteps
  <2> HIDE DEF named, alive
  <2>4. Steps(named)
    BY <2>2, <2>3, StepsEach
  <2>5. Fine(Asked(Script(alive, named), OnePid), u)
    BY <2>1, <2>4, FineScript, FineHeard
  <2> QED
    BY <1>1, <2>5 DEF Rechecked, named, alive
<1> DEFINE a == Expect(w, Bare("OBD_INFO"), {"ok"})
<1>3. Fine(a, u)
  BY FineAsk
<1> HIDE DEF a
<1>4. \E n \in Nat : DOMAIN ProbeRecord(a.device).ecus = 1..n
  BY <1>3, RecordListed DEF Fine, Sound, Kept
<1>5. Fine(Rechecked(a, ProbeRecord(a.device)), u)
  BY <1>2, <1>3, <1>4
<1> QED
  BY <1>5 DEF Diagnosed, a

LEMMA FinePolls ==
    ASSUME NEW w, NEW u, Fine(w, u)
    PROVE  Fine(PollAndFlag(w), u) /\ Fine(ResetStops(w), u)
<1>1. ASSUME NEW a, Fine(a, u) PROVE Fine(Flagged(a), u)
  BY <1>1, FineIf DEF Flagged
<1>2. ASSUME NEW a, Fine(a, u) PROVE Fine(Flowed(a), u)
  <2>1. Fine(Asked(Flagged(a), Stop), u)
    BY <1>1, <1>2, FineHeard
  <2>2. Fine(Hushed(Asked(Flagged(a), Stop)), u)
    BY <2>1, FineHeard
  <2>3. Fine(Diagnosed(a), u)
    BY <1>2, FineDiagnosed
  <2> QED
    BY <2>2, <2>3 DEF Flowed
<1>3. Fine(PollAndFlag(w), u)
  <2> DEFINE ready == Expect(Usable(w, 1), Reset, {"ok"})
  <2>1. Fine(ready, u)
    BY FineHeard, FineAsk
  <2> HIDE DEF ready
  <2>2. Fine(Asked(ready, OnePid), u)
    BY <2>1, FineHeard
  <2>3. Fine(Tidied(Flowed(Asked(ready, OnePid)), Reset), u)
    BY <1>2, <2>2, FineTidied
  <2> QED
    BY <2>1, <2>3 DEF PollAndFlag, ready
<1>4. Fine(ResetStops(w), u)
  <2> DEFINE ready == Usable(w, 1)
  <2>1. Fine(ready, u)
    BY FineHeard
  <2> HIDE DEF ready
  <2>2. Fine(Asked(ready, OnePid), u)
    BY <2>1, FineHeard
  <2>3. Fine(Asked(Asked(ready, OnePid), Reset), u)
    BY <2>2, FineHeard
  <2>4. Fine(Hushed(Asked(Asked(ready, OnePid), Reset)), u)
    BY <2>3, FineHeard
  <2>5. Fine(Tidied(Hushed(Asked(Asked(ready, OnePid), Reset)), Stop), u)
    BY <2>4, FineTidied
  <2> QED
    BY <2>1, <2>5 DEF ResetStops, ready
<1> QED
  BY <1>3, <1>4

LEMMA FineStatus ==
    ASSUME NEW w, NEW u, Fine(w, u)
    PROVE  Fine(ObdStatus(w), u)
<1>1. ASSUME NEW a, Fine(a, u), NEW installed PROVE Fine(StatusAsked(a, installed), u)
  <2> DEFINE b == Expect(a, Bare("OBD_STATUS"), {"ok"})
  <2>1. Fine(b, u)
    BY <1>1, FineAsk
  <2> HIDE DEF b
  <2>2. Fine(Consistent(b, Status(b.device), installed), u)
    BY <2>1, FineIf DEF Consistent
  <2> QED
    BY <2>2 DEF StatusAsked, b
<1>2. ASSUME NEW a, Fine(a, u) PROVE Fine(Awake(a), u)
  BY <1>2, FineIf DEF Awake
<1> DEFINE idle == StatusAsked(Expect(w, Stop, {"ok"}), FALSE)
           b == StatusAsked(Asked(idle, OnePid), TRUE)
<1>3. Fine(idle, u)
  BY <1>1, FineAsk
<1> HIDE DEF idle
<1>4. Fine(b, u)
  BY <1>1, <1>3, FineHeard
<1> HIDE DEF b
<1>5. Fine(Tidied(Awake(b), Stop), u)
  BY <1>2, <1>4, FineTidied
<1>6. Fine(StatusAsked(Tidied(Awake(b), Stop), FALSE), u)
  BY <1>1, <1>5
<1> QED
  BY <1>3, <1>6 DEF ObdStatus, idle, b

LEMMA FineGroups ==
    ASSUME NEW w, NEW u, Fine(w, u)
    PROVE  Fine(GroupingIsOneRequest(w), u) /\ Fine(GroupMinimumHonoured(w), u)
<1> DEFINE ready == Expect(Usable(w, 2), Reset, {"ok"})
<1>1. Fine(ready, u)
  BY FineHeard, FineAsk
<1> HIDE DEF ready
<1>2. ASSUME NEW a, Fine(a, u) PROVE Fine(Apportioned(a), u)
  <2> DEFINE skipped == SkipIf(a, Heard(a, a.session.obd) = {})
             b == Asked(skipped, Singles(<<1, 2>>))
  <2>1. Fine(skipped, u)
    BY <1>2, FineIf
  <2> HIDE DEF skipped
  <2>2. Fine(b, u)
    BY <2>1, FineHeard
  <2> HIDE DEF b
  <2>3. ASSUME NEW n PROVE Fine(Compared(n, b), u)
    BY <2>2, FineIf DEF Compared
  <2> QED
    BY <2>3 DEF Apportioned, skipped, b
<1>3. Fine(GroupingIsOneRequest(w), u)
  <2> DEFINE b == Apportioned(Asked(ready, Group(<<1, 2>>)))
  <2>1. Fine(b, u)
    BY <1>1, <1>2, FineHeard
  <2> HIDE DEF b
  <2>2. Fine(Finally(b, <<Stop>>, "kept"), u)
    BY <2>1, FineReset
  <2> QED
    BY <1>1, <2>2 DEF GroupingIsOneRequest, ready, b
<1>4. ASSUME NEW a, Fine(a, u) PROVE Fine(Spaced(a), u)
  BY <1>4, FineIf DEF Spaced
<1>5. Fine(GroupMinimumHonoured(w), u)
  <2> DEFINE mixed == PollSet(0, <<Single(1), [pids |-> <<2>>, min |-> 500]>>)
             a == Asked(ready, mixed)
             b == SkipIf(a, Heard(a, a.session.obd) = {})
  <2>1. Fine(a, u)
    BY <1>1, FineHeard
  <2> HIDE DEF a
  <2>2. Fine(b, u)
    BY <2>1, FineIf
  <2> HIDE DEF b
  <2>3. Fine(Finally(Spaced(b), <<Stop>>, "kept"), u)
    BY <1>4, <2>2, FineReset
  <2> QED
    BY <1>1, <2>3 DEF GroupMinimumHonoured, ready, a, b
<1> QED
  BY <1>3, <1>5

LEMMA FineObdCheck ==
    ASSUME NEW w, NEW u, Fine(w, u), NEW id, In(id, ObdRegistry)
    PROVE  Fine(ObdCheck(id, w), u)
<1>1. id \in {"obd.poll_before_probe", "obd.probe", "obd.count_agrees", "obd.entries_ascending",
              "obd.absent_fields_zero", "obd.reserved", "obd.capacities", "obd.poll_refusals",
              "obd.poll_and_flag", "obd.reset_stops", "obd.status", "obd.grouping_refusals",
              "obd.grouping_is_one_request", "obd.group_minimum_is_honoured"}
  BY DEF In, ObdRegistry, Check
<1> QED
  BY <1>1, FineRecord, FineRefusals, FinePolls, FineStatus, FineGroups DEF ObdCheck

-----------------------------------------------------------------------------
(* Monitor values and aiding *)

\* The device after the first m of the chunks.
Fed(d, token, indices, foreign, m, f) ==
    /\ f = [n \in 0..m |-> f[n]]
    /\ f[0] = d /\ \A n \in 1..m : f[n] = Chunk(f[n - 1], token, indices[n], foreign)

LEMMA SomeFed ==
    ASSUME NEW N \in Nat, NEW d, NEW token, NEW indices, NEW foreign
    PROVE  \E f : Fed(d, token, indices, foreign, N, f)
<1> DEFINE Step(x, n) == Chunk(x, token, indices[n], foreign)
           Reach(m) == \E f : Fed(d, token, indices, foreign, m, f)
           R == {m \in 0..N : Reach(m)}
<1>1. 0 \in R
  <2> DEFINE f == [n \in 0..0 |-> d]
  <2>1. f = [n \in 0..0 |-> f[n]] /\ f[0] = d
    OBVIOUS
  <2> HIDE DEF f
  <2>2. Fed(d, token, indices, foreign, 0, f)
    BY <2>1 DEF Fed
  <2> QED
    BY <2>2
<1>2. ASSUME NEW m \in 1..N, m - 1 \in R PROVE m \in R
  <2>1. PICK f : Fed(d, token, indices, foreign, m - 1, f)
    BY <1>2
  <2> DEFINE g == [n \in 0..m |-> IF n = m THEN Step(f[m - 1], m) ELSE f[n]]
  <2>2. \A n \in 0..(m - 1) : g[n] = f[n]
    BY <1>2
  <2>3. g[m] = Step(f[m - 1], m)
    BY <1>2
  <2>4. g = [n \in 0..m |-> g[n]]
    OBVIOUS
  <2> HIDE DEF g
  <2>5. ASSUME NEW n \in 1..m PROVE g[n] = Step(g[n - 1], n)
    <3>1. CASE n = m
      BY <1>2, <2>2, <2>3, <3>1
    <3>2. CASE n # m
      <4>1. n \in 1..(m - 1) /\ n \in 0..(m - 1) /\ n - 1 \in 0..(m - 1)
        BY <1>2, <3>2
      <4>2. f[n] = Step(f[n - 1], n)
        BY <2>1, <4>1 DEF Fed
      <4> QED
        BY <2>2, <4>1, <4>2
    <3> QED
      BY <3>1, <3>2
  <2>6. g[0] = d
    BY <1>2, <2>1, <2>2 DEF Fed
  <2>7. Fed(d, token, indices, foreign, m, g)
    BY <2>4, <2>5, <2>6 DEF Fed
  <2> QED
    BY <1>2, <2>7
<1>3. N \in R
  <2> HIDE DEF R
  <2> QED
    BY <1>1, <1>2, UpTo
<1> QED
  BY <1>3

LEMMA ReceivedKeeps ==
    ASSUME NEW d, Steady(d), NEW token, NEW indices, NEW foreign, Len(indices) \in Nat
    PROVE  Kept(Received(d, token, indices, foreign), d)
<1> DEFINE N == Len(indices)
           Equation(f) == f = [n \in 0..N |-> IF n = 0 THEN d
                                              ELSE Chunk(f[n - 1], token, indices[n], foreign)]
           c == CHOOSE f : Equation(f)
           R == {n \in 0..N : Kept(c[n], d)}
<1>1. PICK f : Fed(d, token, indices, foreign, N, f)
  BY SomeFed
<1>2. f = [n \in 0..N |-> IF n = 0 THEN d ELSE Chunk(f[n - 1], token, indices[n], foreign)]
  BY <1>1 DEF Fed
<1>3. Equation(c)
  BY <1>2
<1>4. Received(d, token, indices, foreign) = c[N]
  BY DEF Received
<1>5. c = [n \in 0..N |-> IF n = 0 THEN d ELSE Chunk(c[n - 1], token, indices[n], foreign)]
  BY <1>3
<1> HIDE DEF c
<1>6. c[0] = d /\ \A n \in 1..N : c[n] = Chunk(c[n - 1], token, indices[n], foreign)
  BY <1>5
<1>7. 0 \in R
  BY <1>6, KeptItself
<1>8. ASSUME NEW n \in 1..N, n - 1 \in R PROVE n \in R
  <2>1. Kept(c[n - 1], d) /\ Steady(c[n - 1])
    BY <1>8 DEF Kept
  <2>2. Kept(Chunk(c[n - 1], token, indices[n], foreign), c[n - 1])
    BY <2>1, ChunkKeeps
  <2>3. Kept(c[n], d)
    BY <1>6, <2>1, <2>2, KeptThrough
  <2> QED
    BY <2>3
<1>9. \A n \in 0..N : n \in R
  <2> HIDE DEF R
  <2> QED
    BY <1>7, <1>8, UpTo
<1> QED
  BY <1>4, <1>9

LEMMA FineSent ==
    ASSUME NEW w, NEW u, Fine(w, u), NEW token, NEW indices, NEW foreign, Len(indices) \in Nat
    PROVE  Fine(Sent(w, token, indices, foreign), u)
<1> DEFINE r == Received(w.device, token, indices, foreign)
<1>1. Kept(r, u.device)
  BY ReceivedKeeps, KeptThrough DEF Fine, Sound, Kept
<1> HIDE DEF r
<1>2. Fine([w EXCEPT !.device = r], u)
  BY <1>1 DEF Fine, Sound
<1> QED
  BY <1>2 DEF Sent, r

LEMMA FineMonitor ==
    ASSUME NEW w, NEW u, Fine(w, u)
    PROVE  /\ Fine(MonitorDeclaration(w), u) /\ Fine(AcceptsCompleteWrite(w), u)
           /\ Fine(AbsentIsAState(w), u) /\ Fine(RejectsIncomplete(w), u)
           /\ Fine(RejectsBadLength(w), u) /\ Fine(RejectsDuplicateSlot(w), u)
           /\ Fine(IgnoresUnknownSlot(w), u)
<1>1. ASSUME NEW a, Fine(a, u) PROVE Fine(MonitorListed(a), u)
  <2> DEFINE b == FailIf(a, \/ a.device.channels = 0
                            \/ Has(a.device, "list_reserved_nonzero")
                            \/ Has(a.device, "monitor_paged_declaration"))
  <2>1. Fine(b, u)
    BY <1>1, FineIf
  <2> HIDE DEF b
  <2>2. Fine(Noted(b, [b.session EXCEPT !.channels = a.device.channels]), u)
    BY <2>1, FineNotes
  <2> QED
    BY <2>2 DEF MonitorListed, b
<1>2. Fine(MonitorDeclaration(w), u)
  BY <1>1, FineAsk DEF MonitorDeclaration
<1>3. ASSUME NEW slots, NEW count, NEW refused \in BOOLEAN PROVE Fine(Written(w, slots, count, refused), u)
  BY FineIf DEF Written
<1>4. Fine(AcceptsCompleteWrite(w), u) /\ Fine(AbsentIsAState(w), u)
  BY <1>3 DEF AcceptsCompleteWrite, AbsentIsAState
<1>5. Fine(RejectsIncomplete(w), u)
  BY <1>3, FineEnd DEF RejectsIncomplete, Verdicts
<1>6. Fine(RejectsBadLength(w), u)
  BY <1>3 DEF RejectsBadLength
<1>7. Fine(RejectsDuplicateSlot(w), u)
  BY <1>3 DEF RejectsDuplicateSlot
<1>8. Fine(IgnoresUnknownSlot(w), u)
  BY <1>3 DEF IgnoresUnknownSlot
<1> QED
  BY <1>2, <1>4, <1>5, <1>6, <1>7, <1>8

LEMMA FineTransfers ==
    ASSUME NEW w, NEW u, Fine(w, u)
    PROVE  /\ Fine(AidingDeclaration(w), u) /\ Fine(ChunkSize(w), u)
           /\ Fine(RejectsUndeclaredFormat(w), u) /\ Fine(RejectsOversized(w), u)
           /\ Fine(AidingTransfer(w), u) /\ Fine(ReportsMissingChunk(w), u)
           /\ Fine(DetectsCorruption(w), u) /\ Fine(BeginSupersedes(w), u)
<1>1. ASSUME NEW a, Fine(a, u) PROVE Fine(AidingListed(a), u)
  BY <1>1, FineIf, FineNotes DEF AidingListed
<1>2. Fine(AidingDeclaration(w), u)
  BY <1>1, FineAsk DEF AidingDeclaration
<1>3. ASSUME NEW a, Fine(a, u) PROVE Fine(Declared(a), u) /\ Fine(Begun(a), u)
  BY <1>3, FineIf, FineNotes DEF Declared, Begun
<1>4. Fine(ChunkSize(w), u)
  BY <1>3, FineAsk DEF ChunkSize
<1>5. Fine(RejectsUndeclaredFormat(w), u) /\ Fine(RejectsOversized(w), u)
  BY <1>3, FineAsk DEF RejectsUndeclaredFormat, RejectsOversized
<1>6. ASSUME NEW a, Fine(a, u), NEW n PROVE Fine(Transfer(a, n), u)
  BY <1>3, <1>6, FineIf, FineAsk DEF Transfer
<1>7. ASSUME NEW n PROVE n \in Nat => Len(Indices(n)) \in Nat
  BY DEF Indices
<1>8. ASSUME NEW n, n \in {2, 3, 4} PROVE Within(w, n) \in Nat
  BY <1>8 DEF Within, Fine, Sound, Kept, Steady
<1>9. ASSUME NEW a, Fine(a, u), NEW n \in Nat PROVE Fine(Filled(a, Indices(n)), u) /\ Fine(Whole(a, n), u)
  BY <1>6, <1>7, <1>9, FineSent DEF Filled, Whole
<1>10. ASSUME NEW a, Fine(a, u), NEW crc, NEW taken, NEW allowed
       PROVE  Fine(Committed(a, crc, taken, allowed), u)
  <2>1. ASSUME NEW b, Fine(b, u), NEW r PROVE Fine(Allowing(b, r, allowed), u)
    BY <2>1, FineIf DEF Allowing
  <2>2. Fine(Expect(a, Commit, {"ok"}), u)
    BY <1>10, FineAsk
  <2> QED
    BY <2>1, <2>2 DEF Committed
<1>11. Fine(AidingTransfer(w), u)
  <2> DEFINE blob == w.session.blob
             given == blob.chunks > 0
             n == IF given THEN blob.chunks ELSE Within(w, 3)
             taken == ~w.device.strict \/ (given /\ blob.aiding)
             ready == SkipIf(Declared(w), ~w.session.aid_begin)
             a == SkipIf(ready, given /\ (n > w.device.aid_room \/ n > ChunkCap))
             allowed == AnyOf({"rejected"}) \cup {Complete("applied")}
             b == Committed(Whole(a, n), "good", taken, allowed)
  <2>1. n \in Nat
    BY <1>8 DEF Fine, Sound, Settled
  <2>2. Fine(ready, u)
    BY <1>3, FineIf
  <2> HIDE DEF ready, n
  <2>3. Fine(a, u)
    BY <2>2, FineIf
  <2> HIDE DEF a
  <2>4. Fine(Whole(a, n), u)
    BY <1>9, <2>1, <2>3
  <2>5. ASSUME NEW x PROVE Fine(Committed(Whole(a, n), "good", x, allowed), u)
    BY <1>10, <2>4
  <2>6. Fine(b, u)
    BY <2>5
  <2> HIDE DEF b
  <2>7. Fine(WarnIf(b, given), u)
    BY <2>6, FineIf
  <2>8. Fine(ObserveIf(WarnIf(b, given), TRUE), u)
    BY <2>7, FineIf
  <2>9. AidingTransfer(w) = IF taken THEN b ELSE ObserveIf(WarnIf(b, given), TRUE)
    BY Zenon DEF AidingTransfer, b, a, ready, n
  <2> QED
    BY <2>6, <2>8, <2>9
<1>12. Fine(ReportsMissingChunk(w), u)
  <2>1. ASSUME NEW c, Fine(c, u), NEW k PROVE Fine(Resent(c, k), u)
    <3> DEFINE s == Sent(c, k, <<1>>, FALSE)
               allowed == AnyOf({"bad_crc", "rejected", "applied"})
    <3>1. Len(<<1>>) \in Nat
      OBVIOUS
    <3>2. Fine(s, u)
      BY <2>1, <3>1, FineSent
    <3> HIDE DEF s, allowed
    <3>3. ASSUME NEW x PROVE Fine(Committed(s, "good", x, allowed), u)
      BY <1>10, <3>2
    <3> QED
      BY <3>3 DEF Resent, s, allowed
  <2>2. ASSUME NEW a, Fine(a, u), NEW n \in Nat PROVE Fine(Withholding(a, n), u)
    <3> DEFINE t == a.device.aid.token
               rest == [i \in 1..(n - 2) |-> i + 1]
               b == Sent(a, t, <<0>> \o rest, FALSE)
    <3>1. Len(<<0>> \o rest) \in Nat
      <4> DEFINE m == IF n < 2 THEN 0 ELSE n - 2
      <4>1. m \in Nat /\ 1..(n - 2) = 1..m
        BY <2>2
      <4> HIDE DEF m
      <4>2. rest \in [1..m -> Int]
        BY <4>1
      <4>3. rest \in Seq(Int) /\ <<0>> \in Seq(Int)
        BY <4>1, <4>2
      <4> HIDE DEF rest
      <4>4. <<0>> \o rest \in Seq(Int)
        BY <4>3
      <4> QED
        BY <4>4
    <3> HIDE DEF rest
    <3>2. Fine(b, u)
      BY <2>2, <3>1, FineSent
    <3> HIDE DEF b
    <3>3. Fine(Committed(b, "good", TRUE, {Incomplete(1)}), u)
      BY <1>10, <3>2
    <3> QED
      BY <2>1, <3>3 DEF Withholding, b, rest
  <2> DEFINE n == Within(w, 3)
             a == SkipIf(Transfer(w, n), n < 2)
  <2>3. n \in Nat
    BY <1>8
  <2> HIDE DEF n
  <2>4. Fine(a, u)
    BY <1>6, FineIf
  <2> HIDE DEF a
  <2> QED
    BY <2>2, <2>3, <2>4 DEF ReportsMissingChunk, a, n
<1>13. Fine(DetectsCorruption(w), u)
  <2>1. Fine(Whole(w, Within(w, 3)), u)
    BY <1>8, <1>9
  <2> QED
    BY <1>10, <2>1 DEF DetectsCorruption
<1>14. Fine(BeginSupersedes(w), u)
  <2>1. ASSUME NEW c, Fine(c, u), NEW n \in Nat, NEW old PROVE Fine(Superseding(c, n, old), u)
    <3> DEFINE d == Filled(FailIf(c, c.device.aid.token = old), Indices(n))
               s == Sent(d, old, <<0>>, TRUE)
               allowed == AnyOf({"rejected", "applied"})
    <3>1. Fine(FailIf(c, c.device.aid.token = old), u)
      BY <2>1, FineIf
    <3>2. Fine(d, u)
      BY <1>9, <3>1
    <3>3. Len(<<0>>) \in Nat
      OBVIOUS
    <3> HIDE DEF d
    <3>4. Fine(s, u)
      BY <3>2, <3>3, FineSent
    <3> HIDE DEF s, allowed
    <3>5. ASSUME NEW x PROVE Fine(Committed(s, "good", x, allowed), u)
      BY <1>10, <3>4
    <3> QED
      BY <3>5 DEF Superseding, d, s, allowed
  <2>2. ASSUME NEW a, Fine(a, u), NEW n \in Nat PROVE Fine(Reopened(a, n), u)
    <3> DEFINE old == a.device.aid.token
               s == Sent(a, old, <<0>>, FALSE)
    <3>1. Len(<<0>>) \in Nat
      OBVIOUS
    <3>2. Fine(s, u)
      BY <2>2, <3>1, FineSent
    <3> HIDE DEF s
    <3>3. Fine(Transfer(s, n), u)
      BY <1>6, <3>2
    <3> QED
      BY <2>1, <2>2, <3>3 DEF Reopened, s
  <2>3. Fine(Transfer(w, Within(w, 4)), u)
    BY <1>6
  <2> QED
    BY <1>8, <2>2, <2>3 DEF BeginSupersedes
<1> QED
  BY <1>2, <1>4, <1>5, <1>11, <1>12, <1>13, <1>14

LEMMA FineClientCheck ==
    ASSUME NEW w, NEW u, Fine(w, u), NEW id, In(id, ClientRegistry)
    PROVE  Fine(ClientCheck(id, w), u)
<1>1. id \in {"monitor.declaration", "monitor.accepts_complete_write", "monitor.absent_is_a_state",
              "monitor.rejects_incomplete", "monitor.rejects_bad_length",
              "monitor.rejects_duplicate_slot", "monitor.ignores_unknown_slot",
              "aiding.declaration", "aiding.chunk_size", "aiding.rejects_undeclared_format",
              "aiding.rejects_oversized", "aiding.transfer", "aiding.reports_missing_chunk",
              "aiding.detects_corruption", "aiding.begin_supersedes"}
  BY DEF In, ClientRegistry, Check
<1> QED
  BY <1>1, FineMonitor, FineTransfers DEF ClientCheck

-----------------------------------------------------------------------------
(* What a subscription means *)

\* A finite set's elements in a sequence.
LEMMA Listing ==
    ASSUME NEW S, IsFiniteSet(S)
    PROVE  /\ SetToSeq(S) \in Seq(S) /\ Len(SetToSeq(S)) = Cardinality(S) /\ Cardinality(S) \in Nat
           /\ \A i, j \in 1..Cardinality(S) : SetToSeq(S)[i] = SetToSeq(S)[j] => i = j
<1> DEFINE n == Cardinality(S)
           q == SetToSeq(S)
<1>1. n \in Nat /\ ExistsBijection(1..n, S)
  BY FS_CardinalityType
<1>2. PICK f \in [1..n -> S] : \A i, j \in 1..n : f[i] = f[j] => i = j
  <2> DEFINE D == 1..n
  <2> HIDE DEF D
  <2>1. PICK f : f \in Bijection(D, S)
    BY <1>1 DEF ExistsBijection, D
  <2>2. f \in [D -> S] /\ \A i, j \in D : f[i] = f[j] => i = j
    BY <2>1, Fun_BijectionProperties
  <2> QED
    BY <2>2 DEF D
<1>3. IsInjective(f)
  BY <1>2 DEF IsInjective
<1>4. q \in [1..n -> S] /\ IsInjective(q)
  BY <1>3 DEF SetToSeq
<1> HIDE DEF n, q
<1>5. q \in Seq(S) /\ DOMAIN q = 1..n
  BY <1>1, <1>4
<1>6. Len(q) = n
  <2>1. DOMAIN q = 1..Len(q) /\ Len(q) \in Nat
    BY <1>5
  <2> QED
    BY <1>1, <1>5, <2>1
<1>7. \A i, j \in 1..n : q[i] = q[j] => i = j
  BY <1>4, <1>5 DEF IsInjective
<1> QED
  BY <1>1, <1>5, <1>6, <1>7 DEF n, q

LEMMA FineLogs ==
    ASSUME NEW w, NEW u, Fine(w, u), NEW stream
    PROVE  /\ Fine(SilentUntilAsked(w), u) /\ Fine(Decodes(w, stream), u)
           /\ Fine(AbsentFieldsZero(w), u) /\ Fine(SolutionScopedBits(w), u)
           /\ Fine(SeqFirstIsZero(w), u) /\ Fine(SeqAdvances(w), u) /\ Fine(ClockMonotonic(w), u)
           /\ Fine(OneClock(w), u) /\ Fine(OneRate(w), u) /\ Fine(MatchesSubscription(w), u)
           /\ Fine(SeqRestarts(w), u)
<1>1. ASSUME NEW c, NEW d PROVE Fine(FailIf(SkipIf(w, c), d), u) /\ Fine(ObserveIf(FailIf(SkipIf(w, c), d), TRUE), u)
  BY FineIf
<1>2. Fine(SilentUntilAsked(w), u) /\ Fine(AbsentFieldsZero(w), u)
  BY FineIf DEF SilentUntilAsked, AbsentFieldsZero
<1>3. Fine(Decodes(w, stream), u)
  BY <1>1 DEF Decodes
<1>4. Fine(SolutionScopedBits(w), u)
  BY FineIf DEF SolutionScopedBits
<1>5. Fine(SeqFirstIsZero(w), u) /\ Fine(SeqRestarts(w), u)
  BY <1>1 DEF SeqFirstIsZero, SeqRestarts
<1>6. Fine(SeqAdvances(w), u)
  BY <1>1 DEF SeqAdvances
<1>7. Fine(ClockMonotonic(w), u)
  BY <1>1 DEF ClockMonotonic
<1>8. Fine(OneClock(w), u) /\ Fine(OneRate(w), u)
  <2> DEFINE s == SkipIf(w, Cardinality(Present(w)) < 2)
  <2>1. Fine(s, u)
    BY FineIf
  <2> HIDE DEF s
  <2>2. Fine(End(s, "fail"), u)
    BY <2>1, FineEnd DEF Verdicts
  <2>3. Fine(OneClock(w), u)
    <3> DEFINE a == FailIf(s, Apart(w, "offset", 1000))
    <3>1. Fine(a, u)
      BY <2>1, <2>2 DEF FailIf
    <3>2. OneClock(w) = ObserveIf(a, TRUE)
      BY DEF OneClock, s
    <3> HIDE DEF a
    <3> QED
      BY <3>1, <3>2, FineIf
  <2>4. Fine(OneRate(w), u)
    <3> DEFINE a == FailIf(s, Apart(w, "ppm", 10000))
    <3>1. Fine(a, u)
      BY <2>1, <2>2 DEF FailIf
    <3>2. OneRate(w) = ObserveIf(a, TRUE)
      BY DEF OneRate, s
    <3> HIDE DEF a
    <3> QED
      BY <3>1, <3>2, FineIf
  <2> QED
    BY <2>3, <2>4
<1>9. Fine(MatchesSubscription(w), u)
  BY <1>1 DEF MatchesSubscription
<1> QED
  BY <1>2, <1>3, <1>4, <1>5, <1>6, <1>7, <1>8, <1>9

\* What is installed again.
Again(w) == {Subscribe(k) : k \in w.session.installed}

LEMMA AgainFinite ==
    ASSUME NEW w, IsFiniteSet(w.session.installed)
    PROVE  IsFiniteSet(Again(w)) /\ Cardinality(Again(w)) <= Cardinality(w.session.installed)
<1> DEFINE I == w.session.installed
           f == [k \in I |-> Subscribe(k)]
           A == Again(w)
<1>1. f \in [I -> A] /\ \A a \in A : \E k \in I : f[k] = a
  BY DEF Again
<1> HIDE DEF f, A
<1>2. f \in Surjection(I, A)
  BY <1>1, Fun_IsSurj
<1> HIDE DEF I
<1>3. IsFiniteSet(A) /\ Cardinality(A) <= Cardinality(I)
  BY <1>2, FS_Surjection DEF I
<1> QED
  BY <1>3 DEF A, I

LEMMA FineRestored ==
    ASSUME NEW w, NEW u, Fine(w, u)
    PROVE  Fine(Restored(w), u)
<1> DEFINE S == Again(w)
           qs == <<Reset>> \o SetToSeq(S)
           T == S \cup {Reset}
<1>1. IsFiniteSet(S)
  BY AgainFinite DEF Fine, Sound, Settled
<1> HIDE DEF S
<1>2. SetToSeq(S) \in Seq(S)
  BY <1>1, Listing
<1>3. SetToSeq(S) \in Seq(T) /\ <<Reset>> \in Seq(T)
  BY <1>2
<1> HIDE DEF T
<1>4. qs \in Seq(T)
  BY <1>3
<1> HIDE DEF qs
<1>5. Len(qs) \in Nat /\ DOMAIN qs = 1..Len(qs)
  BY <1>4
<1>6. Fine(Finally(w, qs, "kept"), u)
  BY <1>5, FineFinally
<1> QED
  BY <1>6 DEF Restored, qs, S, Again

\* A check that was skipped, or left the table as it found it.
Regained(x, w, u) == x = End(w, "skip") \/ \E a : Fine(a, u) /\ x = Restored(a)

LEMMA FineRegained ==
    ASSUME NEW w, NEW u, Fine(w, u), NEW x, Regained(x, w, u)
    PROVE  Fine(x, u)
  BY FineEnd, FineRestored DEF Regained, Verdicts

LEMMA RegainedOnBroadcast ==
    ASSUME NEW w, NEW u, Fine(w, u), NEW n, NEW steps, Steps(steps)
    PROVE  Regained(OnBroadcast(w, n, steps), w, u)
  BY FineScript DEF OnBroadcast, Regained

LEMMA ProperWindows ==
    ASSUME NEW id, NEW n
    PROVE  /\ Proper(Alive(id)) /\ Proper(Owes(id)) /\ Proper(AtMost(id, n))
           /\ Proper(Streaming(id)) /\ Steps(Quiet(id))
<1>1. Proper(Window(id, Nat, "running")) /\ Proper(May(Reset))
  BY ProperSteps
<1>2. Steps(Quiet(id))
  BY <1>1, StepsListed DEF Quiet
<1> QED
  BY <1>2, ProperSteps DEF Alive, Owes, AtMost, Streaming

LEMMA FineGoverned ==
    ASSUME NEW w, NEW u, Fine(w, u)
    PROVE  /\ Fine(ForwardedOnce(w), u) /\ Fine(MostSpecificGoverns(w), u)
           /\ Regained(EarliestInstalledGoverns(w), w, u)
<1> DEFINE t == Target(w)
<1>1. Fine(ForwardedOnce(w), u)
  <2> DEFINE a == Script(w, <<Should(Subscribe(Low(t)))>>)
  <2>1. Fine(a, u)
    BY FineAsk
  <2> HIDE DEF a
  <2>2. Fine(Listen(a), u)
    BY <2>1, FineListen
  <2>3. Fine(Duplicated(a), u)
    BY <2>2, FineIf DEF Duplicated
  <2> QED
    BY <2>3, FineEnd DEF ForwardedOnce, Verdicts, a
<1>2. Fine(MostSpecificGoverns(w), u)
  <2> DEFINE s == <<May(Reset), Should(Subscribe(Exact(t))), Alive(t),
                    Should(Periodic(Low(t), Slow)), Streaming(t)>>
             c == Restored(Script(w, s))
  <2>1. Steps(s)
    BY ProperSteps, ProperWindows, StepsListed
  <2> HIDE DEF s
  <2>2. Fine(c, u)
    BY <2>1, FineScript, FineRestored
  <2> HIDE DEF c
  <2>3. Fine(Noted(c, [c.session EXCEPT !.baseline = TRUE]), u)
    BY <2>2, FineNotes
  <2> QED
    BY <2>3, FineEnd DEF MostSpecificGoverns, Verdicts, c, s
<1>3. Regained(EarliestInstalledGoverns(w), w, u)
  <2> DEFINE s == <<May(Reset), May(Subscribe(Low(t))), May(Periodic(Low2(t), Slow)), Streaming(t),
                    May(Reset), May(Periodic(Low2(t), Slow)), May(Subscribe(Low(t))), AtMost(t, 1)>>
  <2>1. /\ Proper(May(Reset)) /\ Proper(May(Subscribe(Low(t))))
        /\ Proper(May(Periodic(Low2(t), Slow))) /\ Proper(Streaming(t)) /\ Proper(AtMost(t, 1))
    BY ProperSteps, ProperWindows
  <2>2. Steps(s)
    BY <2>1, StepsListed, Zenon
  <2> HIDE DEF s
  <2>3. Regained(OnBroadcast(w, 1, s), w, u)
    BY <2>2, RegainedOnBroadcast
  <2> QED
    BY <2>3 DEF EarliestInstalledGoverns, Regained, s
<1> QED
  BY <1>1, <1>2, <1>3

LEMMA RegainedScheduled ==
    ASSUME NEW w, NEW u, Fine(w, u)
    PROVE  /\ Regained(PeriodicFirstThenRations(w), w, u) /\ Regained(IdenticalReinstall(w), w, u)
           /\ Regained(ChangedReinstall(w), w, u) /\ Regained(FormatBitIsIdentity(w), w, u)
<1> DEFINE t == Target(w)
           quiet == Quiet(t)
<1>1. Steps(quiet)
  BY ProperWindows
<1> HIDE DEF quiet
<1>2. Regained(PeriodicFirstThenRations(w), w, u)
  <2> DEFINE a == <<Should(Subscribe(Exact(t))), Alive(t)>>
             b == <<Should(Periodic(Exact(t), Slow)), Window(t, {1}, "fail")>>
  <2>1. Steps(a)
    BY ProperSteps, ProperWindows, StepsListed
  <2>2. Steps(b)
    BY ProperSteps, StepsListed
  <2> HIDE DEF a, b
  <2>3. Steps(quiet \o a \o quiet \o b)
    BY <1>1, <2>1, <2>2, StepsAfter
  <2>4. Regained(OnBroadcast(w, 1, quiet \o a \o quiet \o b), w, u)
    BY <2>3, RegainedOnBroadcast
  <2> QED
    BY <2>4 DEF PeriodicFirstThenRations, quiet, a, b
<1>3. Regained(IdenticalReinstall(w), w, u)
  <2> DEFINE p == Periodic(Exact(t), Slow)
             a == <<Should(p), Alive(t), Must(p), AtMost(t, 0)>>
  <2>1. Steps(a)
    BY ProperSteps, ProperWindows, StepsListed
  <2> HIDE DEF a
  <2>2. Regained(OnBroadcast(w, 1, quiet \o a), w, u)
    BY <1>1, <2>1, StepsAfter, RegainedOnBroadcast
  <2> QED
    BY <2>2 DEF IdenticalReinstall, quiet, a
<1>4. Regained(ChangedReinstall(w), w, u)
  <2> DEFINE p == Periodic(Exact(t), Slow - 1000)
             a == <<Should(Periodic(Exact(t), Slow)), Alive(t), Must(p), Owes(t)>>
  <2>1. Steps(a)
    BY ProperSteps, ProperWindows, StepsListed
  <2> HIDE DEF a
  <2>2. Regained(OnBroadcast(w, 1, quiet \o a), w, u)
    BY <1>1, <2>1, StepsAfter, RegainedOnBroadcast
  <2> QED
    BY <2>2 DEF ChangedReinstall, quiet, a
<1>5. Regained(FormatBitIsIdentity(w), w, u)
  <2> DEFINE a == <<Should(Subscribe(Exact(t))), Alive(t)>>
             b == <<Should(Subscribe(Exact(OtherFormat(t)))), AtMost(t, 0)>>
  <2>1. Steps(a)
    BY ProperSteps, ProperWindows, StepsListed
  <2>2. Steps(b)
    BY ProperSteps, ProperWindows, StepsListed
  <2> HIDE DEF a, b
  <2>3. Steps(quiet \o a \o quiet \o b)
    BY <1>1, <2>1, <2>2, StepsAfter
  <2>4. Regained(OnBroadcast(w, 1, quiet \o a \o quiet \o b), w, u)
    BY <2>3, RegainedOnBroadcast
  <2> QED
    BY <2>4 DEF FormatBitIsIdentity, quiet, a, b
<1> QED
  BY <1>2, <1>3, <1>4, <1>5

LEMMA RegainedShedding ==
    ASSUME NEW w, NEW u, Fine(w, u)
    PROVE  Regained(DisplacedScheduleSurvives(w), w, u) /\ Regained(DroppedExcludesDeclined(w), w, u)
<1> DEFINE t == Target(w)
           quiet == Quiet(t)
<1>1. Steps(quiet)
  BY ProperWindows
<1> HIDE DEF quiet
<1>2. Regained(DisplacedScheduleSurvives(w), w, u)
  <2> DEFINE a == Script(w, quiet \o <<Should(Periodic(Broad(t), Slow))>>)
             b == SkipIf(Listen(a), \E id \in {t, NextTarget(w)} : Forwarded(a.device, id) = 0)
             c == SkipIf(b, Shedding(a.device))
             s == <<Should(Periodic(Exact(t), Slow)), Alive(t), Should(Unsubscribe(Exact(t))),
                    AtMost(t, 0)>>
  <2>1. Steps(<<Should(Periodic(Broad(t), Slow))>>)
    BY ProperSteps, StepsListed
  <2>2. Fine(a, u)
    BY <1>1, <2>1, StepsAfter, FineScript
  <2> HIDE DEF a
  <2>3. Fine(Listen(a), u)
    BY <2>2, FineListen
  <2>4. Fine(b, u)
    BY <2>3, FineIf
  <2> HIDE DEF b
  <2>5. Fine(c, u)
    BY <2>4, FineIf
  <2>6. Steps(s)
    BY ProperSteps, ProperWindows, StepsListed
  <2> HIDE DEF c, s
  <2>7. Fine(Script(c, s), u)
    BY <2>5, <2>6, FineScript
  <2> QED
    BY <2>7 DEF DisplacedScheduleSurvives, Regained, a, b, c, s, quiet
<1>3. Regained(DroppedExcludesDeclined(w), w, u)
  <2> DEFINE p == <<Should(Subscribe(Exact(t))), Alive(t)>>
             r == <<Should(Periodic(Exact(t), Rationed)), Alive(t)>>
             plain == Script(w, quiet \o p)
             rationed == Script(SkipIf(plain, ~w.device.brisk), quiet \o r)
  <2>1. Steps(p) /\ Steps(r)
    <3>1. Steps(p)
      BY ProperSteps, ProperWindows, StepsListed
    <3>2. Steps(r)
      BY ProperSteps, ProperWindows, StepsListed
    <3> QED
      BY <3>1, <3>2
  <2> HIDE DEF p, r
  <2>2. Fine(plain, u)
    BY <1>1, <2>1, StepsAfter, FineScript
  <2> HIDE DEF plain
  <2>3. Fine(SkipIf(plain, ~w.device.brisk), u)
    BY <2>2, FineIf
  <2>4. Fine(rationed, u)
    BY <1>1, <2>1, <2>3, StepsAfter, FineScript
  <2> HIDE DEF rationed
  <2>5. Fine(Listen(rationed), u)
    BY <2>4, FineListen
  <2>6. Fine(SkipIf(Listen(rationed), Shedding(rationed.device)), u)
    BY <2>5, FineIf
  <2>7. Fine(Discounted(rationed), u)
    BY <2>6, FineIf DEF Discounted
  <2> QED
    BY <2>7 DEF DroppedExcludesDeclined, Regained, rationed, plain, p, r, quiet
<1> QED
  BY <1>2, <1>3

-----------------------------------------------------------------------------
(* The checks that change what is believed installed *)

\* What a check notes of the subscriptions themselves.
LEMMA SoundInstalled ==
    ASSUME NEW w, NEW u, Sound(w, u), NEW S, IsFiniteSet(S), NEW x
    PROVE  /\ Sound(Noted(w, [w.session EXCEPT !.installed = S]), u)
           /\ Sound(Noted(w, [w.session EXCEPT !.installed = S, !.catch_all = x]), u)
           /\ Sound([w EXCEPT !.session.probe_installed = x, !.session.installed = S], u)
<1>1. /\ Settled([w.session EXCEPT !.installed = S])
      /\ SameNotes([w.session EXCEPT !.installed = S], u.session)
      /\ Settled([w.session EXCEPT !.installed = S, !.catch_all = x])
      /\ SameNotes([w.session EXCEPT !.installed = S, !.catch_all = x], u.session)
  BY DEF Sound, Settled, SameNotes
<1>2. /\ Sound(Noted(w, [w.session EXCEPT !.installed = S]), u)
      /\ Sound(Noted(w, [w.session EXCEPT !.installed = S, !.catch_all = x]), u)
  BY <1>1, SoundNoted
<1>3. Sound([w EXCEPT !.session.probe_installed = x, !.session.installed = S], u)
  BY DEF Sound, Settled, SameNotes
<1> QED
  BY <1>2, <1>3

\* Fine steps after a sound one.
LEMMA SoundIf ==
    ASSUME NEW w, NEW u, Sound(w, u), NEW c, NEW q, NEW v \in Verdicts
    PROVE  /\ Sound(FailIf(w, c), u) /\ Sound(WarnIf(w, c), u)
           /\ Sound(SkipIf(w, c), u) /\ Sound(ObserveIf(w, c), u)
           /\ Sound(End(w, v), u) /\ Sound(Ask(w, q), u)
<1>1. Fine(w, w)
  BY SoundItself
<1>2. /\ Fine(FailIf(w, c), w) /\ Fine(WarnIf(w, c), w)
      /\ Fine(SkipIf(w, c), w) /\ Fine(ObserveIf(w, c), w)
  BY <1>1, FineIf
<1>3. Fine(End(w, v), w) /\ Fine(Ask(w, q), w)
  BY <1>1, FineEnd, FineAsk
<1> QED
  BY <1>2, <1>3, FineSound

LEMMA SoundInstall ==
    ASSUME NEW w, NEW u, Sound(w, u), NEW k
    PROVE  Sound(Install(w, k), u)
<1> DEFINE S == {j \in w.session.installed : j.id # k.id} \cup {k}
<1>1. IsFiniteSet({j \in w.session.installed : j.id # k.id})
  BY FS_Subset DEF Sound, Settled
<1>2. IsFiniteSet(S)
  BY <1>1, FS_AddElement
<1> HIDE DEF S
<1>3. Sound(Noted(w, [w.session EXCEPT !.installed = S]), u)
  BY <1>2, SoundInstalled
<1> QED
  BY <1>3 DEF Install, Listed, S

LEMMA SoundSubscribe ==
    ASSUME NEW w, NEW u, Fine(w, u)
    PROVE  Sound(SubscribeOk(w), u) /\ Sound(SubscribeIdempotent(w), u)
<1>1. ASSUME NEW a, Fine(a, u) PROVE Sound(Probing(a), u)
  <2> DEFINE b == Noted(FailIf(a, a.detail), [a.session EXCEPT !.probe_installed = TRUE])
  <2>1. Fine(FailIf(a, a.detail), u)
    BY <1>1, FineIf
  <2>2. Fine(b, u)
    BY <1>1, <2>1, FineNotes
  <2> HIDE DEF b
  <2>3. Sound(Install(b, Probe), u)
    BY <2>2, SoundInstall DEF Fine
  <2> QED
    BY <2>3 DEF Probing, b
<1>2. Sound(SubscribeOk(w), u)
  BY <1>1, FineAsk DEF SubscribeOk
<1>3. ASSUME NEW a, Sound(a, u) PROVE Sound(Dropped(a), u)
  <2> DEFINE S == {j \in a.session.installed : j.id # Probe.id}
  <2>1. IsFiniteSet(S)
    BY <1>3, FS_Subset DEF Sound, Settled
  <2> HIDE DEF S
  <2>2. Sound([a EXCEPT !.session.probe_installed = FALSE, !.session.installed = S], u)
    BY <1>3, <2>1, SoundInstalled
  <2> QED
    BY <2>2 DEF Dropped, S
<1>4. ASSUME NEW a, Sound(a, u) PROVE Sound(Reinstated(a), u)
  BY <1>3, <1>4, SoundIf DEF Reinstated, Verdicts
<1>5. ASSUME NEW a, Sound(a, u) PROVE Sound(Emptied(a), u)
  <2>1. Sound(Dropped(a), u) /\ Sound(Ask(a, Subscribe(Probe)), u)
    BY <1>3, <1>5, SoundIf DEF Verdicts
  <2>2. Sound(End(Dropped(a), "fail"), u) /\ Sound(Reinstated(Ask(a, Subscribe(Probe))), u)
    BY <1>4, <2>1, SoundIf DEF Verdicts
  <2> QED
    BY <1>5, <2>2 DEF Emptied
<1>6. Sound(SubscribeIdempotent(w), u)
  <2> DEFINE s == <<Must(Subscribe(Probe)), Must(Unsubscribe(Probe)), May(Unsubscribe(Probe))>>
             a == SkipIf(w, ~w.session.probe_installed)
  <2>1. Steps(s)
    BY ProperSteps, StepsListed
  <2>2. Fine(a, u)
    BY FineIf
  <2> HIDE DEF s, a
  <2>3. Sound(Script(a, s), u)
    BY <2>1, <2>2, FineScript DEF Fine
  <2> QED
    BY <1>5, <2>3 DEF SubscribeIdempotent, a, s
<1> QED
  BY <1>2, <1>6

\* The worlds in which a table is filled.
Pour(x, n, m, f) ==
    /\ f = [i \in 0..m |-> f[i]]
    /\ f[0] = x /\ \A i \in 1..m : f[i] = FillStep(f[i - 1], n, i)

LEMMA SomePour ==
    ASSUME NEW N \in Nat, NEW x, NEW n
    PROVE  \E f : Pour(x, n, N, f)
<1> DEFINE Reach(m) == \E f : Pour(x, n, m, f)
           R == {m \in 0..N : Reach(m)}
<1>1. 0 \in R
  <2> DEFINE f == [i \in 0..0 |-> x]
  <2>1. f = [i \in 0..0 |-> f[i]] /\ f[0] = x
    OBVIOUS
  <2> HIDE DEF f
  <2>2. Pour(x, n, 0, f)
    BY <2>1 DEF Pour
  <2> QED
    BY <2>2
<1>2. ASSUME NEW m \in 1..N, m - 1 \in R PROVE m \in R
  <2>1. PICK f : Pour(x, n, m - 1, f)
    BY <1>2
  <2> DEFINE g == [i \in 0..m |-> IF i = m THEN FillStep(f[m - 1], n, m) ELSE f[i]]
  <2>2. \A i \in 0..(m - 1) : g[i] = f[i]
    BY <1>2
  <2>3. g[m] = FillStep(f[m - 1], n, m)
    BY <1>2
  <2>4. g = [i \in 0..m |-> g[i]]
    OBVIOUS
  <2> HIDE DEF g
  <2>5. ASSUME NEW i \in 1..m PROVE g[i] = FillStep(g[i - 1], n, i)
    <3>1. CASE i = m
      BY <1>2, <2>2, <2>3, <3>1
    <3>2. CASE i # m
      <4>1. i \in 1..(m - 1) /\ i \in 0..(m - 1) /\ i - 1 \in 0..(m - 1)
        BY <1>2, <3>2
      <4>2. f[i] = FillStep(f[i - 1], n, i)
        BY <2>1, <4>1 DEF Pour
      <4> QED
        BY <2>2, <4>1, <4>2
    <3> QED
      BY <3>1, <3>2
  <2>6. g[0] = x
    BY <1>2, <2>1, <2>2 DEF Pour
  <2>7. Pour(x, n, m, g)
    BY <2>4, <2>5, <2>6 DEF Pour
  <2> QED
    BY <1>2, <2>7
<1>3. N \in R
  <2> HIDE DEF R
  <2> QED
    BY <1>1, <1>2, UpTo
<1> QED
  BY <1>3

LEMMA FineFill ==
    ASSUME NEW w, NEW u, Fine(w, u), NEW held, NEW n \in Nat
    PROVE  Fine(Fill(w, held, n).w, u)
<1> DEFINE N == n + 1
           x == [w |-> w, held |-> held, refusal |-> "none"]
           Equation(f) == f = [i \in 0..(n + 1) |-> IF i = 0 THEN x ELSE FillStep(f[i - 1], n, i)]
           c == CHOOSE f : Equation(f)
           Going(y) == {"w", "held", "refusal"} \subseteq DOMAIN y /\ Fine(y.w, u)
           R == {i \in 0..N : Going(c[i])}
<1> HIDE DEF x
<1>1. PICK f : Pour(x, n, N, f)
  <2>1. N \in Nat
    OBVIOUS
  <2> QED
    BY <2>1, SomePour
<1>2. f = [i \in 0..N |-> IF i = 0 THEN x ELSE FillStep(f[i - 1], n, i)]
  <2>1. \A i \in 0..N : i # 0 => i \in 1..N
    OBVIOUS
  <2> HIDE DEF N
  <2>2. f = [i \in 0..N |-> f[i]] /\ f[0] = x /\ \A i \in 1..N : f[i] = FillStep(f[i - 1], n, i)
    BY <1>1 DEF Pour
  <2>3. \A i \in 0..N : f[i] = IF i = 0 THEN x ELSE FillStep(f[i - 1], n, i)
    BY <2>1, <2>2
  <2> QED
    BY <2>2, <2>3
<1>3. Equation(c)
  BY <1>2
<1>4. Fill(w, held, n) = c[N]
  BY DEF Fill, x
<1>5. c = [i \in 0..N |-> IF i = 0 THEN x ELSE FillStep(c[i - 1], n, i)]
  BY <1>3
<1> HIDE DEF c
<1>6. c[0] = x /\ \A i \in 1..N : c[i] = FillStep(c[i - 1], n, i)
  BY <1>5
<1>7. 0 \in R
  BY <1>6 DEF x
<1>8. ASSUME NEW y, Going(y), NEW i PROVE Going(FillStep(y, n, i))
  <2> DEFINE a == Ask(y.w, Subscribe(Exact(<<"fill", i>>)))
  <2>1. Fine(a, u)
    BY <1>8, FineAsk
  <2> HIDE DEF a
  <2>2. Going(Filling(y, a))
    BY <1>8, <2>1 DEF Filling
  <2> QED
    BY <1>8, <2>2 DEF FillStep, a
<1> HIDE DEF Going
<1>9. ASSUME NEW i \in 1..N, i - 1 \in R PROVE i \in R
  BY <1>6, <1>8, <1>9
<1>10. \A i \in 0..N : i \in R
  <2> HIDE DEF R
  <2> QED
    BY <1>7, <1>9, UpTo
<1> QED
  BY <1>4, <1>10 DEF Going

LEMMA SoundFull ==
    ASSUME NEW w, NEW u, Fine(w, u)
    PROVE  /\ Sound(TableFull(w), u) /\ Sound(UpdateInPlaceWhenFull(w), u)
           /\ Sound(NoRateAdmission(w), u)
<1> DEFINE n == w.session.capacity.can
<1>1. n \in Nat
  BY DEF Fine, Sound, Settled
<1>2. Sound(End(w, "skip"), u)
  BY FineEnd DEF Verdicts, Fine
<1>3. Sound(TableFull(w), u)
  <2> DEFINE x == Fill(w, Cardinality(w.session.installed), n)
             a == FailIf(x.w, x.refusal # "table_full" \/ x.held # n)
  <2>1. Fine(x.w, u)
    BY <1>1, FineFill
  <2> HIDE DEF x
  <2>2. Fine(a, u)
    BY <2>1, FineIf
  <2> HIDE DEF a
  <2>3. Sound(Finally(a, <<Reset>>, "forgotten"), u)
    BY <2>2, FineReset
  <2> QED
    BY <1>2, <2>3 DEF TableFull, a, x
<1>4. Sound(UpdateInPlaceWhenFull(w), u)
  <2> DEFINE a == <<May(Reset)>>
             b == Refill(n, "refill")
             c == <<Must(Subscribe(Exact(<<"refill", 1>>)))>>
  <2>1. Steps(a)
    BY ProperSteps, StepsListed
  <2>2. Steps(b)
    BY <1>1, StepsRefill
  <2>3. Steps(c)
    BY ProperSteps, StepsListed
  <2> HIDE DEF a, b, c
  <2>4. Fine(Script(w, a \o b \o c), u)
    BY <2>1, <2>2, <2>3, StepsAfter, FineScript
  <2>5. Sound(Finally(Script(w, a \o b \o c), <<Reset>>, "forgotten"), u)
    BY <2>4, FineReset
  <2> QED
    BY <1>2, <2>5 DEF UpdateInPlaceWhenFull, a, b, c
<1>5. Sound(NoRateAdmission(w), u)
  <2> DEFINE s == <<May(Reset), Must(Subscribe(Catchall))>>
             qs == <<Unsubscribe(Catchall), Reset>>
  <2>1. Steps(s)
    BY ProperSteps, StepsListed
  <2> HIDE DEF s
  <2>2. Fine(Script(w, s), u)
    BY <2>1, FineScript
  <2>3. DOMAIN qs = 1..2 /\ 2 \in Nat
    OBVIOUS
  <2> HIDE DEF qs
  <2>4. Sound(Finally(Script(w, s), qs, "forgotten"), u)
    BY <2>2, <2>3, FineFinally
  <2> QED
    BY <2>4 DEF NoRateAdmission, s, qs
<1> QED
  BY <1>3, <1>4, <1>5

LEMMA SoundUnanswerable ==
    ASSUME NEW w, NEW u, Fine(w, u)
    PROVE  Sound(AppliesOnlyIfAnswerable(w), u)
<1>1. ASSUME NEW a, Sound(a, u) PROVE Sound(Unindicated(a), u)
  <2> DEFINE h == Handle(a.device, Reset).device
  <2>1. Kept(h, u.device)
    BY <1>1, HandleKeeps, KeptThrough DEF Sound, Kept
  <2> HIDE DEF h
  <2>2. Sound([a EXCEPT !.device = h], u)
    BY <1>1, <2>1 DEF Sound
  <2> QED
    BY <1>1, <2>2 DEF Unindicated, h
<1>2. ASSUME NEW a, NEW c, Sound(c, u) PROVE Sound(Remaining(a, c), u)
  <2> DEFINE S == IF c.status = "ok" THEN {j \in c.session.installed : j.id # Probe.id} ELSE {}
             d == Noted(c, [c.session EXCEPT !.installed = S])
             e == ObserveIf(d, a.device.unanswerable = "refused")
  <2>1. IsFiniteSet(S)
    <3>1. IsFiniteSet({j \in c.session.installed : j.id # Probe.id}) /\ IsFiniteSet({})
      BY <1>2, FS_Subset, FS_EmptySet DEF Sound, Settled
    <3> QED
      BY <3>1
  <2>2. Remaining(a, c) =
          IF c.status = "ok" THEN e ELSE FailIf(ObserveIf(e, a.device.unanswerable = "held"), TRUE)
    BY DEF Remaining
  <2> HIDE DEF S
  <2>3. Sound(d, u)
    BY <1>2, <2>1, SoundInstalled
  <2> HIDE DEF d
  <2>4. Sound(e, u)
    BY <2>3, SoundIf DEF Verdicts
  <2> HIDE DEF e
  <2>5. Sound(ObserveIf(e, a.device.unanswerable = "held"), u)
    BY <2>4, SoundIf DEF Verdicts
  <2>6. Sound(FailIf(ObserveIf(e, a.device.unanswerable = "held"), TRUE), u)
    BY <2>5, SoundIf DEF Verdicts
  <2> QED
    BY <2>2, <2>4, <2>6
<1> DEFINE a == Install(Script(w, <<Should(Subscribe(Probe))>>), Probe)
<1>3. Fine(Script(w, <<Should(Subscribe(Probe))>>), u)
  BY FineAsk
<1>4. Sound(a, u)
  BY <1>3, SoundInstall DEF Fine
<1> HIDE DEF a
<1>5. Sound(Ask(Unindicated(a), Unsubscribe(Probe)), u)
  BY <1>1, <1>4, SoundIf DEF Verdicts
<1> QED
  BY <1>2, <1>5 DEF AppliesOnlyIfAnswerable, a

\* The identifiers of a set, in a list of steps.
LEMMA StepsNamed ==
    ASSUME NEW n \in Nat, NEW named, DOMAIN named = 1..n
    PROVE  LET s == [i \in DOMAIN named |-> May(Subscribe(named[i]))]
           IN  Steps(s) /\ Len(s) = n
<1> DEFINE s == [i \in DOMAIN named |-> May(Subscribe(named[i]))]
<1>1. s = [i \in 1..n |-> s[i]] /\ \A i \in 1..n : s[i] = May(Subscribe(named[i]))
  OBVIOUS
<1>2. \A i \in 1..n : Proper(s[i])
  BY <1>1, ProperSteps
<1> HIDE DEF s
<1>3. Steps(s) /\ Len(s) = n
  BY <1>1, <1>2, StepsEach
<1> QED
  BY <1>3 DEF s

LEMMA SoundObservation ==
    ASSUME NEW w, NEW u, Fine(w, u)
    PROVE  Sound(Observation(w), u)
<1>1. Sound(ObserveNamed(w), u)
  <2> DEFINE named == SetToSeq(w.session.can_ids)
             n == Cardinality(w.session.can_ids)
             s == [i \in DOMAIN named |-> May(Subscribe(named[i]))]
             told == Course(w, s)
             last == told[Len(named)]
             taken == {named[i] : i \in {i \in DOMAIN named : told[i].status = "ok"}}
             noted == Noted(last, [last.session EXCEPT !.installed = taken, !.catch_all = FALSE])
  <2>1. /\ named \in Seq(w.session.can_ids) /\ Len(named) = n /\ n \in Nat
        /\ IsFiniteSet(w.session.can_ids)
    BY Listing DEF Fine, Sound, Settled
  <2>2. DOMAIN named = 1..n /\ \A i \in 1..n : named[i] \in w.session.can_ids
    BY <2>1
  <2>3. Steps(s) /\ Len(s) = n
    BY <2>1, <2>2, StepsNamed
  <2>4. ObserveNamed(w) = WarnIf(noted, taken = {})
    BY DEF ObserveNamed, NamedAll
  <2>5. taken \subseteq w.session.can_ids
    BY <2>2
  <2> HIDE DEF named, n, s
  <2>6. Fine(last, u)
    BY <2>1, <2>3, FineCourse
  <2>7. IsFiniteSet(taken)
    BY <2>1, <2>5, FS_Subset
  <2> HIDE DEF last, taken
  <2>8. Sound(noted, u)
    BY <2>6, <2>7, SoundInstalled DEF Fine
  <2> HIDE DEF noted
  <2> QED
    BY <2>4, <2>8, SoundIf DEF Verdicts
<1>2. Sound(ObserveAll(w), u)
  <2> DEFINE ready == SkipIf(w, "masked_subscriptions" \notin w.session.caps)
             s == <<Asking(Subscribe(Catchall), {"ok"}, "warn")>>
             x == Script(ready, s)
  <2>1. Fine(ready, u)
    BY FineIf
  <2>2. Steps(s)
    BY ProperSteps, StepsListed
  <2> HIDE DEF ready, s
  <2>3. Fine(x, u)
    BY <2>1, <2>2, FineScript
  <2> HIDE DEF x
  <2>4. IsFiniteSet({Catchall})
    BY FS_Singleton
  <2>5. Sound(Noted(x, [x.session EXCEPT !.installed = {Catchall}, !.catch_all = TRUE]), u)
    BY <2>3, <2>4, SoundInstalled DEF Fine
  <2> QED
    BY <2>5 DEF ObserveAll, x, s, ready
<1> QED
  BY <1>1, <1>2, SoundIf DEF Observation, Verdicts

-----------------------------------------------------------------------------
(* The reconnect phase, and the dispatch of a check *)

LEMMA FineCleared ==
    ASSUME NEW w, NEW u, Fine(w, u)
    PROVE  Fine(SubscriptionsCleared(w), u)
<1> DEFINE S == w.session.installed_before
           keys == SetToSeq(S)
           n == Cardinality(S)
           s == [i \in DOMAIN keys |->
                    Asking(Unsubscribe(keys[i]), {"ok", "unknown_subscription"}, "fail")]
           v == SkipIf(w, ~w.session.reconnected \/ S = {})
           told == Course(v, s)
<1>1. keys \in Seq(S) /\ Len(keys) = n /\ n \in Nat
  BY Listing DEF Fine, Sound, Settled
<1>2. DOMAIN keys = 1..n
  BY <1>1
<1>3. s = [i \in 1..n |-> s[i]] /\ \A i \in 1..n : Proper(s[i])
  BY <1>2, ProperSteps
<1>4. Fine(v, u)
  BY FineIf
<1>5. SubscriptionsCleared(w) = FailIf(told[Len(keys)], \E i \in DOMAIN keys : told[i].status = "ok")
  BY DEF SubscriptionsCleared, Surviving
<1> HIDE DEF s, v, keys, n
<1>6. Steps(s) /\ Len(s) = n
  BY <1>1, <1>3, StepsEach
<1>7. Fine(told[Len(keys)], u)
  BY <1>1, <1>4, <1>6, FineCourse
<1> HIDE DEF told
<1> QED
  BY <1>5, <1>7, FineIf

\* The checks after which the same is believed installed as before.
Disturbing == {"can.subscribe_ok", "can.subscribe_idempotent", "can.table_full",
               "can.update_in_place_when_full", "can.no_rate_admission",
               "control.applies_only_if_answerable", "can.subscribe_for_observation"}

LEMMA SoundControlCheck ==
    ASSUME NEW w, NEW u, Fine(w, u), NEW id, In(id, ControlRegistry)
    PROVE  /\ Sound(ControlCheck(id, w), u)
           /\ id \notin Disturbing => Fine(ControlCheck(id, w), u)
<1>1. id \in {"control.unsupported_opcode", "control.echoes_request", "control.detail_only_on_ok",
              "control.malformed_params", "control.opcode_capability",
              "control.busy_when_outstanding", "control.busy_not_applied",
              "control.no_busy_for_conforming_client", "can.subscribe_ok",
              "can.subscribe_idempotent", "can.unknown_subscription", "can.table_full",
              "can.update_in_place_when_full", "can.transmission_bits_ignored",
              "can.identity_is_the_pair", "can.unknown_mode_refused", "can.no_rate_admission",
              "control.applies_only_if_answerable", "control.rate_ceiling",
              "control.rate_readback", "control.time_sync", "control.time_sync_offset"}
  BY DEF In, ControlRegistry, Check
<1>2. id \notin Disturbing => Fine(ControlCheck(id, w), u)
  <2> SUFFICES ASSUME id \notin Disturbing PROVE Fine(ControlCheck(id, w), u)
    OBVIOUS
  <2>1. id \in {"control.unsupported_opcode", "control.echoes_request", "control.detail_only_on_ok",
                "control.malformed_params", "control.opcode_capability",
                "control.busy_when_outstanding", "control.busy_not_applied",
                "control.no_busy_for_conforming_client", "can.unknown_subscription",
                "can.transmission_bits_ignored", "can.identity_is_the_pair",
                "can.unknown_mode_refused", "control.rate_ceiling",
                "control.rate_readback", "control.time_sync", "control.time_sync_offset"}
    BY <1>1 DEF Disturbing
  <2> QED
    BY <2>1, FineEnvelope, FineBusy, FineIdentity, FinePair, FineRates DEF ControlCheck
<1>3. id \in Disturbing => Sound(ControlCheck(id, w), u)
  <2> SUFFICES ASSUME id \in Disturbing PROVE Sound(ControlCheck(id, w), u)
    OBVIOUS
  <2>1. id \in {"can.subscribe_ok", "can.subscribe_idempotent", "can.table_full",
                "can.update_in_place_when_full", "can.no_rate_admission",
                "control.applies_only_if_answerable"}
    BY <1>1 DEF Disturbing
  <2> QED
    BY <2>1, SoundSubscribe, SoundFull, SoundUnanswerable DEF ControlCheck
<1> QED
  BY <1>2, <1>3 DEF Fine

LEMMA SoundStreamCheck ==
    ASSUME NEW w, NEW u, Fine(w, u), NEW id,
           id = "can.silent_until_asked" \/ In(id, ObserveRegistry) \/ In(id, StreamRegistry)
    PROVE  /\ Sound(StreamCheck(id, w), u)
           /\ id \notin Disturbing => Fine(StreamCheck(id, w), u)
<1>1. id \in {"can.silent_until_asked", "can.subscribe_for_observation", "gps.decodes",
              "can.decodes", "imu.decodes", "gps.absent_fields_zero",
              "gps.solution_scoped_bits", "seq.first_is_zero", "seq.advances",
              "clock.monotonic", "clock.one_clock", "clock.one_rate",
              "can.matches_subscription", "can.forwarded_once", "can.most_specific_governs",
              "can.earliest_installed_governs", "can.periodic_first_then_rations",
              "can.identical_reinstall_costs_nothing", "can.changed_reinstall_rearms",
              "can.displaced_schedule_survives", "can.dropped_excludes_declined",
              "can.format_bit_is_identity"}
  BY DEF In, ObserveRegistry, StreamRegistry, Check
<1>2. CASE id = "can.subscribe_for_observation"
  BY <1>2, SoundObservation DEF StreamCheck, Disturbing
<1>3. CASE id # "can.subscribe_for_observation"
  <2>1. Fine(StreamCheck(id, w), u)
    BY <1>1, <1>3, FineLogs, FineGoverned, RegainedScheduled, RegainedShedding, FineRegained DEF StreamCheck
  <2> QED
    BY <2>1 DEF Fine
<1> QED
  BY <1>2, <1>3

\* The registry is made of the registries of the phases.
Lists(r, n) == r = [i \in 1..n |-> r[i]]

LEMMA ListsLength ==
    ASSUME NEW n \in Nat, NEW r, Lists(r, n)
    PROVE  Len(r) = n /\ r \in Seq({r[i] : i \in 1..n})
  BY DEF Lists

Spliced(c, a, n, b, m) ==
    /\ \A i \in 1..n : c[i] = a[i]
    /\ \A i \in (n + 1)..(n + m) : c[i] = b[i - n]

LEMMA Joined ==
    ASSUME NEW n \in Nat, NEW m \in Nat, NEW a, NEW b, Lists(a, n), Lists(b, m)
    PROVE  Lists(a \o b, n + m) /\ Spliced(a \o b, a, n, b, m)
<1> DEFINE T == {a[i] : i \in 1..n} \cup {b[i] : i \in 1..m}
<1>1. Len(a) = n /\ Len(b) = m
  BY ListsLength
<1>2. a \in Seq(T) /\ b \in Seq(T)
  <2>1. \A i \in 1..n : a[i] \in T
    OBVIOUS
  <2>2. \A i \in 1..m : b[i] \in T
    OBVIOUS
  <2> HIDE DEF T
  <2>3. a \in Seq(T)
    BY <2>1 DEF Lists
  <2>4. b \in Seq(T)
    BY <2>2 DEF Lists
  <2> QED
    BY <2>3, <2>4
<1> HIDE DEF T
<1>3. /\ a \o b \in Seq(T) /\ Len(a \o b) = n + m
      /\ \A i \in 1..n : (a \o b)[i] = a[i]
      /\ \A i \in (n + 1)..(n + m) : (a \o b)[i] = b[i - n]
  BY <1>1, <1>2
<1>4. Lists(a \o b, n + m)
  BY <1>3 DEF Lists
<1> QED
  BY <1>3, <1>4 DEF Spliced

LEMMA InEither ==
    ASSUME NEW n \in Nat, NEW m \in Nat, NEW a, NEW b, Lists(a, n), Lists(b, m), NEW id
    PROVE  In(id, a \o b) <=> In(id, a) \/ In(id, b)
<1>1. /\ Len(a) = n /\ Len(b) = m /\ Len(a \o b) = n + m
      /\ \A i \in 1..n : (a \o b)[i] = a[i]
      /\ \A i \in (n + 1)..(n + m) : (a \o b)[i] = b[i - n]
  <2>1. n + m \in Nat
    OBVIOUS
  <2>2. /\ Lists(a \o b, n + m)
        /\ \A i \in 1..n : (a \o b)[i] = a[i]
        /\ \A i \in (n + 1)..(n + m) : (a \o b)[i] = b[i - n]
    <3>1. Lists(a \o b, n + m) /\ Spliced(a \o b, a, n, b, m)
      BY Joined
    <3>2. /\ \A i \in 1..n : (a \o b)[i] = a[i]
          /\ \A i \in (n + 1)..(n + m) : (a \o b)[i] = b[i - n]
      BY <3>1 DEF Spliced
    <3> QED
      BY <3>1, <3>2
  <2> QED
    BY <2>1, <2>2, ListsLength
<1>2. ASSUME NEW i \in 1..(n + m) PROVE i \in 1..n \/ (i \in (n + 1)..(n + m) /\ i - n \in 1..m)
  OBVIOUS
<1>3. ASSUME NEW i \in 1..m PROVE i + n \in (n + 1)..(n + m) /\ (i + n) - n = i
  OBVIOUS
<1>4. ASSUME NEW i \in 1..n PROVE i \in 1..(n + m)
  OBVIOUS
<1>5. ASSUME NEW i \in (n + 1)..(n + m) PROVE i \in 1..(n + m)
  OBVIOUS
<1>6. In(id, a \o b) => In(id, a) \/ In(id, b)
  BY <1>1, <1>2 DEF In
<1>7. In(id, a) => In(id, a \o b)
  BY <1>1, <1>4 DEF In
<1>8. In(id, b) => In(id, a \o b)
  <2> SUFFICES ASSUME NEW i \in 1..m, b[i].id = id PROVE In(id, a \o b)
    BY <1>1 DEF In
  <2>1. (a \o b)[i + n] = b[i] /\ i + n \in 1..(n + m)
    BY <1>1, <1>3, <1>5
  <2> QED
    BY <1>1, <2>1 DEF In
<1> QED
  BY <1>6, <1>7, <1>8

Silent == <<Check("can.silent_until_asked", {"can"}, FALSE)>>
Unprovoked == <<Check("control.no_unprovoked_busy", Control, FALSE)>>

LEMMA Registries ==
    /\ Lists(ProfileRegistry, 13) /\ Lists(Silent, 1) /\ Lists(ControlRegistry, 22)
    /\ Lists(PowerRegistry, 5) /\ Lists(ObdRegistry, 14) /\ Lists(ClientRegistry, 15)
    /\ Lists(ObserveRegistry, 1) /\ Lists(StreamRegistry, 20) /\ Lists(Unprovoked, 1)
    /\ Lists(ReconnectRegistry, 2)
<1>1. Lists(ProfileRegistry, 13)
  BY DEF Lists, ProfileRegistry
<1>2. Lists(Silent, 1)
  BY DEF Lists, Silent
<1>3. Lists(ControlRegistry, 22)
  BY DEF Lists, ControlRegistry
<1>4. Lists(PowerRegistry, 5)
  BY DEF Lists, PowerRegistry
<1>5. Lists(ObdRegistry, 14)
  BY DEF Lists, ObdRegistry
<1>6. Lists(ClientRegistry, 15)
  BY DEF Lists, ClientRegistry
<1>7. Lists(ObserveRegistry, 1)
  BY DEF Lists, ObserveRegistry
<1>8. Lists(StreamRegistry, 20)
  BY DEF Lists, StreamRegistry
<1>9. Lists(Unprovoked, 1)
  BY DEF Lists, Unprovoked
<1>10. Lists(ReconnectRegistry, 2)
  BY DEF Lists, ReconnectRegistry
<1> QED
  BY <1>1, <1>2, <1>3, <1>4, <1>5, <1>6, <1>7, <1>8, <1>9, <1>10

\* BeforeCollection a step at a time.
Upto2 == ProfileRegistry \o Silent
Upto3 == Upto2 \o ControlRegistry
Upto4 == Upto3 \o PowerRegistry
Upto5 == Upto4 \o ObdRegistry
Upto6 == Upto5 \o ClientRegistry

LEMMA Phases ==
    /\ BeforeCollection = Upto6 \o ObserveRegistry
    /\ AfterCollection = StreamRegistry \o Unprovoked
    /\ Interrogation = BeforeCollection \o AfterCollection
    /\ Registry = Interrogation \o ReconnectRegistry
    /\ Lists(Upto2, 14) /\ Lists(Upto3, 36) /\ Lists(Upto4, 41) /\ Lists(Upto5, 55)
    /\ Lists(Upto6, 70) /\ Lists(BeforeCollection, 71) /\ Lists(AfterCollection, 21)
    /\ Lists(Interrogation, 92) /\ Lists(Registry, 94)
<1>1. /\ BeforeCollection = Upto6 \o ObserveRegistry
      /\ AfterCollection = StreamRegistry \o Unprovoked
      /\ Interrogation = BeforeCollection \o AfterCollection
      /\ Registry = Interrogation \o ReconnectRegistry
  BY DEF BeforeCollection, AfterCollection, Interrogation, Registry, Upto6, Upto5, Upto4, Upto3,
         Upto2, Silent, Unprovoked
<1>2. Lists(Upto2, 14)
  <2>1. 13 \in Nat /\ 1 \in Nat /\ 13 + 1 = 14
    OBVIOUS
  <2> QED
    BY <2>1, Registries, Joined DEF Upto2
<1>3. Lists(Upto3, 36)
  <2>1. 14 \in Nat /\ 22 \in Nat /\ 14 + 22 = 36
    OBVIOUS
  <2> QED
    BY <1>2, <2>1, Registries, Joined DEF Upto3
<1>4. Lists(Upto4, 41)
  <2>1. 36 \in Nat /\ 5 \in Nat /\ 36 + 5 = 41
    OBVIOUS
  <2> QED
    BY <1>3, <2>1, Registries, Joined DEF Upto4
<1>5. Lists(Upto5, 55)
  <2>1. 41 \in Nat /\ 14 \in Nat /\ 41 + 14 = 55
    OBVIOUS
  <2> QED
    BY <1>4, <2>1, Registries, Joined DEF Upto5
<1>6. Lists(Upto6, 70)
  <2>1. 55 \in Nat /\ 15 \in Nat /\ 55 + 15 = 70
    OBVIOUS
  <2> QED
    BY <1>5, <2>1, Registries, Joined DEF Upto6
<1>7. Lists(BeforeCollection, 71)
  <2>1. 70 \in Nat /\ 1 \in Nat /\ 70 + 1 = 71
    OBVIOUS
  <2>2. Lists(Upto6 \o ObserveRegistry, 70 + 1)
    BY <1>6, <2>1, Registries, Joined
  <2> QED
    BY <1>1, <2>1, <2>2
<1>8. Lists(AfterCollection, 21)
  <2>1. 20 \in Nat /\ 1 \in Nat /\ 20 + 1 = 21
    OBVIOUS
  <2> QED
    BY <1>1, <2>1, Registries, Joined
<1>9. Lists(Interrogation, 92)
  <2>1. 71 \in Nat /\ 21 \in Nat /\ 71 + 21 = 92
    OBVIOUS
  <2> QED
    BY <1>1, <1>7, <1>8, <2>1, Joined
<1>10. Lists(Registry, 94)
  <2>1. 92 \in Nat /\ 2 \in Nat /\ 92 + 2 = 94
    OBVIOUS
  <2> QED
    BY <1>1, <1>9, <2>1, Registries, Joined
<1> QED
  BY <1>1, <1>2, <1>3, <1>4, <1>5, <1>6, <1>7, <1>8, <1>9, <1>10

LEMMA Stages ==
    /\ Len(BeforeCollection) = 71 /\ Len(Interrogation) = 92 /\ Len(Registry) = 94
    /\ LastOf.before = 71 /\ LastOf.after = 92 /\ LastOf.again = 94
    /\ DOMAIN LastOf = {"before", "after", "again"}
<1>1. 71 \in Nat /\ 92 \in Nat /\ 94 \in Nat
  OBVIOUS
<1>2. Len(BeforeCollection) = 71 /\ Len(Interrogation) = 92 /\ Len(Registry) = 94
  BY <1>1, Phases, ListsLength
<1> QED
  BY <1>2 DEF LastOf

LEMMA Registered ==
    ASSUME NEW i \in 1..94
    PROVE  In(Registry[i].id, Registry)
<1>1. i \in 1..Len(Registry)
  BY Stages
<1> QED
  BY <1>1 DEF In

\* Which phase a check is of.
LEMMA InRegistry ==
    ASSUME NEW id, In(id, Registry)
    PROVE  \/ In(id, ProfileRegistry \o PowerRegistry) \/ In(id, Silent) \/ In(id, ControlRegistry)
           \/ In(id, ObdRegistry) \/ In(id, ClientRegistry) \/ In(id, ObserveRegistry)
           \/ In(id, StreamRegistry) \/ In(id, Unprovoked) \/ In(id, ReconnectRegistry)
<1>1. /\ 1 \in Nat /\ 2 \in Nat /\ 5 \in Nat /\ 13 \in Nat /\ 14 \in Nat /\ 15 \in Nat
      /\ 20 \in Nat /\ 21 \in Nat /\ 22 \in Nat /\ 36 \in Nat /\ 41 \in Nat /\ 55 \in Nat
      /\ 70 \in Nat /\ 71 \in Nat /\ 92 \in Nat
  OBVIOUS
<1>2. In(id, Interrogation) \/ In(id, ReconnectRegistry)
  <2>1. /\ Lists(Interrogation, 92) /\ Lists(ReconnectRegistry, 2)
        /\ Registry = Interrogation \o ReconnectRegistry
    BY Phases, Registries
  <2> QED
    BY <1>1, <2>1, InEither
<1>3. In(id, Interrogation) => In(id, BeforeCollection) \/ In(id, AfterCollection)
  <2>1. /\ Lists(BeforeCollection, 71) /\ Lists(AfterCollection, 21)
        /\ Interrogation = BeforeCollection \o AfterCollection
    BY Phases
  <2> QED
    BY <1>1, <2>1, InEither
<1>4. In(id, AfterCollection) => In(id, StreamRegistry) \/ In(id, Unprovoked)
  <2>1. /\ Lists(StreamRegistry, 20) /\ Lists(Unprovoked, 1)
        /\ AfterCollection = StreamRegistry \o Unprovoked
    BY Phases, Registries
  <2> QED
    BY <1>1, <2>1, InEither
<1>5. In(id, BeforeCollection) => In(id, Upto6) \/ In(id, ObserveRegistry)
  <2>1. /\ Lists(Upto6, 70) /\ Lists(ObserveRegistry, 1)
        /\ BeforeCollection = Upto6 \o ObserveRegistry
    BY Phases, Registries
  <2> QED
    BY <1>1, <2>1, InEither
<1>6. In(id, Upto6) => In(id, Upto5) \/ In(id, ClientRegistry)
  <2>1. Lists(Upto5, 55) /\ Lists(ClientRegistry, 15)
    BY Phases, Registries
  <2> QED
    BY <1>1, <2>1, InEither DEF Upto6
<1>7. In(id, Upto5) => In(id, Upto4) \/ In(id, ObdRegistry)
  <2>1. Lists(Upto4, 41) /\ Lists(ObdRegistry, 14)
    BY Phases, Registries
  <2> QED
    BY <1>1, <2>1, InEither DEF Upto5
<1>8. In(id, Upto4) => In(id, Upto3) \/ In(id, PowerRegistry)
  <2>1. Lists(Upto3, 36) /\ Lists(PowerRegistry, 5)
    BY Phases, Registries
  <2> QED
    BY <1>1, <2>1, InEither DEF Upto4
<1>9. In(id, Upto3) => In(id, Upto2) \/ In(id, ControlRegistry)
  <2>1. Lists(Upto2, 14) /\ Lists(ControlRegistry, 22)
    BY Phases, Registries
  <2> QED
    BY <1>1, <2>1, InEither DEF Upto3
<1>10. In(id, Upto2) => In(id, ProfileRegistry) \/ In(id, Silent)
  BY <1>1, Registries, InEither DEF Upto2
<1>11. In(id, ProfileRegistry) \/ In(id, PowerRegistry) => In(id, ProfileRegistry \o PowerRegistry)
  BY <1>1, Registries, InEither
<1> QED
  BY <1>2, <1>3, <1>4, <1>5, <1>6, <1>7, <1>8, <1>9, <1>10, <1>11

\* Every check of the registry leaves a sound world, and a settled verdict.
LEMMA SoundCheck ==
    ASSUME NEW w, NEW u, Fine(w, u), NEW id, In(id, Registry)
    PROVE  /\ Sound(CheckOf(id, w), u)
           /\ id \notin Disturbing => Fine(CheckOf(id, w), u)
<1> DEFINE Well(x) == Sound(x, u) /\ (id \notin Disturbing => Fine(x, u))
<1>1. \A x : Fine(x, u) => Well(x)
  BY DEF Fine
<1>2. Well(SubscriptionsCleared(w)) /\ Well(SeqRestarts(w)) /\ Well(NoUnprovokedBusy(w))
  BY <1>1, FineCleared, FineLogs, FineBusy
<1>3. In(id, ControlRegistry) => Well(ControlCheck(id, w))
  BY SoundControlCheck
<1>4. In(id, ProfileRegistry \o PowerRegistry) => Well(ProfileCheck(id, w))
  BY <1>1, FineProfileCheck
<1>5. In(id, ClientRegistry) => Well(ClientCheck(id, w))
  BY <1>1, FineClientCheck
<1>6. In(id, ObdRegistry) => Well(ObdCheck(id, w))
  BY <1>1, FineObdCheck
<1>7. /\ In(id, Silent) => id = "can.silent_until_asked"
      /\ In(id, Unprovoked) => id = "control.no_unprovoked_busy"
      /\ In(id, ReconnectRegistry) =>
            id \in {"reconnect.subscriptions_cleared", "reconnect.seq_restarts"}
  BY DEF In, Silent, Unprovoked, ReconnectRegistry, Check
<1>8. In(id, Silent) \/ In(id, ObserveRegistry) \/ In(id, StreamRegistry) => Well(StreamCheck(id, w))
  BY <1>7, SoundStreamCheck
<1> HIDE DEF Well
<1>9. Well(CheckOf(id, w))
  BY <1>2, <1>3, <1>4, <1>5, <1>6, <1>7, <1>8, InRegistry DEF CheckOf
<1> QED
  BY <1>9 DEF Well

LEMMA SoundVerdict ==
    ASSUME NEW w, NEW u, Fine(w, u), NEW check, In(check.id, Registry)
    PROVE  /\ Sound(Verdicted(check, w), u)
           /\ Verdicted(check, w).verdict # "running"
           /\ check.id \notin Disturbing => Fine(Verdicted(check, w), u)
<1>1. ASSUME NEW x, Sound(x, u), NEW v \in Verdicts \ {"running"}
      PROVE  Sound(End(x, v), u) /\ End(x, v).verdict # "running" /\ (Fine(x, u) => Fine(End(x, v), u))
  <2>1. Sound(End(x, v), u) /\ (Fine(x, u) => Fine(End(x, v), u))
    BY <1>1, SoundIf, FineEnd
  <2>2. End(x, v).verdict # "running"
    BY <1>1 DEF End, Over, Sound
  <2> QED
    BY <2>1, <2>2
<1>2. Sound(w, u)
  BY DEF Fine
<1>3. "skip" \in Verdicts \ {"running"} /\ "pass" \in Verdicts \ {"running"}
  BY DEF Verdicts
<1> QED
  BY <1>1, <1>2, <1>3, SoundCheck DEF Verdicted

-----------------------------------------------------------------------------
(* The run keeps its types *)

\* What Info says of the size of the table.
LEMMA TableSize ==
    ASSUME NEW d, d.slots \in Nat
    PROVE  /\ Info(d).capacity.can \in Nat /\ Info(d).capacity.can <= d.slots
           /\ (d.fault = "none" /\ "can" \in d.caps) => Info(d).capacity.can = d.slots
<1>1. "can" \in DOMAIN Room(d) /\ Room(d)["can"] = IF "can" \in d.caps THEN d.slots ELSE 0
  BY DEF Room
<1>2. Capacity(d).can \in {0, Room(d)["can"]}
  BY <1>1 DEF Capacity
<1>3. d.fault = "none" => Capacity(d).can = Room(d)["can"]
  BY <1>1 DEF Capacity, Has
<1>4. Info(d).capacity = Capacity(d)
  BY DEF Info
<1> QED
  BY <1>1, <1>2, <1>3, <1>4

\* What a session knows before it was opened.
Openable(n) ==
    /\ {"installed", "installed_before", "caps", "capacity", "can_ids", "blob"} \subseteq DOMAIN n
    /\ IsFiniteSet(n.installed) /\ IsFiniteSet(n.installed_before) /\ IsFiniteSet(n.can_ids)
    /\ n.blob.chunks \in Nat

LEMMA OpenSettles ==
    ASSUME NEW n, Openable(n), NEW d, d.slots \in Nat
    PROVE  Settled(WithInfo(n, d))
<1> DEFINE h == Flowing(d)
           i == Info(d)
           a == i.decodes
           b == i.caps
           c == i.rate
           e == i.capacity
<1>1. e.can \in Nat
  BY TableSize
<1>2. WithInfo(n, d) = [n EXCEPT !.decodes = a, !.caps = b, !.rate = c, !.capacity = e, !.heard = h]
  BY DEF WithInfo
<1> HIDE DEF h, i, a, b, c, e
<1> QED
  BY <1>1, <1>2 DEF Openable, Settled

\* The inductive invariant: the types, a device that keeps to its slots, and a session
\* that knows the size of the table from Info on.
Coherent ==
    /\ Steady(device) /\ device.slots # 0
    /\ stage = "opening" => Openable(session)
    /\ stage \in {"reconnecting"} \cup DOMAIN LastOf => Openable(session) /\ Settled(session)
TypeInv == TypeOK /\ Coherent

LEMMA WorldFine ==
    ASSUME Steady(device), Settled(session)
    PROVE  Fine(World, World)
  BY KeptItself DEF Fine, Sound, World, SameNotes, Verdicts

LEMMA SlotsUsed ==
    ASSUME NEW d, Steady(d)
    PROVE  Used(d) \in 0..d.slots
<1>1. Used(d) \in Nat /\ Used(d) <= d.slots /\ d.slots \in Nat
  BY FS_CardinalityType DEF Steady, Used
<1> QED
  BY <1>1

LEMMA Initially == Init => TypeInv
<1> SUFFICES ASSUME Init PROVE TypeInv
  OBVIOUS
<1>1. device \in DeviceType
  BY DeviceAssumption DEF Init
<1>2. device.table = <<>> /\ DOMAIN device.table = {}
  BY <1>1 DEF DeviceType
<1>3. Used(device) = 0 /\ IsFiniteSet(DOMAIN device.table)
  BY <1>2, FS_EmptySet DEF Used
<1>4. /\ {"fault", "caps", "slots", "table", "late", "car", "aid_room"} \subseteq DOMAIN device
      /\ device.slots \in Nat \ {0} /\ device.aid_room \in Nat /\ device.late = "spent"
      /\ "ecus" \in DOMAIN device.car /\ device.car.ecus \in Nat
  BY <1>1 DEF DeviceType
<1>5. Steady(device) /\ device.slots # 0
  BY <1>3, <1>4 DEF Steady
<1>6. PICK o \in Options : session = Opened(o)
  BY DEF Init
<1>7. Openable(session)
  <2>1. IsFiniteSet(o.can_ids) /\ o.blob.chunks \in Nat
    BY <1>6, OptionAssumption
  <2> QED
    BY <1>6, <2>1, FS_EmptySet DEF Opened, Openable
<1>8. TypeOK
  <2>1. position = 0 /\ results = <<>> /\ stage = "opening"
    BY DEF Init
  <2>2. Len(Registry) = 94
    BY Stages
  <2> QED
    BY <1>5, <2>1, <2>2, SlotsUsed DEF TypeOK
<1>9. Coherent
  BY <1>5, <1>7, Stages DEF Coherent, Init
<1> QED
  BY <1>8, <1>9 DEF TypeInv

\* A check that runs is one of the registry.
LEMMA Ahead ==
    ASSUME TypeInv, OneCheck
    PROVE  /\ stage \in DOMAIN LastOf /\ position < LastOf[stage]
           /\ position \in 0..93 /\ position + 1 \in 1..94
<1>1. stage \in DOMAIN LastOf /\ position < LastOf[stage]
  BY DEF OneCheck
<1>2. position \in 0..Len(Registry)
  BY DEF TypeInv, TypeOK
<1>3. LastOf[stage] \in {71, 92, 94}
  BY <1>1, Stages
<1>4. position \in 0..94
  BY <1>2, Stages
<1> QED
  BY <1>1, <1>3, <1>4

LEMMA CheckKeepsTypes == TypeInv /\ OneCheck => TypeInv'
<1> SUFFICES ASSUME TypeInv, OneCheck PROVE TypeInv'
  OBVIOUS
<1> DEFINE check == Registry[position + 1]
           w == Verdicted(check, World)
<1>1. /\ device' = w.device /\ session' = w.session
      /\ results' = Placed(results, check.id, w.verdict)
      /\ position' = position + 1 /\ stage' = stage
  BY DEF OneCheck
<1>2. stage \in DOMAIN LastOf /\ position \in 0..93 /\ position + 1 \in 1..94
  BY Ahead
<1>3. Fine(World, World)
  BY <1>2, WorldFine DEF TypeInv, Coherent
<1>4. In(check.id, Registry)
  BY <1>2, Registered
<1>5. DOMAIN results = {Registry[i].id : i \in 1..position}
  BY DEF TypeInv, TypeOK
<1>6. {Registry[i].id : i \in 1..(position + 1)} = {Registry[i].id : i \in 1..position} \cup {check.id}
  BY <1>2
<1> HIDE DEF check
<1>7. Sound(w, World) /\ w.verdict # "running"
  BY <1>3, <1>4, SoundVerdict
<1> HIDE DEF w
<1>8. Kept(w.device, device) /\ Settled(w.session) /\ w.verdict \in Verdicts
  BY <1>7 DEF Sound, World
<1>9. Steady(device') /\ device'.slots # 0
  BY <1>1, <1>8 DEF Kept, TypeInv, Coherent
<1>10. Openable(session')
  BY <1>1, <1>8 DEF Openable, Settled
<1>11. Coherent'
  BY <1>1, <1>2, <1>8, <1>9, <1>10, Stages DEF Coherent
<1>12. DOMAIN results' = {Registry[i].id : i \in 1..position'}
  <2>1. DOMAIN results' = DOMAIN results \cup {check.id}
    BY <1>1, PlacedIn
  <2> QED
    BY <1>1, <1>5, <1>6, <2>1
<1>13. \A id \in DOMAIN results' : results'[id] \in {"pass", "fail", "warn", "skip", "observe"}
  BY <1>1, <1>7, <1>8 DEF Placed, Verdicts, TypeInv, TypeOK
<1>14. TypeOK'
  BY <1>1, <1>2, <1>9, <1>12, <1>13, SlotsUsed, Stages DEF TypeOK
<1> QED
  BY <1>11, <1>14 DEF TypeInv

LEMMA ConnectionKeepsTypes ==
    ASSUME TypeInv, NEW stale, IsFiniteSet(DOMAIN stale), Cardinality(DOMAIN stale) <= device.slots,
           NEW n, Openable(n), device' = Connected(device, stale), session' = WithInfo(n, device'),
           UNCHANGED <<results, position>>, stage' \in DOMAIN LastOf
    PROVE  TypeInv'
<1>1. Kept(device', device)
  BY ConnectedKeeps DEF TypeInv, Coherent
<1>2. Steady(device') /\ device'.slots # 0 /\ device'.slots \in Nat
  BY <1>1 DEF Kept, Steady, TypeInv, Coherent
<1>3. Settled(session')
  BY <1>2, OpenSettles
<1>4. Openable(session')
  BY DEF Openable, WithInfo
<1>5. TypeOK'
  BY <1>2, SlotsUsed, Stages DEF TypeOK, TypeInv
<1> QED
  BY <1>2, <1>3, <1>4, <1>5, Stages DEF TypeInv, Coherent

LEMMA StepKeepsTypes == TypeInv /\ [Next]_vars => TypeInv'
<1> SUFFICES ASSUME TypeInv, [Next]_vars PROVE TypeInv'
  OBVIOUS
<1>1. CASE Open
  <2>1. DOMAIN <<>> = {} /\ IsFiniteSet(DOMAIN <<>>) /\ Cardinality(DOMAIN <<>>) <= device.slots
    BY FS_EmptySet DEF TypeInv, Coherent, Steady
  <2>2. Openable(session) /\ device' = Connected(device, <<>>)
        /\ session' = WithInfo(session, device') /\ UNCHANGED <<results, position>>
    BY <1>1 DEF Open, TypeInv, Coherent
  <2>3. stage' \in DOMAIN LastOf
    BY <1>1, Stages DEF Open
  <2> QED
    BY <2>1, <2>2, <2>3, ConnectionKeepsTypes
<1>2. CASE OneCheck
  BY <1>2, CheckKeepsTypes
<1>3. CASE Collect
  <2> DEFINE w == Listen(World)
  <2>1. stage \in DOMAIN LastOf
    BY <1>3, Stages DEF Collect, Behind
  <2>2. Fine(w, World)
    BY <2>1, WorldFine, FineListen DEF TypeInv, Coherent
  <2>3. device' = w.device /\ session' = w.session /\ stage' = "after" /\ UNCHANGED <<results, position>>
    BY <1>3 DEF Collect
  <2> HIDE DEF w
  <2>4. Kept(w.device, device) /\ Settled(w.session)
    BY <2>2 DEF Fine, Sound, World
  <2>5. Steady(device') /\ device'.slots # 0
    BY <2>3, <2>4 DEF Kept, TypeInv, Coherent
  <2>6. Openable(session')
    BY <2>3, <2>4 DEF Openable, Settled
  <2>7. TypeOK'
    BY <2>3, <2>5, SlotsUsed, Stages DEF TypeOK, TypeInv
  <2> QED
    BY <2>3, <2>4, <2>5, <2>6, <2>7, Stages DEF TypeInv, Coherent
<1>4. CASE Drop
  <2>1. Settled(session) /\ Openable(session)
    BY <1>4, Stages DEF Drop, Behind, TypeInv, Coherent
  <2>2. Settled(session') /\ Openable(session')
    BY <1>4, <2>1 DEF Drop, Settled, Openable
  <2> QED
    BY <1>4, <2>2 DEF Drop, TypeInv, TypeOK, Coherent, Used
<1>5. CASE Reopen
  <2> DEFINE n == [session EXCEPT !.reconnected = TRUE]
  <2>1. Openable(n)
    BY <1>5 DEF Reopen, TypeInv, Coherent, Openable
  <2>2. IsFiniteSet(DOMAIN device.table) /\ Cardinality(DOMAIN device.table) <= device.slots
    BY DEF TypeInv, Coherent, Steady, Used
  <2>3. device' = Connected(device, device.table) /\ session' = WithInfo(n, device')
    BY <1>5 DEF Reopen
  <2> HIDE DEF n
  <2> QED
    BY <1>5, <2>1, <2>2, <2>3, ConnectionKeepsTypes, Stages DEF Reopen
<1>6. CASE ReopenFails
  <2>1. Settled(session') /\ Openable(session')
    BY <1>6 DEF ReopenFails, Settled, Openable, TypeInv, Coherent
  <2> QED
    BY <1>6, <2>1, Stages DEF ReopenFails, TypeInv, TypeOK, Coherent, Used
<1>7. CASE LinkLost
  BY <1>7, Stages DEF LinkLost, TypeInv, TypeOK, Coherent, Used
<1>8. CASE Finish
  BY <1>8, Stages DEF Finish, TypeInv, TypeOK, Coherent, Used
<1>9. CASE UNCHANGED vars
  BY <1>9 DEF vars, TypeInv, TypeOK, Coherent, Used
<1> QED
  BY <1>1, <1>2, <1>3, <1>4, <1>5, <1>6, <1>7, <1>8, <1>9 DEF Next

LEMMA TypesKept == Spec => []TypeInv
<1>1. TypeInv /\ [Next]_vars => TypeInv'
  BY StepKeepsTypes
<1> QED
  BY <1>1, Initially, PTL DEF Spec

\* Whatever the device's defect, its slots and the options: Runner.run keeps one verdict
\* for every check behind it, each of them one of the five, and no sequence of checks,
\* reconnections and failures of the link leaves more in the table than it has slots.
THEOREM TypeCorrect == Spec => []TypeOK
<1>1. TypeInv => TypeOK
  BY DEF TypeInv
<1> QED
  BY <1>1, TypesKept, PTL

-----------------------------------------------------------------------------
(* What a conforming device answers *)

Honest(d) == Steady(d) /\ d.fault = "none"
CanRequest(q) ==
    /\ q.op \in {"CAN_RESET", "CAN_SUBSCRIBE", "CAN_SUBSCRIBE_MASK", "CAN_UNSUBSCRIBE"}
    /\ q.malformed = FALSE

LEMMA AnswersCan ==
    ASSUME NEW d, NEW q, CanRequest(q)
    PROVE  {"device", "status"} \subseteq DOMAIN Handle(d, q)
<1>1. ASSUME NEW e, NEW s PROVE {"device", "status"} \subseteq DOMAIN Answer(e, s)
  BY DEF Answer
<1>2. {"device", "status"} \subseteq DOMAIN HandleSubscribe(d, q)
  BY <1>1 DEF HandleSubscribe
<1>3. CASE ~Owns(d, q.op)
  BY <1>1, <1>3 DEF Handle
<1>4. CASE Owns(d, q.op)
  BY <1>1, <1>2, <1>4 DEF Handle, CanRequest, Installs
<1> QED
  BY <1>3, <1>4

\* No defect stands between the request and handle_control.
LEMMA Conforms ==
    ASSUME NEW d, Honest(d), NEW q, CanRequest(q)
    PROVE  LET a == Exchange(d, q)
           IN  /\ a.status = Handle(d, q).status /\ a.device.table = Handle(d, q).device.table
               /\ Honest(a.device) /\ Kept(a.device, d)
<1> DEFINE h == Handle(d, q)
           a == Exchange(d, q)
<1>1. d.fault = "none" /\ d.late = "spent"
  BY DEF Honest, Steady
<1>2. Preempted(d, q) = ""
  BY <1>1 DEF Preempted, Has
<1>3. Rewritten(d, q) = q
  BY <1>1 DEF Rewritten, Has, CanRequest
<1>4. Prepared(d, q) = d
  BY <1>1 DEF Prepared, Has
<1>5. Corrupted(d, q, h) = h
  <2> HIDE DEF h
  <2>1. "none" \notin DOMAIN Unsupporting
    BY DEF Unsupporting
  <2>2. ~Stopping(d, q) /\ ~Late(d, q) /\ RemovalCorrupted(d, q, h) = h
    BY <1>1 DEF Stopping, Late, RemovalCorrupted, Has
  <2> QED
    BY <1>1, <2>1, <2>2 DEF Corrupted, Has
<1> HIDE DEF h
<1>6. Served(d, q, q) = h
  BY <1>5 DEF Served, h
<1>7. Idle(d, q) = [h EXCEPT !.status = h.status]
  BY <1>1, <1>2, <1>3, <1>4, <1>6 DEF Idle, Met, Unsent, Has
<1>8. a = [Idle(d, q) EXCEPT !.device.late = Idle(d, q).device.late]
  BY <1>1 DEF Exchange
<1>9. a.status = h.status /\ a.device.table = h.device.table
  <2>1. {"device", "status"} \subseteq DOMAIN h /\ {"table", "late"} \subseteq DOMAIN h.device
    BY AnswersCan, HandleKeeps DEF h, Kept, Steady, Honest
  <2> QED
    BY <1>7, <1>8, <2>1
<1>10. Kept(a.device, d)
  BY ExchangeKeeps DEF Honest
<1> QED
  BY <1>1, <1>9, <1>10 DEF h, Honest, Kept

LEMMA Subscribing ==
    ASSUME NEW d, Honest(d), NEW q, Installs(q), q.malformed = FALSE, q.mode # "unknown"
    PROVE  LET a == Exchange(d, q)
           IN  /\ a.status \in {"ok", "table_full", "unsupported"}
               /\ DOMAIN d.table \subseteq DOMAIN a.device.table
               /\ DOMAIN a.device.table \subseteq DOMAIN d.table \cup {q.key}
               /\ a.status = "ok" => q.key \in DOMAIN a.device.table /\ Owns(d, q.op)
               /\ Owns(d, q.op) /\ Used(d) < d.slots => a.status = "ok"
               /\ Owns(d, q.op) /\ q.key \in DOMAIN d.table => a.status = "ok"
               /\ Used(a.device) <= Used(d) + 1
               /\ Honest(a.device) /\ Kept(a.device, d)
<1> DEFINE h == Handle(d, q)
           t == h.device.table
           a == Exchange(d, q)
<1>1. CanRequest(q)
  BY DEF Installs, CanRequest
<1>2. /\ h.status \in {"ok", "table_full", "unsupported"}
      /\ DOMAIN d.table \subseteq DOMAIN t /\ DOMAIN t \subseteq DOMAIN d.table \cup {q.key}
      /\ h.status = "ok" => q.key \in DOMAIN t /\ Owns(d, q.op)
      /\ Owns(d, q.op) /\ Used(d) < d.slots => h.status = "ok"
      /\ Owns(d, q.op) /\ q.key \in DOMAIN d.table => h.status = "ok"
  <2>1. CASE ~Owns(d, q.op)
    BY <2>1 DEF Handle, Answer
  <2>2. CASE Owns(d, q.op)
    <3>1. h = HandleSubscribe(d, q)
      BY <2>2 DEF Handle, Installs
    <3>2. CASE Known(d, q.key)
      <4>1. h.status = "ok" /\ h.device = [d EXCEPT !.table[q.key] = Updated(d.table[q.key], q)]
        BY <3>1, <3>2 DEF HandleSubscribe, Answer
      <4>2. DOMAIN t = DOMAIN d.table
        BY <4>1, KeptEntry DEF Honest
      <4> QED
        BY <2>2, <3>2, <4>1, <4>2 DEF Known
    <3>3. CASE ~Known(d, q.key) /\ ~FreeSlot(d)
      BY <2>2, <3>1, <3>3 DEF HandleSubscribe, Answer, Known, FreeSlot
    <3>4. CASE ~Known(d, q.key) /\ FreeSlot(d)
      <4>1. h.status = "ok" /\ h.device = [d EXCEPT !.table = Installed(d.table, q)]
        BY <3>1, <3>4 DEF HandleSubscribe, Answer
      <4>2. t = Installed(d.table, q)
        BY <4>1 DEF Honest, Steady
      <4>3. DOMAIN t = DOMAIN d.table \cup {q.key}
        BY <4>2, InstalledIn
      <4> QED
        BY <2>2, <3>4, <4>1, <4>3 DEF Known
    <3> QED
      BY <3>2, <3>3, <3>4
  <2> QED
    BY <2>1, <2>2
<1>3. a.status = h.status /\ a.device.table = t /\ Honest(a.device) /\ Kept(a.device, d)
  BY <1>1, Conforms
<1> HIDE DEF h, a
<1>4. Used(a.device) <= Used(d) + 1
  <2>1. IsFiniteSet(DOMAIN d.table)
    BY DEF Honest, Steady
  <2>2. /\ IsFiniteSet(DOMAIN d.table \cup {q.key})
        /\ Cardinality(DOMAIN d.table \cup {q.key}) \in {Used(d), Used(d) + 1}
        /\ Used(d) \in Nat
    BY <2>1, FS_AddElement, FS_CardinalityType DEF Used
  <2>3. /\ Cardinality(DOMAIN a.device.table) <= Cardinality(DOMAIN d.table \cup {q.key})
        /\ Cardinality(DOMAIN a.device.table) \in Nat
    BY <1>2, <1>3, <2>2, FS_Subset, FS_CardinalityType
  <2> QED
    BY <2>2, <2>3 DEF Used
<1> QED
  BY <1>2, <1>3, <1>4 DEF a, h

LEMMA Unsubscribing ==
    ASSUME NEW d, Honest(d), NEW k
    PROVE  LET a == Exchange(d, Unsubscribe(k))
           IN  /\ a.status \in {"ok", "unknown_subscription", "unsupported"}
               /\ a.status = "unsupported" => DOMAIN a.device.table = DOMAIN d.table
               /\ a.status # "unsupported" => DOMAIN a.device.table = DOMAIN d.table \ {k}
               /\ a.status = "unknown_subscription" => k \notin DOMAIN d.table
               /\ Honest(a.device) /\ Kept(a.device, d)
<1> DEFINE q == Unsubscribe(k)
           h == Handle(d, q)
           a == Exchange(d, q)
<1>1. q.op = "CAN_UNSUBSCRIBE" /\ q.malformed = FALSE /\ q.key = k
  BY DEF Unsubscribe, Bare
<1> HIDE DEF q
<1>2. CanRequest(q)
  BY <1>1 DEF CanRequest
<1>3. /\ h.status \in {"ok", "unknown_subscription", "unsupported"}
      /\ h.status = "unsupported" => DOMAIN h.device.table = DOMAIN d.table
      /\ h.status # "unsupported" => DOMAIN h.device.table = DOMAIN d.table \ {k}
      /\ h.status = "unknown_subscription" => k \notin DOMAIN d.table
  <2>1. CASE ~Owns(d, q.op)
    BY <2>1 DEF Handle, Answer
  <2>2. CASE Owns(d, q.op)
    <3>1. /\ h.device = [d EXCEPT !.table = Without(d.table, k)]
          /\ h.status = IF Known(d, k) THEN "ok" ELSE "unknown_subscription"
      BY <1>1, <2>2 DEF Handle, Answer, Installs
    <3>2. h.device.table = Without(d.table, k)
      BY <3>1 DEF Honest, Steady
    <3>3. DOMAIN h.device.table = DOMAIN d.table \ {k}
      BY <3>2, WithoutIn
    <3> QED
      BY <3>1, <3>3 DEF Known
  <2> QED
    BY <2>1, <2>2
<1>4. a.status = h.status /\ a.device.table = h.device.table /\ Honest(a.device) /\ Kept(a.device, d)
  BY <1>2, Conforms
<1> HIDE DEF h, a
<1>5. /\ a.status \in {"ok", "unknown_subscription", "unsupported"}
      /\ a.status = "unsupported" => DOMAIN a.device.table = DOMAIN d.table
      /\ a.status # "unsupported" => DOMAIN a.device.table = DOMAIN d.table \ {k}
      /\ a.status = "unknown_subscription" => k \notin DOMAIN d.table
      /\ Honest(a.device) /\ Kept(a.device, d)
  BY <1>3, <1>4
<1> QED
  BY <1>5 DEF a, q

LEMMA Resetting ==
    ASSUME NEW d, Honest(d)
    PROVE  LET a == Exchange(d, Reset)
           IN  /\ a.status \in {"ok", "unsupported"}
               /\ "can" \in d.caps => a.status = "ok" /\ DOMAIN a.device.table = {}
               /\ Honest(a.device) /\ Kept(a.device, d)
<1> DEFINE h == Handle(d, Reset)
           a == Exchange(d, Reset)
<1>1. Reset.op = "CAN_RESET" /\ Reset.malformed = FALSE
  BY DEF Reset, Bare
<1>2. CanRequest(Reset)
  BY <1>1 DEF CanRequest
<1>3. a.status = h.status /\ a.device.table = h.device.table /\ Honest(a.device) /\ Kept(a.device, d)
  BY <1>2, Conforms
<1>4. ~Owns(d, Reset.op) => h.status = "unsupported"
  BY DEF Handle, Answer
<1>5. Owns(d, Reset.op) => h.status = "ok" /\ h.device = [d EXCEPT !.table = <<>>, !.poll = <<>>]
  BY <1>1 DEF Handle, Answer, Installs
<1>6. [d EXCEPT !.table = <<>>, !.poll = <<>>].table = <<>> /\ DOMAIN <<>> = {}
  BY DEF Honest, Steady
<1>7. "can" \in d.caps => Owns(d, Reset.op)
  BY <1>1 DEF Owns, Owner
<1> HIDE DEF h, a
<1>8. /\ a.status \in {"ok", "unsupported"}
      /\ "can" \in d.caps => a.status = "ok" /\ DOMAIN a.device.table = {}
  BY <1>3, <1>4, <1>5, <1>6, <1>7
<1> QED
  BY <1>3, <1>8 DEF a

-----------------------------------------------------------------------------
(* A step of a check at a conforming device *)

LEMMA TakeOver ==
    ASSUME NEW w, Over(w), NEW q, NEW S, NEW o
    PROVE  Take(w, Asking(q, S, o)) = w /\ Take(w, Window(q, S, o)) = w
<1> DEFINE s == Asking(q, S, o)
           v == Window(q, S, o)
<1>1. /\ s.ask = <<q>> /\ <<q>> # <<>> /\ v.ask = <<>>
      /\ s.otherwise = o /\ v.otherwise = o
  BY DEF Asking, Window
<1> HIDE DEF s, v
<1>2. \A x : End(w, x) = w
  BY DEF End
<1>3. ASSUME NEW step, NEW x PROVE Judge(w, x, step) = w /\ Timely(w, step) = w
  BY <1>2 DEF Judge, Timely, FailIf
<1>4. Try(w, Head(s.ask)) = w /\ Listen(w) = w
  BY DEF Try, Listen
<1>5. Take(w, s) = w /\ Take(w, v) = w
  BY <1>1, <1>3, <1>4 DEF Take, Replied
<1> QED
  BY <1>5 DEF s, v

LEMMA TakeAsks ==
    ASSUME NEW w, {"device", "session", "status", "detail", "verdict"} \subseteq DOMAIN w, ~Over(w),
           NEW q, Exchange(w.device, q).status \notin {"none", "att"}, NEW S, NEW o
    PROVE  LET a == Exchange(w.device, q)
               x == Take(w, Asking(q, S, o))
           IN  /\ x.device = a.device /\ x.status = a.status
               /\ x.verdict = IF a.status \in S THEN "running" ELSE o
<1> DEFINE a == Exchange(w.device, q)
           s == Asking(q, S, o)
           y == Told(w, a)
           x == Take(w, s)
<1>1. s.ask = <<q>> /\ <<q>> # <<>> /\ Head(<<q>>) = q /\ s.otherwise = o /\ s.allowed = S
  BY DEF Asking
<1> HIDE DEF s
<1>2. Try(w, q) = y
  BY DEF Try
<1>3. /\ y.device = a.device /\ y.status = a.status /\ y.verdict = "running"
      /\ "verdict" \in DOMAIN y
  <2> DEFINE h == IF w.device.brisk THEN Flowing(a.device) ELSE {}
             b == w.session.unprovoked \/ a.status = "busy"
             c == w.session.heard \cup h
             z == IF a.status = "att" THEN "fail" ELSE w.verdict
  <2>1. y = [w EXCEPT !.device = a.device, !.status = a.status, !.detail = a.detail,
                      !.session.unprovoked = b, !.session.heard = c, !.verdict = z]
    BY DEF Told
  <2>2. z = "running"
    BY DEF Over
  <2> HIDE DEF h, b, c, z, a
  <2> QED
    BY <2>1, <2>2
<1> HIDE DEF y
<1>4. y.status # "none"
  BY <1>3
<1> HIDE DEF a
<1>5. x = Replied(Timely(y, s), s)
  BY <1>1, <1>2 DEF Take
<1>6. Timely(y, s) = y
  BY <1>4 DEF Timely, FailIf
<1>7. x = IF y.status \in S THEN y ELSE End(y, o)
  BY <1>1, <1>5, <1>6 DEF Replied, Judge
<1>8. End(y, o) = [y EXCEPT !.verdict = o]
  BY <1>3 DEF End, Over
<1>9. /\ x.device = a.device /\ x.status = a.status
      /\ x.verdict = IF a.status \in S THEN "running" ELSE o
  BY <1>3, <1>7, <1>8
<1> QED
  BY <1>9 DEF a, s

LEMMA AskTakes ==
    ASSUME NEW w, NEW step
    PROVE  Script(w, <<step>>) = Take(w, step)
<1> DEFINE s == <<step>>
<1>1. Len(s) = 1 /\ s[1] = step
  OBVIOUS
<1> HIDE DEF s
<1>2. Walk(w, s, 1, Course(w, s))
  BY <1>1, CourseWalks
<1>3. Course(w, s)[1] = Take(w, step)
  BY <1>1, <1>2 DEF Walk
<1> QED
  BY <1>1, <1>3 DEF Script, s

LEMMA ScriptOfThree ==
    ASSUME NEW w, NEW a, NEW b, NEW c
    PROVE  Script(w, <<a, b, c>>) = Take(Take(Take(w, a), b), c)
<1> DEFINE s == <<a, b, c>>
           f == Course(w, s)
<1>1. Len(s) = 3 /\ s[1] = a /\ s[2] = b /\ s[3] = c
  OBVIOUS
<1> HIDE DEF s
<1>2. Walk(w, s, 3, f)
  <2>1. Len(s) \in Nat
    BY <1>1
  <2>2. Walk(w, s, Len(s), Course(w, s))
    BY <2>1, CourseWalks
  <2> QED
    BY <1>1, <2>2
<1> HIDE DEF f
<1>3. f[0] = w /\ f[1] = Take(f[0], s[1]) /\ f[2] = Take(f[1], s[2]) /\ f[3] = Take(f[2], s[3])
  BY <1>2 DEF Walk
<1>4. f[3] = Take(Take(Take(w, a), b), c)
  BY <1>1, <1>3
<1> QED
  BY <1>1, <1>4 DEF Script, f, s

-----------------------------------------------------------------------------
(* A world in which what is believed installed is installed *)

\* What is believed installed is in the table, and can be asked for again.
Matching(w) ==
    /\ w.session.installed \subseteq DOMAIN w.device.table
    /\ \A k \in w.session.installed : Owns(w.device, Subscribe(k).op)

\* Asking for k, or for its removal, in a world that is not over.
LEMMA Subscribed ==
    ASSUME NEW w, NEW u, Fine(w, u), Honest(w.device), ~Over(w), NEW k, NEW S, NEW o
    PROVE  LET x == Take(w, Asking(Subscribe(k), S, o))
           IN  /\ x.status \in {"ok", "table_full", "unsupported"}
               /\ x.verdict = IF x.status \in S THEN "running" ELSE o
               /\ DOMAIN w.device.table \subseteq DOMAIN x.device.table
               /\ x.status = "ok" => k \in DOMAIN x.device.table /\ Owns(w.device, Subscribe(k).op)
               /\ Owns(w.device, Subscribe(k).op) /\ Used(w.device) < w.device.slots => x.status = "ok"
               /\ Used(x.device) <= Used(w.device) + 1
               /\ Honest(x.device) /\ Kept(x.device, w.device)
<1> DEFINE q == Subscribe(k)
           x == Take(w, Asking(q, S, o))
           a == Exchange(w.device, q)
<1>1. Installs(q) /\ q.malformed = FALSE /\ q.mode # "unknown" /\ q.key = k
  BY DEF Subscribe, Installs, Bare
<1> HIDE DEF q
<1>2. /\ a.status \in {"ok", "table_full", "unsupported"}
      /\ DOMAIN w.device.table \subseteq DOMAIN a.device.table
      /\ a.status = "ok" => q.key \in DOMAIN a.device.table /\ Owns(w.device, q.op)
      /\ Owns(w.device, q.op) /\ Used(w.device) < w.device.slots => a.status = "ok"
      /\ Used(a.device) <= Used(w.device) + 1
      /\ Honest(a.device) /\ Kept(a.device, w.device)
  BY <1>1, Subscribing
<1> HIDE DEF a
<1>3. /\ x.device = a.device /\ x.status = a.status
      /\ x.verdict = IF a.status \in S THEN "running" ELSE o
  BY <1>2, TakeAsks DEF Fine, Sound, a
<1> HIDE DEF x
<1>4. /\ x.status \in {"ok", "table_full", "unsupported"}
      /\ x.verdict = IF x.status \in S THEN "running" ELSE o
      /\ DOMAIN w.device.table \subseteq DOMAIN x.device.table
      /\ x.status = "ok" => k \in DOMAIN x.device.table /\ Owns(w.device, q.op)
      /\ Owns(w.device, q.op) /\ Used(w.device) < w.device.slots => x.status = "ok"
      /\ Used(x.device) <= Used(w.device) + 1
      /\ Honest(x.device) /\ Kept(x.device, w.device)
  BY <1>1, <1>2, <1>3
<1> QED
  BY <1>4 DEF x, q

LEMMA Unsubscribed ==
    ASSUME NEW w, NEW u, Fine(w, u), Honest(w.device), ~Over(w), NEW k, NEW S, NEW o
    PROVE  LET x == Take(w, Asking(Unsubscribe(k), S, o))
           IN  /\ x.status \in {"ok", "unknown_subscription", "unsupported"}
               /\ x.verdict = IF x.status \in S THEN "running" ELSE o
               /\ x.status = "unsupported" => DOMAIN x.device.table = DOMAIN w.device.table
               /\ x.status # "unsupported" => DOMAIN x.device.table = DOMAIN w.device.table \ {k}
               /\ x.status = "unknown_subscription" => k \notin DOMAIN w.device.table
               /\ Honest(x.device) /\ Kept(x.device, w.device)
<1> DEFINE q == Unsubscribe(k)
           x == Take(w, Asking(q, S, o))
           a == Exchange(w.device, q)
<1>2. /\ a.status \in {"ok", "unknown_subscription", "unsupported"}
      /\ a.status = "unsupported" => DOMAIN a.device.table = DOMAIN w.device.table
      /\ a.status # "unsupported" => DOMAIN a.device.table = DOMAIN w.device.table \ {k}
      /\ a.status = "unknown_subscription" => k \notin DOMAIN w.device.table
      /\ Honest(a.device) /\ Kept(a.device, w.device)
  BY Unsubscribing
<1> HIDE DEF q, a
<1>3. /\ x.device = a.device /\ x.status = a.status
      /\ x.verdict = IF a.status \in S THEN "running" ELSE o
  BY <1>2, TakeAsks DEF Fine, Sound, a
<1> HIDE DEF x
<1>4. /\ x.status \in {"ok", "unknown_subscription", "unsupported"}
      /\ x.verdict = IF x.status \in S THEN "running" ELSE o
      /\ x.status = "unsupported" => DOMAIN x.device.table = DOMAIN w.device.table
      /\ x.status # "unsupported" => DOMAIN x.device.table = DOMAIN w.device.table \ {k}
      /\ x.status = "unknown_subscription" => k \notin DOMAIN w.device.table
      /\ Honest(x.device) /\ Kept(x.device, w.device)
  BY <1>2, <1>3
<1> QED
  BY <1>4 DEF x, q

LEMMA WasReset ==
    ASSUME NEW w, NEW u, Fine(w, u), Honest(w.device), ~Over(w)
    PROVE  LET x == Take(w, May(Reset))
           IN  /\ x.verdict = "running"
               /\ "can" \in w.device.caps => DOMAIN x.device.table = {}
               /\ Honest(x.device) /\ Kept(x.device, w.device)
<1> DEFINE x == Take(w, Asking(Reset, {}, "running"))
           a == Exchange(w.device, Reset)
<1>1. /\ a.status \in {"ok", "unsupported"}
      /\ "can" \in w.device.caps => DOMAIN a.device.table = {}
      /\ Honest(a.device) /\ Kept(a.device, w.device)
  BY Resetting
<1> HIDE DEF a
<1>2. x.device = a.device /\ x.verdict = "running"
  BY <1>1, TakeAsks DEF Fine, Sound, a
<1> HIDE DEF x
<1> QED
  BY <1>1, <1>2 DEF x, May

\* Every element of a finite set stands in its listing.
LEMMA ListsAll ==
    ASSUME NEW S, IsFiniteSet(S), NEW e \in S
    PROVE  \E i \in 1..Cardinality(S) : SetToSeq(S)[i] = e
<1> DEFINE n == Cardinality(S)
           q == SetToSeq(S)
<1>1. /\ q \in Seq(S) /\ Len(q) = n /\ n \in Nat
      /\ \A i, j \in 1..n : q[i] = q[j] => i = j
  BY Listing
<1> HIDE DEF q, n
<1>2. q \in [1..n -> S]
  BY <1>1
<1>3. q \in Injection(1..n, S)
  BY <1>1, <1>2, Fun_IsInj
<1>4. Cardinality(1..n) = n
  <2>1. 1 \in Int /\ n \in Int
    BY <1>1
  <2>2. Cardinality(1..n) = IF 1 > n THEN 0 ELSE n - 1 + 1
    BY <2>1, FS_Interval, Zenon
  <2> QED
    BY <1>1, <2>2
<1>5. q \in Surjection(1..n, S)
  BY <1>3, <1>4, FS_Injection DEF n
<1>6. \A d \in S : \E i \in 1..n : q[i] = d
  BY <1>5 DEF Surjection
<1> QED
  BY <1>6 DEF n, q

LEMMA RestoredMatches ==
    ASSUME NEW w, NEW u, Fine(w, u), Honest(w.device), "can" \in w.device.caps,
           \A k \in w.session.installed : Owns(w.device, Subscribe(k).op),
           Cardinality(w.session.installed) <= w.device.slots
    PROVE  Matching(Restored(w)) /\ Honest(Restored(w).device)
<1> DEFINE I == w.session.installed
           S == Again(w)
           L == SetToSeq(S)
           n == Cardinality(S)
           qs == <<Reset>> \o L
           x == [w EXCEPT !.verdict = "running"]
           s == [i \in DOMAIN qs |-> May(qs[i])]
           f == Course(x, s)
<1>1. IsFiniteSet(S) /\ n <= Cardinality(I) /\ Cardinality(I) \in Nat /\ n \in Nat
  BY AgainFinite, FS_CardinalityType DEF Fine, Sound, Settled
<1>2. S = {Subscribe(k) : k \in I}
  BY DEF Again
<1> HIDE DEF S
<1>3. L \in Seq(S) /\ Len(L) = n
  BY <1>1, Listing
<1>4. \A e \in S : \E i \in 1..n : L[i] = e
  BY <1>1, ListsAll
<1> HIDE DEF L, n
<1>5. DOMAIN qs = 1..(n + 1) /\ qs[1] = Reset /\ \A i \in 1..n : qs[i + 1] = L[i]
  <2> DEFINE T == S \cup {Reset}
  <2>1. L \in Seq(T) /\ <<Reset>> \in Seq(T)
    BY <1>3
  <2>2. Len(<<Reset>>) = 1 /\ <<Reset>>[1] = Reset
    OBVIOUS
  <2> HIDE DEF T
  <2> QED
    BY <1>1, <1>3, <2>1, <2>2
<1> HIDE DEF qs
<1>6. s = [i \in 1..(n + 1) |-> s[i]] /\ s[1] = May(Reset)
      /\ \A i \in 1..n : s[i + 1] = May(L[i])
  <2>1. 1 \in DOMAIN qs /\ \A i \in 1..n : i + 1 \in DOMAIN qs
    BY <1>1, <1>5
  <2> QED
    BY <1>5, <2>1
<1>7. \A i \in 1..(n + 1) : Proper(s[i])
  BY <1>5, ProperSteps
<1> HIDE DEF s
<1>8. Steps(s) /\ Len(s) = n + 1 /\ n + 1 \in Nat
  BY <1>1, <1>6, <1>7, StepsEach
<1>9. Fine(x, u) /\ x.device = w.device /\ x.session = w.session /\ ~Over(x)
  BY FineVerdict DEF Fine, Sound, Over, Verdicts
<1> HIDE DEF x
<1>10. \A i \in 0..(n + 1) : Fine(f[i], u)
  BY <1>8, <1>9, FineCourse
<1>11. Walk(x, s, n + 1, f)
  BY <1>8, CourseWalks
<1> HIDE DEF f
<1>12. f[0] = x /\ \A i \in 1..(n + 1) : f[i] = Take(f[i - 1], s[i])
  BY <1>11 DEF Walk
<1> DEFINE Good(i) ==
             /\ ~Over(f[i + 1]) /\ Honest(f[i + 1].device) /\ Kept(f[i + 1].device, w.device)
             /\ Used(f[i + 1].device) <= i
             /\ \A j \in 1..i : L[j].key \in DOMAIN f[i + 1].device.table
           R == {i \in 0..n : Good(i)}
<1>13. 0 \in R
  <2>1. f[1] = Take(x, May(Reset))
    BY <1>1, <1>6, <1>12
  <2>2. /\ f[1].verdict = "running" /\ DOMAIN f[1].device.table = {}
        /\ Honest(f[1].device) /\ Kept(f[1].device, w.device)
    BY <1>9, <2>1, WasReset
  <2>3. Used(f[1].device) = 0
    BY <2>2, FS_EmptySet DEF Used
  <2>4. Good(0)
    BY <2>2, <2>3 DEF Over
  <2> QED
    BY <1>1, <2>4
<1>14. ASSUME NEW i \in 1..n, i - 1 \in R PROVE i \in R
  <2>1. /\ ~Over(f[i]) /\ Honest(f[i].device) /\ Kept(f[i].device, w.device)
        /\ Used(f[i].device) <= i - 1
        /\ \A j \in 1..(i - 1) : L[j].key \in DOMAIN f[i].device.table
    BY <1>14
  <2>2. f[i + 1] = Take(f[i], May(L[i]))
    <3>1. i + 1 \in 1..(n + 1) /\ (i + 1) - 1 = i /\ s[i + 1] = May(L[i])
      <4> HIDE DEF R
      <4>1. i \in Nat /\ i <= n /\ 1 <= i
        BY <1>1
      <4>2. i + 1 \in 1..(n + 1) /\ (i + 1) - 1 = i
        BY <1>1, <4>1
      <4>3. s[i + 1] = May(L[i])
        BY <1>6
      <4> QED
        BY <4>2, <4>3
    <3>2. f[i + 1] = Take(f[(i + 1) - 1], s[i + 1])
      BY <1>12, <3>1
    <3> QED
      BY <3>1, <3>2
  <2>3. PICK k \in I : L[i] = Subscribe(k)
    BY <1>2, <1>3
  <2>4. L[i].key = k
    BY <2>3 DEF Subscribe, Bare
  <2>5. Fine(f[i], u)
    BY <1>1, <1>10
  <2>6. Owns(f[i].device, Subscribe(k).op)
    BY <2>1 DEF Owns, Kept
  <2>7. Used(f[i].device) < f[i].device.slots
    <3>1. f[i].device.slots = w.device.slots /\ w.device.slots \in Nat
      BY <2>1 DEF Kept, Steady, Honest
    <3>2. Used(f[i].device) \in Nat
      BY <2>1, SlotsUsed DEF Honest, Steady
    <3> QED
      BY <1>1, <2>1, <3>1, <3>2
  <2> DEFINE y == Take(f[i], Asking(Subscribe(k), {}, "running"))
  <2>8. /\ y.status \in {"ok", "table_full", "unsupported"}
        /\ y.verdict = IF y.status \in {} THEN "running" ELSE "running"
        /\ DOMAIN f[i].device.table \subseteq DOMAIN y.device.table
        /\ y.status = "ok" => k \in DOMAIN y.device.table
        /\ Owns(f[i].device, Subscribe(k).op) /\ Used(f[i].device) < f[i].device.slots => y.status = "ok"
        /\ Used(y.device) <= Used(f[i].device) + 1
        /\ Honest(y.device) /\ Kept(y.device, f[i].device)
    BY <2>1, <2>5, Subscribed
  <2>9. f[i + 1] = y
    BY <2>2, <2>3 DEF May
  <2> HIDE DEF y
  <2>10. Used(f[i].device) \in Nat /\ Used(y.device) \in Nat
    BY <2>1, <2>8, SlotsUsed DEF Honest, Steady
  <2>11. /\ ~Over(y) /\ Honest(y.device) /\ Kept(y.device, w.device)
         /\ Used(y.device) <= i
    BY <2>1, <2>8, <2>10, KeptThrough DEF Over
  <2>12. k \in DOMAIN y.device.table
    BY <2>6, <2>7, <2>8
  <2>13. \A j \in 1..i : L[j].key \in DOMAIN y.device.table
    <3> SUFFICES ASSUME NEW j \in 1..i PROVE L[j].key \in DOMAIN y.device.table
      OBVIOUS
    <3>1. CASE j = i
      BY <2>4, <2>12, <3>1
    <3>2. CASE j # i
      <4>1. j \in 1..(i - 1)
        BY <3>2
      <4> QED
        BY <2>1, <2>8, <4>1
    <3> QED
      BY <3>1, <3>2
  <2>14. Good(i)
    BY <2>9, <2>11, <2>13
  <2> QED
    BY <2>14
<1>15. n \in R
  <2> HIDE DEF R
  <2>1. \A i \in 0..n : i \in R
    BY <1>1, <1>13, <1>14, UpTo
  <2> QED
    BY <1>1, <2>1
<1> DEFINE z == f[n + 1]
<1>16. /\ ~Over(z) /\ Honest(z.device) /\ Kept(z.device, w.device) /\ Fine(z, u)
       /\ \A j \in 1..n : L[j].key \in DOMAIN z.device.table
  BY <1>1, <1>10, <1>15
<1>17. Script(x, s) = z
  BY <1>8 DEF Script, f
<1> HIDE DEF z
<1>18. Restored(w) = Left(z, w.verdict, "kept")
  BY <1>2, <1>17 DEF Restored, Finally, x, s, qs, L
<1>19. Left(z, w.verdict, "kept").device = z.device /\ Left(z, w.verdict, "kept").session = z.session
  BY <1>16 DEF Left, Fine, Sound
<1>20. z.session.installed = I
  BY <1>16 DEF Fine
<1>21. ASSUME NEW k \in I PROVE k \in DOMAIN z.device.table /\ Owns(z.device, Subscribe(k).op)
  <2>1. PICK j \in 1..n : L[j] = Subscribe(k)
    BY <1>2, <1>4
  <2>2. L[j].key = k
    BY <2>1 DEF Subscribe, Bare
  <2> QED
    BY <1>16, <2>2 DEF Owns, Kept
<1> QED
  BY <1>16, <1>18, <1>19, <1>20, <1>21 DEF Matching

-----------------------------------------------------------------------------
(* The checks that subscribe, at a conforming device *)

\* A check is about to run at a conforming device, and the notes match its table.
Ready(w) == Fine(w, w) /\ ~Over(w) /\ Honest(w.device) /\ Matching(w)

\* Nothing but the verdict is changed.
Held(x, y) == x.device = y.device /\ x.session = y.session

LEMMA HeldMatches ==
    ASSUME NEW x, NEW y, Held(x, y)
    PROVE  Matching(x) <=> Matching(y)
  BY DEF Held, Matching

LEMMA HeldIf ==
    ASSUME NEW w, NEW v, {"device", "session", "verdict"} \subseteq DOMAIN w, NEW c, NEW x
    PROVE  /\ Held(End(w, x), w) /\ Held(FailIf(w, c), w) /\ Held(WarnIf(w, c), w)
           /\ Held(SkipIf(w, c), w) /\ Held(ObserveIf(w, c), w)
<1>1. ASSUME NEW y PROVE Held(End(w, y), w)
  BY DEF End, Held
<1>2. Held(w, w)
  BY DEF Held
<1> QED
  BY <1>1, <1>2 DEF FailIf, WarnIf, SkipIf, ObserveIf

LEMMA MatchesEmpty ==
    ASSUME NEW w, w.session.installed = {}
    PROVE  Matching(w)
  BY DEF Matching

\* What is installed while nothing but the probe can be.
LEMMA ProbeMatches ==
    ASSUME NEW w, w.session.installed \subseteq {Probe},
           Probe \in w.session.installed =>
               Probe \in DOMAIN w.device.table /\ Owns(w.device, Subscribe(Probe).op)
    PROVE  Matching(w)
  BY DEF Matching

LEMMA OwnsKept ==
    ASSUME NEW d, NEW e, Kept(e, d), NEW op
    PROVE  Owns(e, op) <=> Owns(d, op)
  BY DEF Kept, Owns

LEMMA NotOver ==
    ASSUME NEW w, NEW n
    PROVE  /\ Over(w) => Noted(w, n) = w
           /\ {"session", "verdict", "device"} \subseteq DOMAIN w /\ ~Over(w) =>
                 /\ Noted(w, n).session = n /\ Noted(w, n).device = w.device
                 /\ {"session", "verdict", "device"} \subseteq DOMAIN Noted(w, n)
                 /\ ~Over(Noted(w, n))
  BY DEF Noted, Over

LEMMA SubscribeOkMatches ==
    ASSUME NEW w, Ready(w), w.session.installed = {}
    PROVE  LET x == SubscribeOk(w)
           IN  Matching(x) /\ x.session.installed \subseteq {Probe}
<1> DEFINE y == Take(w, Asking(Subscribe(Probe), {"ok"}, "fail"))
           b == FailIf(y, y.detail)
           m == [y.session EXCEPT !.probe_installed = TRUE]
           c == Noted(b, m)
           x == SubscribeOk(w)
<1>1. /\ y.status \in {"ok", "table_full", "unsupported"}
      /\ y.verdict = IF y.status \in {"ok"} THEN "running" ELSE "fail"
      /\ y.status = "ok" => Probe \in DOMAIN y.device.table /\ Owns(w.device, Subscribe(Probe).op)
      /\ Kept(y.device, w.device)
  BY Subscribed DEF Ready
<1>2. Fine(y, w) /\ Proper(Must(Subscribe(Probe)))
  <2>1. Proper(Must(Subscribe(Probe)))
    BY ProperSteps
  <2>2. Must(Subscribe(Probe)).otherwise \in Verdicts
    BY <2>1 DEF Proper
  <2>3. Fine(Take(w, Must(Subscribe(Probe))), w)
    BY <2>2, FineTake DEF Ready
  <2> QED
    BY <2>1, <2>3 DEF Must
<1>3. Script(w, <<Must(Subscribe(Probe))>>) = y
  BY AskTakes DEF Must
<1>4. x = Install(c, Probe)
  BY <1>3 DEF SubscribeOk, Probing
<1> HIDE DEF y, x
<1>5. /\ {"device", "session", "verdict"} \subseteq DOMAIN y /\ y.session.installed = {}
      /\ {"installed"} \subseteq DOMAIN y.session
  BY <1>2 DEF Fine, Sound, Settled
<1>6. Held(b, y) /\ {"device", "session", "verdict"} \subseteq DOMAIN b /\ (b = y \/ Over(b))
  BY <1>5 DEF FailIf, End, Over, Held
<1> HIDE DEF b
<1>7. CASE Over(b)
  <2>1. x = b
    BY <1>4, <1>7 DEF Install, Noted
  <2>2. x.session.installed = {}
    BY <1>5, <1>6, <2>1 DEF Held
  <2> QED
    BY <2>2, MatchesEmpty DEF x
<1>8. CASE ~Over(b)
  <2>1. y.verdict = "running"
    BY <1>6, <1>8 DEF Over
  <2>2. Probe \in DOMAIN y.device.table /\ Owns(w.device, Subscribe(Probe).op)
    BY <1>1, <2>1
  <2>3. c.session = m /\ c.device = b.device /\ {"session", "verdict", "device"} \subseteq DOMAIN c /\ ~Over(c)
    BY <1>6, <1>8, NotOver
  <2>4. m.installed = {} /\ "installed" \in DOMAIN m
    BY <1>5, <1>6 DEF Held
  <2> HIDE DEF c, m
  <2>5. x.session = [c.session EXCEPT !.installed = Listed(c, Probe)] /\ x.device = c.device
    BY <1>4, <2>3, NotOver DEF Install
  <2>6. Listed(c, Probe) = {Probe}
    BY <2>3, <2>4 DEF Listed
  <2>7. x.session.installed = {Probe} /\ x.device = y.device
    BY <1>6, <2>3, <2>4, <2>5, <2>6 DEF Held
  <2>8. Owns(x.device, Subscribe(Probe).op)
    BY <1>1, <2>2, <2>7, OwnsKept
  <2> QED
    BY <2>2, <2>7, <2>8, ProbeMatches DEF x
<1> QED
  BY <1>7, <1>8

LEMMA TakeFine ==
    ASSUME NEW w, NEW u, Fine(w, u), NEW q, NEW S
    PROVE  /\ Fine(Take(w, Asking(q, S, "fail")), u) /\ Fine(Take(w, Asking(q, S, "skip")), u)
           /\ Fine(Take(w, Asking(q, S, "warn")), u) /\ Fine(Take(w, Asking(q, S, "running")), u)
<1>1. ASSUME NEW o \in Verdicts PROVE Fine(Take(w, Asking(q, S, o)), u)
  <2>1. Asking(q, S, o).otherwise = o
    BY DEF Asking
  <2> QED
    BY <2>1, FineTake
<1> QED
  BY <1>1 DEF Verdicts

\* Taking the probe away leaves nothing of it in the notes.
LEMMA DroppedMatches ==
    ASSUME NEW w, {"session", "verdict", "device"} \subseteq DOMAIN w,
           "installed" \in DOMAIN w.session,
           w.session.installed \subseteq {Probe}, NEW v
    PROVE  Matching(End(Dropped(w), v)) /\ End(Dropped(w), v).session.installed = {}
<1>1. Dropped(w).session.installed = {} /\ {"session", "verdict", "device"} \subseteq DOMAIN Dropped(w)
  BY DEF Dropped
<1>2. End(Dropped(w), v).session.installed = {}
  BY <1>1 DEF End
<1> QED
  BY <1>2, MatchesEmpty

LEMMA SubscribeIdempotentMatches ==
    ASSUME NEW w, Ready(w), w.session.installed \subseteq {Probe}
    PROVE  LET x == SubscribeIdempotent(w)
           IN  Matching(x) /\ x.session.installed \subseteq {Probe}
<1> DEFINE v == SkipIf(w, ~w.session.probe_installed)
           a == Take(v, Asking(Subscribe(Probe), {"ok"}, "fail"))
           b == Take(a, Asking(Unsubscribe(Probe), {"ok"}, "fail"))
           c == Take(b, Asking(Unsubscribe(Probe), {}, "running"))
           x == SubscribeIdempotent(w)
           Ok(y) == Matching(y) /\ y.session.installed \subseteq {Probe}
<1>1. x = Emptied(c)
  BY ScriptOfThree DEF SubscribeIdempotent, Must, May
<1>2. Fine(v, w) /\ Held(v, w) /\ (v = w \/ Over(v))
  BY FineIf, HeldIf DEF Ready, Fine, Sound, SkipIf, End, Over
<1> HIDE DEF v
<1>3. Fine(a, w) /\ Fine(b, w) /\ Fine(c, w)
  <2>1. Fine(a, w)
    BY <1>2, TakeFine
  <2> HIDE DEF a
  <2>2. Fine(b, w)
    BY <2>1, TakeFine
  <2> HIDE DEF b
  <2>3. Fine(c, w)
    BY <2>2, TakeFine
  <2> QED
    BY <2>1, <2>2, <2>3
<1>4. Ok(w) /\ Ok(v)
  BY <1>2, HeldMatches DEF Ready, Held
<1>5. CASE Over(v)
  <2>1. a = v
    BY <1>5, TakeOver
  <2>2. b = v
    BY <1>5, <2>1, TakeOver
  <2>3. c = v
    BY <1>5, <2>2, TakeOver
  <2>4. x = v
    BY <1>1, <1>5, <2>3 DEF Emptied
  <2> QED
    BY <1>4, <2>4
<1>6. CASE ~Over(v)
  <2>1. v = w
    BY <1>2, <1>6
  <2>2. /\ a.status \in {"ok", "table_full", "unsupported"}
        /\ a.verdict = IF a.status \in {"ok"} THEN "running" ELSE "fail"
        /\ DOMAIN w.device.table \subseteq DOMAIN a.device.table
        /\ a.status = "ok" => Probe \in DOMAIN a.device.table
        /\ Honest(a.device) /\ Kept(a.device, w.device)
    BY <2>1, Subscribed DEF Ready
  <2>3. Ok(a)
    <3>1. a.session.installed = w.session.installed
      BY <1>3 DEF Fine
    <3> QED
      BY <1>4, <2>2, <3>1, OwnsKept DEF Matching
  <2> HIDE DEF a, x
  <2>4. CASE Over(a)
    <3>1. b = a
      BY <2>4, TakeOver
    <3>2. c = a
      BY <2>4, <3>1, TakeOver
    <3>3. x = a
      BY <1>1, <2>4, <3>2 DEF Emptied
    <3> QED
      BY <2>3, <3>3 DEF x
  <2>5. CASE ~Over(a)
    <3>1. Probe \in DOMAIN a.device.table
      BY <2>2, <2>5 DEF Over
    <3>2. /\ b.status \in {"ok", "unknown_subscription", "unsupported"}
          /\ b.verdict = IF b.status \in {"ok"} THEN "running" ELSE "fail"
          /\ b.status = "unsupported" => DOMAIN b.device.table = DOMAIN a.device.table
          /\ b.status # "unsupported" => DOMAIN b.device.table = DOMAIN a.device.table \ {Probe}
          /\ b.status = "unknown_subscription" => Probe \notin DOMAIN a.device.table
          /\ Honest(b.device) /\ Kept(b.device, a.device)
      BY <1>3, <2>2, <2>5, Unsubscribed
    <3>3. Fine(b, w) /\ Fine(c, w)
      BY <1>3
    <3> HIDE DEF b
    <3>4. CASE Over(b)
      <4>1. c = b
        BY <3>4, TakeOver
      <4>2. x = b
        BY <1>1, <3>4, <4>1 DEF Emptied
      <4>3. DOMAIN b.device.table = DOMAIN a.device.table
        BY <3>1, <3>2, <3>4 DEF Over
      <4>4. a.session.installed = b.session.installed
        BY <1>3, <3>3 DEF Fine
      <4>5. Ok(b)
        BY <2>3, <3>2, <4>3, <4>4, OwnsKept DEF Matching
      <4> QED
        BY <4>2, <4>5 DEF x
    <3>5. CASE ~Over(b)
      <4>1. /\ c.status \in {"ok", "unknown_subscription", "unsupported"}
            /\ c.verdict = IF c.status \in {} THEN "running" ELSE "running"
            /\ Honest(c.device) /\ Kept(c.device, b.device)
        BY <3>2, <3>3, <3>5, Unsubscribed
      <4> HIDE DEF c
      <4>2. ~Over(c)
        BY <4>1 DEF Over
      <4>3. /\ {"session", "verdict", "device"} \subseteq DOMAIN c
            /\ "installed" \in DOMAIN c.session /\ c.session.installed \subseteq {Probe}
        BY <1>4, <3>3 DEF Fine, Sound, Settled
      <4>4. CASE c.status = "ok"
        <5>1. x = End(Dropped(c), "fail")
          BY <1>1, <4>2, <4>4 DEF Emptied
        <5> QED
          BY <4>3, <5>1, DroppedMatches DEF x
      <4>5. CASE c.status # "ok"
        <5> DEFINE e == Take(c, Asking(Subscribe(Probe), {}, "running"))
        <5>1. x = Reinstated(e)
          BY <1>1, <4>2, <4>5, AskTakes DEF Emptied, Ask, May
        <5>2. /\ e.status \in {"ok", "table_full", "unsupported"}
              /\ e.verdict = IF e.status \in {} THEN "running" ELSE "running"
              /\ e.status = "ok" => Probe \in DOMAIN e.device.table /\ Owns(c.device, Subscribe(Probe).op)
              /\ Honest(e.device) /\ Kept(e.device, c.device)
          BY <3>3, <4>1, <4>2, Subscribed
        <5>3. Fine(e, w)
          BY <3>3, TakeFine
        <5> HIDE DEF e
        <5>4. ~Over(e)
          BY <5>2 DEF Over
        <5>5. /\ {"session", "verdict", "device"} \subseteq DOMAIN e
              /\ "installed" \in DOMAIN e.session /\ e.session.installed \subseteq {Probe}
          BY <1>4, <5>3 DEF Fine, Sound, Settled
        <5>6. CASE e.status # "ok"
          <6>1. x = End(Dropped(e), "skip")
            BY <5>1, <5>4, <5>6 DEF Reinstated
          <6> QED
            BY <5>5, <6>1, DroppedMatches DEF x
        <5>7. CASE e.status = "ok"
          <6>1. x = e
            BY <5>1, <5>4, <5>7 DEF Reinstated
          <6>2. Probe \in DOMAIN e.device.table /\ Owns(e.device, Subscribe(Probe).op)
            BY <5>2, <5>7, OwnsKept
          <6> QED
            BY <5>5, <6>1, <6>2, ProbeMatches DEF x
        <5> QED
          BY <5>6, <5>7
      <4> QED
        BY <4>4, <4>5
    <3> QED
      BY <3>4, <3>5
  <2> QED
    BY <2>4, <2>5
<1> QED
  BY <1>5, <1>6

LEMMA HonestStill ==
    ASSUME NEW a, NEW w, Fine(a, w), Honest(w.device)
    PROVE  Honest(a.device) /\ Kept(a.device, w.device)
  BY DEF Fine, Sound, Kept, Honest

LEMMA UnknownSubscriptionMatches ==
    ASSUME NEW w, Ready(w), w.session.installed \subseteq {Probe}
    PROVE  LET x == UnknownSubscription(w)
           IN  Matching(x) /\ x.session.installed \subseteq {Probe}
<1> DEFINE k == [Probe EXCEPT !.mask = "other"]
           S == {"unknown_subscription"}
           x == Take(w, Asking(Unsubscribe(k), S, "fail"))
<1>1. UnknownSubscription(w) = x
  BY AskTakes DEF UnknownSubscription, Expect
<1>2. k # Probe
  BY DEF Probe, Exact
<1> HIDE DEF k, S
<1>3. /\ x.status \in {"ok", "unknown_subscription", "unsupported"}
      /\ x.status = "unsupported" => DOMAIN x.device.table = DOMAIN w.device.table
      /\ x.status # "unsupported" => DOMAIN x.device.table = DOMAIN w.device.table \ {k}
      /\ Kept(x.device, w.device)
  BY Unsubscribed DEF Ready
<1>4. Fine(x, w)
  BY TakeFine DEF Ready
<1> HIDE DEF x
<1>5. x.session.installed = w.session.installed
  BY <1>4 DEF Fine
<1>6. Matching(x)
  BY <1>2, <1>3, <1>5, OwnsKept DEF Matching, Ready
<1> QED
  BY <1>1, <1>5, <1>6

\* What is left of the notes where the table was reset in the check's `finally`.
LEMMA ResetForgets ==
    ASSUME NEW a, NEW u, Fine(a, u), Honest(a.device)
    PROVE  Finally(a, <<Reset>>, "forgotten").session.installed = {}
<1> DEFINE x == [a EXCEPT !.verdict = "running"]
           qs == <<Reset>>
           s == [i \in DOMAIN qs |-> May(qs[i])]
           y == Take(x, May(Reset))
<1>1. Fine(x, u) /\ x.device = a.device /\ ~Over(x)
  BY FineVerdict DEF Fine, Sound, Over, Verdicts
<1>2. s = <<May(Reset)>>
  <2>1. DOMAIN qs = 1..1 /\ qs[1] = Reset
    OBVIOUS
  <2> HIDE DEF qs
  <2>2. s = [i \in 1..1 |-> May(Reset)]
    BY <2>1
  <2> QED
    BY <2>2
<1> HIDE DEF x
<1>3. Script(x, s) = y
  BY <1>2, AskTakes
<1>4. y.verdict = "running"
  BY <1>1, WasReset
<1>5. Fine(y, u)
  BY <1>1, ProperSteps, FineTake DEF Proper
<1>6. Finally(a, qs, "forgotten") = Left(y, a.verdict, "forgotten")
  BY <1>3 DEF Finally, x
<1> HIDE DEF y
<1>7. Left(y, a.verdict, "forgotten") = [Forgotten(y) EXCEPT !.verdict = a.verdict]
  BY <1>4 DEF Left, Over
<1>8. [Forgotten(y) EXCEPT !.verdict = a.verdict].session = Forgotten(y).session
  BY <1>5 DEF Fine, Sound, Forgotten
<1> QED
  BY <1>5, <1>6, <1>7, <1>8, FineForgotten

\* Where nothing was installed, nothing is, whatever a `finally` forgets.
LEMMA NothingForgotten ==
    ASSUME NEW a, NEW u, Fine(a, u), u.session.installed = {},
           NEW qs, NEW n \in Nat, DOMAIN qs = 1..n
    PROVE  Finally(a, qs, "forgotten").session.installed = {}
<1> DEFINE x == [a EXCEPT !.verdict = "running"]
           s == [i \in DOMAIN qs |-> May(qs[i])]
           z == Script(x, s)
<1>1. Fine(x, u)
  BY FineVerdict DEF Verdicts
<1>2. Steps(s)
  BY StepsMay
<1> HIDE DEF x, s
<1>3. Fine(z, u)
  BY <1>1, <1>2, FineScript
<1>4. Finally(a, qs, "forgotten") = Left(z, a.verdict, "forgotten")
  BY DEF Finally, x, s
<1> HIDE DEF z
<1>5. z.session.installed = {} /\ {"session", "verdict"} \subseteq DOMAIN z
  BY <1>3 DEF Fine, Sound
<1>6. Forgotten(z).session.installed = {}
  BY <1>3, FineForgotten
<1>7. [Forgotten(z) EXCEPT !.verdict = a.verdict].session = Forgotten(z).session
  BY <1>5 DEF Forgotten
<1> QED
  BY <1>4, <1>5, <1>6, <1>7 DEF Left

\* The table is within what the checks fill.
LEMMA TableFullMatches ==
    ASSUME NEW w, Ready(w), w.session.capacity.can <= FillLimit
    PROVE  TableFull(w).session.installed = {}
<1> DEFINE n == w.session.capacity.can
           x == Fill(w, Cardinality(w.session.installed), n)
           a == FailIf(x.w, x.refusal # "table_full" \/ x.held # n)
<1>1. n \in Nat /\ FillLimit \in Nat
  BY FillAssumption DEF Ready, Fine, Sound, Settled
<1>2. TableFull(w) = IF n > FillLimit THEN End(w, "skip") ELSE Finally(a, <<Reset>>, "forgotten")
  BY DEF TableFull
<1>3. Fine(x.w, w)
  BY <1>1, FineFill DEF Ready
<1> HIDE DEF x
<1>4. Fine(a, w)
  BY <1>3, FineIf
<1> HIDE DEF a, n
<1>5. Finally(a, <<Reset>>, "forgotten").session.installed = {}
  BY <1>4, HonestStill, ResetForgets DEF Ready
<1>6. ~(n > FillLimit)
  BY <1>1 DEF n
<1> QED
  BY <1>2, <1>5, <1>6

LEMMA UpdateInPlaceMatches ==
    ASSUME NEW w, Ready(w), w.session.capacity.can <= FillLimit
    PROVE  UpdateInPlaceWhenFull(w).session.installed = {}
<1> DEFINE n == w.session.capacity.can
           a == <<May(Reset)>>
           b == Refill(n, "refill")
           c == <<Must(Subscribe(Exact(<<"refill", 1>>)))>>
           x == Script(w, a \o b \o c)
<1>1. n \in Nat /\ FillLimit \in Nat
  BY FillAssumption DEF Ready, Fine, Sound, Settled
<1>2. UpdateInPlaceWhenFull(w) =
        IF n > FillLimit THEN End(w, "skip") ELSE Finally(x, <<Reset>>, "forgotten")
  BY DEF UpdateInPlaceWhenFull
<1>3. Steps(a) /\ Steps(c)
  BY ProperSteps, StepsListed
<1>4. Steps(b)
  BY <1>1, StepsRefill
<1> HIDE DEF a, b, c
<1>5. Fine(x, w)
  BY <1>3, <1>4, StepsAfter, FineScript DEF Ready
<1> HIDE DEF x, n
<1>6. Finally(x, <<Reset>>, "forgotten").session.installed = {}
  BY <1>5, HonestStill, ResetForgets DEF Ready
<1>7. ~(n > FillLimit)
  BY <1>1 DEF n
<1> QED
  BY <1>2, <1>6, <1>7

LEMMA NoRateAdmissionMatches ==
    ASSUME NEW w, Ready(w), w.session.installed = {}
    PROVE  NoRateAdmission(w).session.installed = {}
<1> DEFINE s == <<May(Reset), Must(Subscribe(Catchall))>>
           qs == <<Unsubscribe(Catchall), Reset>>
           x == Script(w, s)
<1>1. Steps(s)
  BY ProperSteps, StepsListed
<1>2. DOMAIN qs = 1..2 /\ 2 \in Nat
  OBVIOUS
<1>3. NoRateAdmission(w) = Finally(x, qs, "forgotten")
  BY DEF NoRateAdmission
<1> HIDE DEF s, qs
<1>4. Fine(x, w)
  BY <1>1, FineScript DEF Ready
<1> HIDE DEF x
<1> QED
  BY <1>2, <1>3, <1>4, NothingForgotten

\* The probe comes and goes.
LEMMA AppliesOnlyMatches ==
    ASSUME NEW w, Ready(w), w.session.installed = {}
    PROVE  AppliesOnlyIfAnswerable(w).session.installed = {}
<1> DEFINE y == Take(w, Asking(Subscribe(Probe), {"ok"}, "skip"))
           a == Install(y, Probe)
           b == Unindicated(a)
           c == Take(b, Asking(Unsubscribe(Probe), {}, "running"))
           x == AppliesOnlyIfAnswerable(w)
<1>1. Script(w, <<Should(Subscribe(Probe))>>) = y
  BY AskTakes DEF Should
<1>2. Fine(y, w)
  BY TakeFine DEF Ready
<1>3. x = Remaining(a, Ask(b, Unsubscribe(Probe)))
  BY <1>1 DEF AppliesOnlyIfAnswerable
<1>4. Ask(b, Unsubscribe(Probe)) = c
  BY AskTakes DEF Ask, May
<1>5. x = Remaining(a, c)
  BY <1>3, <1>4
<1> HIDE DEF x, y
<1>6. CASE Over(y)
  <2>1. a = y
    BY <1>6 DEF Install, Noted
  <2>2. b = y
    BY <1>6, <2>1 DEF Unindicated
  <2>3. c = y
    BY <1>6, <2>2, TakeOver
  <2> HIDE DEF a, b, c
  <2>4. Noted(c, [c.session EXCEPT !.installed =
             IF c.status = "ok" THEN {j \in @ : j.id # Probe.id} ELSE {}]) = y
    BY <1>6, <2>3 DEF Noted
  <2>5. x = y
    BY <1>5, <1>6, <2>4 DEF Remaining, FailIf, ObserveIf, End
  <2> QED
    BY <1>2, <2>5 DEF Fine, x
<1>7. CASE ~Over(y)
  <2>1. Sound(a, w)
    BY <1>2, SoundInstall DEF Fine
  <2>2. {"session", "verdict", "device"} \subseteq DOMAIN y /\ y.session.installed = {}
        /\ "installed" \in DOMAIN y.session
    BY <1>2 DEF Fine, Sound, Settled
  <2>3. a.session = [y.session EXCEPT !.installed = Listed(y, Probe)] /\ a.device = y.device
        /\ ~Over(a)
    BY <1>7, <2>2, NotOver DEF Install
  <2>4. Listed(y, Probe) = {Probe}
    BY <2>2 DEF Listed
  <2>5. a.session.installed = {Probe}
    BY <2>2, <2>3, <2>4
  <2> HIDE DEF a
  <2>6. Honest(a.device)
    BY <1>2, <2>3, HonestStill DEF Ready
  <2>7. Fine(b, a) /\ Honest(b.device) /\ ~Over(b)
    <3> DEFINE h == Handle(a.device, Reset).device
               e == [a EXCEPT !.device = h]
    <3>1. Fine(a, a)
      BY <2>1, SoundItself
    <3>2. Kept(h, a.device)
      BY <2>6, HandleKeeps DEF Honest
    <3>3. Honest(h)
      BY <2>6, <3>2 DEF Honest, Kept
    <3> HIDE DEF h
    <3>4. Fine(e, a) /\ Honest(e.device) /\ ~Over(e)
      BY <2>3, <3>1, <3>2, <3>3 DEF Fine, Sound, Over
    <3>5. b = IF a.device.unanswerable # "held" THEN a ELSE e
      BY <2>3 DEF Unindicated, h
    <3> QED
      BY <2>3, <2>6, <3>1, <3>4, <3>5
  <2> HIDE DEF b
  <2>8. c.verdict = IF c.status \in {} THEN "running" ELSE "running"
    BY <2>7, Unsubscribed
  <2>9. Fine(c, a)
    BY <2>7, TakeFine
  <2> HIDE DEF c
  <2> DEFINE S == IF c.status = "ok" THEN {j \in c.session.installed : j.id # Probe.id} ELSE {}
             d == Noted(c, [c.session EXCEPT !.installed = S])
             e == ObserveIf(d, a.device.unanswerable = "refused")
             f == FailIf(ObserveIf(e, a.device.unanswerable = "held"), TRUE)
  <2>10. x = IF c.status = "ok" THEN e ELSE f
    BY <1>5 DEF Remaining
  <2>11. S = {}
    BY <2>5, <2>9 DEF Fine
  <2> HIDE DEF S
  <2>12. d.session.installed = {} /\ {"session", "verdict", "device"} \subseteq DOMAIN d
    <3>1. ~Over(c) /\ {"session", "verdict", "device"} \subseteq DOMAIN c
          /\ "installed" \in DOMAIN c.session
      BY <2>8, <2>9 DEF Over, Fine, Sound, Settled
    <3>2. d.session = [c.session EXCEPT !.installed = S]
          /\ {"session", "verdict", "device"} \subseteq DOMAIN d
      BY <3>1, NotOver
    <3> QED
      BY <2>11, <3>1, <3>2
  <2> HIDE DEF d
  <2>13. e.session.installed = {} /\ f.session.installed = {}
    BY <2>12 DEF FailIf, ObserveIf, End
  <2> HIDE DEF e, f
  <2> QED
    BY <2>10, <2>13 DEF x
<1> QED
  BY <1>6, <1>7

-----------------------------------------------------------------------------
(* The subscription that the observation is made with *)

LEMMA ObserveAllMatches ==
    ASSUME NEW w, Ready(w), w.session.installed = {}
    PROVE  Matching(ObserveAll(w))
<1> DEFINE v == SkipIf(w, "masked_subscriptions" \notin w.session.caps)
           y == Take(v, Asking(Subscribe(Catchall), {"ok"}, "warn"))
           m == [y.session EXCEPT !.installed = {Catchall}, !.catch_all = TRUE]
           x == Noted(y, m)
<1>1. ObserveAll(w) = x
  BY AskTakes DEF ObserveAll
<1>2. Fine(v, w) /\ Held(v, w) /\ (v = w \/ Over(v))
  <2> DEFINE c == "masked_subscriptions" \notin w.session.caps
  <2>1. Fine(w, w) /\ {"device", "session", "verdict"} \subseteq DOMAIN w
    BY DEF Ready, Fine, Sound
  <2> HIDE DEF c
  <2>2. Fine(SkipIf(w, c), w) /\ Held(SkipIf(w, c), w)
    BY <2>1, FineIf, HeldIf
  <2>3. SkipIf(w, c) = w \/ Over(SkipIf(w, c))
    BY <2>1 DEF SkipIf, End, Over
  <2> QED
    BY <2>2, <2>3 DEF c
<1> HIDE DEF v
<1>3. Fine(y, w)
  BY <1>2, TakeFine
<1>4. CASE Over(v)
  <2>1. y = v
    BY <1>4, TakeOver
  <2> HIDE DEF y
  <2>2. x = v
    BY <1>4, <2>1 DEF Noted
  <2>3. v.session.installed = {}
    BY <1>2 DEF Held
  <2> QED
    BY <1>1, <2>2, <2>3, MatchesEmpty
<1>5. CASE ~Over(v)
  <2>1. v = w
    BY <1>2, <1>5
  <2>2. /\ y.status \in {"ok", "table_full", "unsupported"}
        /\ y.verdict = IF y.status \in {"ok"} THEN "running" ELSE "warn"
        /\ y.status = "ok" => Catchall \in DOMAIN y.device.table /\ Owns(w.device, Subscribe(Catchall).op)
        /\ Kept(y.device, w.device)
    BY <2>1, Subscribed DEF Ready
  <2> HIDE DEF y
  <2>3. CASE Over(y)
    <3>1. x = y
      BY <2>3 DEF Noted
    <3>2. y.session.installed = {}
      BY <1>3 DEF Fine
    <3> QED
      BY <1>1, <3>1, <3>2, MatchesEmpty
  <2>4. CASE ~Over(y)
    <3>1. Catchall \in DOMAIN y.device.table /\ Owns(w.device, Subscribe(Catchall).op)
      BY <2>2, <2>4 DEF Over
    <3>2. x.session = m /\ x.device = y.device
      BY <1>3, <2>4, NotOver DEF Fine, Sound
    <3>3. m.installed = {Catchall}
      BY <1>3 DEF Fine, Sound, Settled
    <3> HIDE DEF m, x
    <3>4. Matching(x)
      BY <2>2, <3>1, <3>2, <3>3, OwnsKept DEF Matching
    <3> QED
      BY <1>1, <3>4
  <2> QED
    BY <2>3, <2>4
<1> QED
  BY <1>4, <1>5

LEMMA ObserveNamedMatches ==
    ASSUME NEW w, Ready(w)
    PROVE  Matching(ObserveNamed(w))
<1> DEFINE named == SetToSeq(w.session.can_ids)
           n == Cardinality(w.session.can_ids)
           s == [i \in DOMAIN named |-> May(Subscribe(named[i]))]
           told == Course(w, s)
           last == told[Len(named)]
           taken == {named[i] : i \in {i \in DOMAIN named : told[i].status = "ok"}}
           m == [last.session EXCEPT !.installed = taken, !.catch_all = FALSE]
           x == Noted(last, m)
<1>1. ObserveNamed(w) = WarnIf(x, taken = {})
  BY DEF ObserveNamed, NamedAll
<1>2. /\ Len(named) = n /\ n \in Nat /\ DOMAIN named = 1..n
  <2>1. named \in Seq(w.session.can_ids) /\ Len(named) = n /\ n \in Nat
    BY Listing DEF Ready, Fine, Sound, Settled
  <2> QED
    BY <2>1
<1>3. Steps(s) /\ Len(s) = n
  BY <1>2, StepsNamed
<1>4. \A i \in 1..n : s[i] = May(Subscribe(named[i]))
  BY <1>2
<1> HIDE DEF named, n, s
<1>5. \A i \in 0..n : Fine(told[i], w)
  BY <1>2, <1>3, FineCourse DEF Ready
<1>6. told[0] = w /\ \A i \in 1..n : told[i] = Take(told[i - 1], s[i])
  BY <1>2, <1>3, CourseWalks DEF Walk
<1> HIDE DEF told
<1> DEFINE Good(i) ==
             /\ ~Over(told[i]) /\ Honest(told[i].device) /\ Kept(told[i].device, w.device)
             /\ \A j \in 1..i : told[j].status = "ok" =>
                    named[j] \in DOMAIN told[i].device.table /\ Owns(w.device, Subscribe(named[j]).op)
           R == {i \in 0..n : Good(i)}
<1>7. 0 \in R
  <2>1. Good(0)
    BY <1>6, KeptItself DEF Ready, Honest
  <2> QED
    BY <1>2, <2>1
<1>8. ASSUME NEW i \in 1..n, i - 1 \in R PROVE i \in R
  <2>1. /\ ~Over(told[i - 1]) /\ Honest(told[i - 1].device) /\ Kept(told[i - 1].device, w.device)
        /\ \A j \in 1..(i - 1) : told[j].status = "ok" =>
               named[j] \in DOMAIN told[i - 1].device.table /\ Owns(w.device, Subscribe(named[j]).op)
    BY <1>8
  <2> HIDE DEF R
  <2>2. i \in Nat /\ 1 <= i /\ i <= n /\ i - 1 \in 0..n
    BY <1>2
  <2> DEFINE y == Take(told[i - 1], Asking(Subscribe(named[i]), {}, "running"))
  <2>3. told[i] = y
    BY <1>4, <1>6 DEF May
  <2>4. Fine(told[i - 1], w)
    BY <1>5, <2>2
  <2>5. /\ y.verdict = IF y.status \in {} THEN "running" ELSE "running"
        /\ DOMAIN told[i - 1].device.table \subseteq DOMAIN y.device.table
        /\ y.status = "ok" =>
               named[i] \in DOMAIN y.device.table /\ Owns(told[i - 1].device, Subscribe(named[i]).op)
        /\ Honest(y.device) /\ Kept(y.device, told[i - 1].device)
    BY <2>1, <2>4, Subscribed
  <2> HIDE DEF y
  <2>6. ~Over(y) /\ Honest(y.device) /\ Kept(y.device, w.device)
    BY <2>1, <2>5, KeptThrough DEF Over
  <2>7. \A j \in 1..i : told[j].status = "ok" =>
            named[j] \in DOMAIN y.device.table /\ Owns(w.device, Subscribe(named[j]).op)
    <3> SUFFICES ASSUME NEW j \in 1..i, told[j].status = "ok"
                 PROVE  named[j] \in DOMAIN y.device.table /\ Owns(w.device, Subscribe(named[j]).op)
      OBVIOUS
    <3>1. CASE j = i
      BY <2>1, <2>3, <2>5, <3>1, OwnsKept
    <3>2. CASE j # i
      <4>1. j \in 1..(i - 1)
        BY <2>2, <3>2
      <4> QED
        BY <2>1, <2>5, <4>1
    <3> QED
      BY <3>1, <3>2
  <2>8. Good(i)
    BY <2>3, <2>6, <2>7
  <2> QED
    BY <2>2, <2>8 DEF R
<1>9. Good(n)
  <2> HIDE DEF R
  <2>1. \A i \in 0..n : i \in R
    BY <1>2, <1>7, <1>8, UpTo
  <2>2. n \in R
    BY <1>2, <2>1
  <2> QED
    BY <2>2 DEF R
<1>10. last = told[n] /\ Fine(last, w)
  BY <1>2, <1>5
<1>11. taken \subseteq DOMAIN last.device.table /\ \A k \in taken : Owns(last.device, Subscribe(k).op)
  <2>1. \A i \in 1..n : told[i].status = "ok" =>
            named[i] \in DOMAIN last.device.table /\ Owns(last.device, Subscribe(named[i]).op)
    BY <1>9, <1>10, OwnsKept
  <2> HIDE DEF last
  <2> QED
    BY <1>2, <2>1
<1>12. ~Over(last)
  BY <1>9, <1>10
<1> HIDE DEF last, taken
<1>13. x.session = m /\ x.device = last.device /\ {"session", "verdict", "device"} \subseteq DOMAIN x
  BY <1>10, <1>12, NotOver DEF Fine, Sound
<1>14. m.installed = taken
  BY <1>10 DEF Fine, Sound, Settled
<1> HIDE DEF x, m
<1>15. Matching(x)
  BY <1>11, <1>13, <1>14 DEF Matching
<1> QED
  BY <1>1, <1>13, <1>15, HeldIf, HeldMatches

LEMMA ObservationMatches ==
    ASSUME NEW w, Ready(w), w.session.installed = {}
    PROVE  Matching(Observation(w))
<1> DEFINE a == IF w.session.can_ids # {} THEN ObserveNamed(w) ELSE ObserveAll(w)
<1>1. Matching(a)
  BY ObserveAllMatches, ObserveNamedMatches
<1>2. Observation(w) = ObserveIf(a, TRUE)
  BY DEF Observation
<1> HIDE DEF a
<1>3. ObserveIf(a, TRUE).session = a.session /\ ObserveIf(a, TRUE).device = a.device
  BY DEF ObserveIf, End
<1> QED
  BY <1>1, <1>2, <1>3 DEF Matching

-----------------------------------------------------------------------------
(* The checks of the streams leave the notes as they are, and the table with them *)

Same(v, w) == Held(v, w) /\ {"device", "session", "verdict"} \subseteq DOMAIN v

LEMMA SameIf ==
    ASSUME NEW v, NEW w, Same(v, w), NEW c, NEW x
    PROVE  /\ Same(End(v, x), w) /\ Same(FailIf(v, c), w) /\ Same(SkipIf(v, c), w)
           /\ Same(ObserveIf(v, c), w)
<1>1. ASSUME NEW y PROVE Same(End(v, y), w)
  BY DEF End, Same, Held
<1> QED
  BY <1>1 DEF FailIf, SkipIf, ObserveIf

LEMMA SameMatches ==
    ASSUME NEW v, NEW w, Same(v, w), Matching(w)
    PROVE  Matching(v)
  BY DEF Same, Held, Matching

LEMMA LogsMatch ==
    ASSUME NEW w, Ready(w), NEW stream
    PROVE  /\ Matching(Decodes(w, stream)) /\ Matching(AbsentFieldsZero(w))
           /\ Matching(SolutionScopedBits(w)) /\ Matching(SeqFirstIsZero(w))
           /\ Matching(SeqAdvances(w)) /\ Matching(ClockMonotonic(w)) /\ Matching(OneClock(w))
           /\ Matching(OneRate(w)) /\ Matching(MatchesSubscription(w))
           /\ Matching(NoUnprovokedBusy(w))
<1>1. Same(w, w) /\ Matching(w)
  BY DEF Ready, Fine, Sound, Same, Held
<1>2. ASSUME NEW c, NEW d
      PROVE  /\ Matching(FailIf(w, d)) /\ Matching(FailIf(SkipIf(w, c), d))
             /\ Matching(ObserveIf(FailIf(SkipIf(w, c), d), TRUE))
  <2>1. Same(FailIf(w, d), w) /\ Same(SkipIf(w, c), w)
    BY <1>1, SameIf
  <2>2. Same(FailIf(SkipIf(w, c), d), w)
    BY <2>1, SameIf
  <2>3. Same(ObserveIf(FailIf(SkipIf(w, c), d), TRUE), w)
    BY <2>2, SameIf
  <2> QED
    BY <1>1, <2>1, <2>2, <2>3, SameMatches
<1>3. Matching(Decodes(w, stream))
  BY <1>2 DEF Decodes
<1>4. Matching(AbsentFieldsZero(w)) /\ Matching(NoUnprovokedBusy(w))
  BY <1>2 DEF AbsentFieldsZero, NoUnprovokedBusy
<1>5. Matching(SolutionScopedBits(w))
  BY <1>2 DEF SolutionScopedBits
<1>6. Matching(SeqFirstIsZero(w)) /\ Matching(SeqAdvances(w))
  BY <1>2 DEF SeqFirstIsZero, SeqAdvances
<1>7. Matching(ClockMonotonic(w))
  BY <1>2 DEF ClockMonotonic
<1>8. Matching(OneClock(w)) /\ Matching(OneRate(w))
  <2> DEFINE s == SkipIf(w, Cardinality(Present(w)) < 2)
  <2>1. Same(s, w)
    BY <1>1, SameIf
  <2> HIDE DEF s
  <2>2. Same(End(s, "fail"), w)
    BY <2>1, SameIf
  <2>3. Matching(OneClock(w))
    <3> DEFINE a == FailIf(s, Apart(w, "offset", 1000))
    <3>1. Same(a, w)
      BY <2>1, <2>2 DEF FailIf
    <3>2. OneClock(w) = ObserveIf(a, TRUE)
      BY DEF OneClock, s
    <3> HIDE DEF a
    <3>3. Same(ObserveIf(a, TRUE), w)
      BY <3>1, SameIf
    <3> QED
      BY <1>1, <3>2, <3>3, SameMatches
  <2>4. Matching(OneRate(w))
    <3> DEFINE a == FailIf(s, Apart(w, "ppm", 10000))
    <3>1. Same(a, w)
      BY <2>1, <2>2 DEF FailIf
    <3>2. OneRate(w) = ObserveIf(a, TRUE)
      BY DEF OneRate, s
    <3> HIDE DEF a
    <3>3. Same(ObserveIf(a, TRUE), w)
      BY <3>1, SameIf
    <3> QED
      BY <1>1, <3>2, <3>3, SameMatches
  <2> QED
    BY <2>3, <2>4
<1>9. Matching(MatchesSubscription(w))
  BY <1>2 DEF MatchesSubscription
<1> QED
  BY <1>3, <1>4, <1>5, <1>6, <1>7, <1>8, <1>9

\* What is installed is no more than the table holds, so that all of it goes back.
LEMMA RegainedMatches ==
    ASSUME NEW w, Ready(w), "can" \in w.device.caps, NEW x, Regained(x, w, w)
    PROVE  Matching(x)
<1>1. ASSUME NEW a, Fine(a, w) PROVE Matching(Restored(a))
  <2>1. Honest(a.device) /\ Kept(a.device, w.device)
    BY <1>1, HonestStill DEF Ready
  <2>2. "can" \in a.device.caps /\ a.device.slots = w.device.slots
    BY <2>1 DEF Kept
  <2>3. a.session.installed = w.session.installed
    BY <1>1 DEF Fine
  <2>4. \A k \in a.session.installed : Owns(a.device, Subscribe(k).op)
    BY <2>1, <2>3, OwnsKept DEF Ready, Matching
  <2>5. Cardinality(a.session.installed) <= a.device.slots
    <3>1. IsFiniteSet(DOMAIN w.device.table) /\ Used(w.device) <= w.device.slots
          /\ w.device.slots \in Nat
      BY DEF Ready, Honest, Steady
    <3>2. /\ IsFiniteSet(w.session.installed)
          /\ Cardinality(w.session.installed) <= Cardinality(DOMAIN w.device.table)
      BY <3>1, FS_Subset DEF Ready, Matching
    <3>3. Cardinality(w.session.installed) \in Nat /\ Cardinality(DOMAIN w.device.table) \in Nat
      BY <3>1, <3>2, FS_CardinalityType
    <3> QED
      BY <2>2, <2>3, <3>1, <3>2, <3>3 DEF Used
  <2> QED
    BY <1>1, <2>1, <2>2, <2>4, <2>5, RestoredMatches
<1>2. Matching(End(w, "skip"))
  BY DEF End, Ready, Matching, Over, Fine, Sound
<1> QED
  BY <1>1, <1>2 DEF Regained

LEMMA ForwardedOnceMatches ==
    ASSUME NEW w, Ready(w)
    PROVE  Matching(ForwardedOnce(w))
<1> DEFINE a == Take(w, Asking(Subscribe(Low(Target(w))), {"ok"}, "skip"))
           b == Listen(a)
           c == Has(a.device, "can_duplicate_across_batches") /\ Flowing(a.device) # {}
           d == FailIf(b, c)
<1>1. ForwardedOnce(w) = IF Broadcast(w) = {} THEN End(w, "skip") ELSE d
  BY AskTakes DEF ForwardedOnce, Duplicated, Should
<1>2. Fine(a, w)
  BY TakeFine DEF Ready
<1>3. /\ DOMAIN w.device.table \subseteq DOMAIN a.device.table
      /\ Kept(a.device, w.device)
  BY Subscribed DEF Ready
<1> HIDE DEF a
<1>4. DOMAIN b.device.table = DOMAIN a.device.table /\ Kept(b.device, a.device)
  <2>1. Steady(a.device)
    BY <1>3 DEF Kept
  <2>2. Kept(a.device, a.device)
    BY <2>1, KeptItself
  <2>3. CASE Over(a)
    BY <2>2, <2>3 DEF Listen
  <2>4. CASE ~Over(a)
    <3> DEFINE v == Watched(a.device)
               h == a.session.heard \cup Flowing(a.device)
    <3>1. b = [a EXCEPT !.session.heard = h, !.device = v]
      BY <2>4 DEF Listen
    <3>2. Kept(v, a.device) /\ DOMAIN v.table = DOMAIN a.device.table
      BY <2>1, WatchedKeeps
    <3> HIDE DEF v, h, b
    <3>3. b.device = v
      BY <1>2, <3>1 DEF Fine, Sound
    <3> QED
      BY <3>2, <3>3
  <2> QED
    BY <2>3, <2>4
<1>5. Fine(b, w)
  BY <1>2, FineListen
<1> HIDE DEF b, c
<1>6. Matching(b)
  <2>1. b.session.installed = w.session.installed
    BY <1>5 DEF Fine
  <2>2. \A op : Owns(b.device, op) <=> Owns(w.device, op)
    BY <1>3, <1>4, KeptThrough, OwnsKept
  <2> QED
    BY <1>3, <1>4, <2>1, <2>2 DEF Ready, Matching
<1>7. Same(b, b) /\ Same(w, w) /\ Matching(w)
  BY <1>5 DEF Same, Held, Ready, Fine, Sound
<1>8. Matching(d) /\ Matching(End(w, "skip"))
  BY <1>6, <1>7, SameIf, SameMatches
<1> QED
  BY <1>1, <1>8

LEMMA MostSpecificMatches ==
    ASSUME NEW w, Ready(w), "can" \in w.device.caps
    PROVE  Matching(MostSpecificGoverns(w))
<1> DEFINE t == Target(w)
           s == <<May(Reset), Should(Subscribe(Exact(t))), Alive(t),
                  Should(Periodic(Low(t), Slow)), Streaming(t)>>
           c == Restored(Script(w, s))
           m == [c.session EXCEPT !.baseline = TRUE]
           x == Noted(c, m)
<1>1. MostSpecificGoverns(w) = IF Broadcast(w) = {} THEN End(w, "skip") ELSE x
  BY DEF MostSpecificGoverns
<1>2. Steps(s)
  BY ProperSteps, ProperWindows, StepsListed
<1> HIDE DEF s
<1>3. Fine(Script(w, s), w)
  BY <1>2, FineScript DEF Ready
<1>4. Fine(c, w) /\ Matching(c)
  BY <1>3, FineRestored, RegainedMatches DEF Regained
<1> HIDE DEF c
<1>5. x.session.installed = c.session.installed /\ x.device = c.device
  <2>1. m.installed = c.session.installed
    BY <1>4 DEF Fine, Sound, Settled
  <2> HIDE DEF m
  <2> QED
    BY <1>4, <2>1 DEF Noted, Fine, Sound
<1>6. Matching(End(w, "skip"))
  BY DEF End, Ready, Matching, Over, Fine, Sound
<1> HIDE DEF x
<1>7. Matching(x)
  BY <1>4, <1>5 DEF Matching
<1> QED
  BY <1>1, <1>6, <1>7

StreamIds == {"gps.decodes",
              "can.decodes", "imu.decodes", "gps.absent_fields_zero",
              "gps.solution_scoped_bits", "seq.first_is_zero", "seq.advances",
              "clock.monotonic", "clock.one_clock", "clock.one_rate",
              "can.matches_subscription", "can.forwarded_once", "can.most_specific_governs",
              "can.earliest_installed_governs", "can.periodic_first_then_rations",
              "can.identical_reinstall_costs_nothing", "can.changed_reinstall_rearms",
              "can.displaced_schedule_survives", "can.dropped_excludes_declined",
              "can.format_bit_is_identity"}

LEMMA StreamIdsOf ==
    ASSUME NEW id, In(id, StreamRegistry)
    PROVE  id \in StreamIds
  BY DEF In, StreamRegistry, Check, StreamIds

LEMMA StreamsMatch ==
    ASSUME NEW w, Ready(w), w.session.installed # {} => "can" \in w.device.caps,
           NEW id, In(id, StreamRegistry)
    PROVE  Matching(StreamCheck(id, w))
<1>1. id \in StreamIds
  BY StreamIdsOf
<1>2. Fine(w, w)
  BY DEF Ready
<1>3. CASE w.session.installed = {}
  <2>1. Fine(StreamCheck(id, w), w)
    BY <1>1, <1>2, SoundStreamCheck DEF Disturbing, StreamIds
  <2>2. StreamCheck(id, w).session.installed = {}
    BY <1>3, <2>1 DEF Fine
  <2> QED
    BY <2>2, MatchesEmpty
<1>4. CASE w.session.installed # {}
  <2>1. \A x : Regained(x, w, w) => Matching(x)
    BY <1>4, RegainedMatches
  <2>2. /\ Matching(EarliestInstalledGoverns(w)) /\ Matching(PeriodicFirstThenRations(w))
        /\ Matching(IdenticalReinstall(w)) /\ Matching(ChangedReinstall(w))
        /\ Matching(FormatBitIsIdentity(w)) /\ Matching(DisplacedScheduleSurvives(w))
        /\ Matching(DroppedExcludesDeclined(w))
    BY <1>2, <2>1, FineGoverned, RegainedScheduled, RegainedShedding
  <2>3. Matching(ForwardedOnce(w)) /\ Matching(MostSpecificGoverns(w))
    BY <1>4, ForwardedOnceMatches, MostSpecificMatches
  <2> QED
    BY <1>1, <2>2, <2>3, LogsMatch DEF StreamCheck, StreamIds
<1> QED
  BY <1>3, <1>4

-----------------------------------------------------------------------------
(* Which check stands where in the registry *)

LEMMA Stands ==
    ASSUME NEW n \in Nat, NEW r, Lists(r, n), NEW j \in 1..n
    PROVE  In(r[j].id, r)
<1>1. Len(r) = n
  BY ListsLength
<1> QED
  BY <1>1 DEF In

LEMMA Placement ==
    ASSUME NEW i \in 1..92
    PROVE  /\ i \in 1..14 =>
                  In(Registry[i].id, ProfileRegistry) \/ In(Registry[i].id, Silent)
           /\ i \in 15..36 => Registry[i] = ControlRegistry[i - 14]
           /\ i \in 37..70 => \/ In(Registry[i].id, PowerRegistry)
                              \/ In(Registry[i].id, ObdRegistry)
                              \/ In(Registry[i].id, ClientRegistry)
           /\ i = 71 => Registry[i] = ObserveRegistry[1]
           /\ i \in 72..91 => In(Registry[i].id, StreamRegistry)
           /\ i = 92 => Registry[i] = Unprovoked[1]
<1>1. /\ 1 \in Nat /\ 2 \in Nat /\ 5 \in Nat /\ 13 \in Nat /\ 14 \in Nat /\ 15 \in Nat
      /\ 20 \in Nat /\ 21 \in Nat /\ 22 \in Nat /\ 36 \in Nat /\ 41 \in Nat /\ 55 \in Nat
      /\ 70 \in Nat /\ 71 \in Nat /\ 92 \in Nat
  OBVIOUS
<1>2. /\ Spliced(Registry, Interrogation, 92, ReconnectRegistry, 2)
      /\ Spliced(Interrogation, BeforeCollection, 71, AfterCollection, 21)
  BY <1>1, Phases, Registries, Joined
<1>3. /\ Spliced(BeforeCollection, Upto6, 70, ObserveRegistry, 1)
      /\ Spliced(AfterCollection, StreamRegistry, 20, Unprovoked, 1)
  BY <1>1, Phases, Registries, Joined
<1>4. /\ Spliced(Upto6, Upto5, 55, ClientRegistry, 15)
      /\ Spliced(Upto5, Upto4, 41, ObdRegistry, 14)
  BY <1>1, Phases, Registries, Joined DEF Upto6, Upto5
<1>5. /\ Spliced(Upto4, Upto3, 36, PowerRegistry, 5)
      /\ Spliced(Upto3, Upto2, 14, ControlRegistry, 22)
  BY <1>1, Phases, Registries, Joined DEF Upto4, Upto3
<1>6. Spliced(Upto2, ProfileRegistry, 13, Silent, 1)
  BY <1>1, Registries, Joined DEF Upto2
<1>7. Registry[i] = Interrogation[i]
  BY <1>2 DEF Spliced
<1>8. i \in 1..71 => Registry[i] = BeforeCollection[i]
  BY <1>2, <1>7 DEF Spliced
<1>9. i \in 72..92 => Registry[i] = AfterCollection[i - 71]
  BY <1>2, <1>7 DEF Spliced
<1>10. i \in 1..70 => Registry[i] = Upto6[i]
  BY <1>3, <1>8 DEF Spliced
<1>11. i \in 1..55 => Registry[i] = Upto5[i]
  BY <1>4, <1>10 DEF Spliced
<1>12. i \in 1..41 => Registry[i] = Upto4[i]
  BY <1>4, <1>11 DEF Spliced
<1>13. i \in 1..36 => Registry[i] = Upto3[i]
  BY <1>5, <1>12 DEF Spliced
<1>14. i \in 1..14 => Registry[i] = Upto2[i]
  BY <1>5, <1>13 DEF Spliced
<1>15. i \in 1..14 => In(Registry[i].id, ProfileRegistry) \/ In(Registry[i].id, Silent)
  <2>1. i \in 1..13 => Registry[i] = ProfileRegistry[i]
    BY <1>6, <1>14 DEF Spliced
  <2>2. i = 14 => Registry[i] = Silent[1]
    BY <1>6, <1>14 DEF Spliced
  <2>3. i \in 1..13 => In(ProfileRegistry[i].id, ProfileRegistry)
    BY <1>1, Registries, Stands
  <2>4. 1 \in 1..1
    OBVIOUS
  <2>5. In(Silent[1].id, Silent)
    BY <1>1, <2>4, Registries, Stands
  <2>6. i \in 1..14 => i \in 1..13 \/ i = 14
    OBVIOUS
  <2> QED
    BY <2>1, <2>2, <2>3, <2>5, <2>6
<1>16. i \in 15..36 => Registry[i] = ControlRegistry[i - 14]
  BY <1>5, <1>13 DEF Spliced
<1>17. i \in 37..41 => In(Registry[i].id, PowerRegistry)
  <2> SUFFICES ASSUME i \in 37..41 PROVE In(Registry[i].id, PowerRegistry)
    OBVIOUS
  <2>1. Registry[i] = PowerRegistry[i - 36] /\ i - 36 \in 1..5
    BY <1>5, <1>12 DEF Spliced
  <2>2. In(PowerRegistry[i - 36].id, PowerRegistry)
    BY <1>1, <2>1, Registries, Stands
  <2> QED
    BY <2>1, <2>2
<1>18. i \in 42..55 => In(Registry[i].id, ObdRegistry)
  <2> SUFFICES ASSUME i \in 42..55 PROVE In(Registry[i].id, ObdRegistry)
    OBVIOUS
  <2>1. Registry[i] = ObdRegistry[i - 41] /\ i - 41 \in 1..14
    BY <1>4, <1>11 DEF Spliced
  <2>2. In(ObdRegistry[i - 41].id, ObdRegistry)
    BY <1>1, <2>1, Registries, Stands
  <2> QED
    BY <2>1, <2>2
<1>19. i \in 56..70 => In(Registry[i].id, ClientRegistry)
  <2> SUFFICES ASSUME i \in 56..70 PROVE In(Registry[i].id, ClientRegistry)
    OBVIOUS
  <2>1. Registry[i] = ClientRegistry[i - 55] /\ i - 55 \in 1..15
    BY <1>4, <1>10 DEF Spliced
  <2>2. In(ClientRegistry[i - 55].id, ClientRegistry)
    BY <1>1, <2>1, Registries, Stands
  <2> QED
    BY <2>1, <2>2
<1>20. i = 71 => Registry[i] = ObserveRegistry[1]
  BY <1>3, <1>8 DEF Spliced
<1>21. i \in 72..91 => In(Registry[i].id, StreamRegistry)
  <2> SUFFICES ASSUME i \in 72..91 PROVE In(Registry[i].id, StreamRegistry)
    OBVIOUS
  <2>1. Registry[i] = StreamRegistry[i - 71] /\ i - 71 \in 1..20
    BY <1>3, <1>9 DEF Spliced
  <2>2. In(StreamRegistry[i - 71].id, StreamRegistry)
    BY <1>1, <2>1, Registries, Stands
  <2> QED
    BY <2>1, <2>2
<1>22. i = 92 => Registry[i] = Unprovoked[1]
  BY <1>3, <1>9 DEF Spliced
<1>23. i \in 37..70 => i \in 37..41 \/ i \in 42..55 \/ i \in 56..70
  OBVIOUS
<1> QED
  BY <1>15, <1>16, <1>17, <1>18, <1>19, <1>20, <1>21, <1>22, <1>23

\* The checks of the subscriptions, by their place among the control checks.
LEMMA ControlPlaces ==
    ASSUME NEW j \in 1..22
    PROVE  /\ ControlRegistry[j].id \in Disturbing =>
                  j \in {9, 10, 12, 13, 17, 18}
           /\ In(ControlRegistry[j].id, ControlRegistry)
           /\ j = 9 => ControlRegistry[j].id = "can.subscribe_ok"
           /\ j = 10 => ControlRegistry[j].id = "can.subscribe_idempotent"
           /\ j = 11 => ControlRegistry[j].id = "can.unknown_subscription"
           /\ j = 12 => ControlRegistry[j].id = "can.table_full"
           /\ j = 13 => ControlRegistry[j].id = "can.update_in_place_when_full"
           /\ j = 17 => ControlRegistry[j].id = "can.no_rate_admission"
           /\ j = 18 => ControlRegistry[j].id = "control.applies_only_if_answerable"
           /\ j \in {9, 10, 11, 12, 13, 18} => ControlRegistry[j].requires = Can
           /\ j = 13 => ControlRegistry[j].adversarial = FALSE
<1>1. In(ControlRegistry[j].id, ControlRegistry)
  <2>1. 22 \in Nat
    OBVIOUS
  <2> QED
    BY <2>1, Registries, Stands
<1>2. ControlRegistry[j].id \in Disturbing => j \in {9, 10, 12, 13, 17, 18}
  <2> SUFFICES ASSUME j \notin {9, 10, 12, 13, 17, 18}
               PROVE  ControlRegistry[j].id \notin Disturbing
    OBVIOUS
  <2>1. j \in {1, 2, 3, 4, 5, 6, 7, 8, 11, 14, 15, 16, 19, 20, 21, 22}
    OBVIOUS
  <2> QED
    BY <2>1 DEF ControlRegistry, Check, Disturbing
<1>3. /\ j = 9 => ControlRegistry[j].id = "can.subscribe_ok"
      /\ j = 10 => ControlRegistry[j].id = "can.subscribe_idempotent"
      /\ j = 11 => ControlRegistry[j].id = "can.unknown_subscription"
      /\ j = 12 => ControlRegistry[j].id = "can.table_full"
      /\ j = 13 => ControlRegistry[j].id = "can.update_in_place_when_full"
      /\ j = 17 => ControlRegistry[j].id = "can.no_rate_admission"
      /\ j = 18 => ControlRegistry[j].id = "control.applies_only_if_answerable"
  BY DEF ControlRegistry, Check
<1>4. /\ j \in {9, 10, 11, 12, 13, 18} => ControlRegistry[j].requires = Can
      /\ j = 13 => ControlRegistry[j].adversarial = FALSE
  BY DEF ControlRegistry, Check
<1> QED
  BY <1>1, <1>2, <1>3, <1>4

\* The checks of the other phases leave what is installed alone.
LEMMA Elsewheres ==
    ASSUME NEW id, \/ In(id, ProfileRegistry) \/ In(id, Silent) \/ In(id, PowerRegistry)
                   \/ In(id, ObdRegistry) \/ In(id, ClientRegistry) \/ In(id, StreamRegistry)
    PROVE  id \notin Disturbing
<1>1. In(id, ProfileRegistry) \/ In(id, Silent) \/ In(id, PowerRegistry) => id \notin Disturbing
  <2>1. ASSUME NEW d \in Disturbing PROVE ~In(d, ProfileRegistry)
    BY DEF In, ProfileRegistry, Check, Disturbing
  <2>2. In(id, Silent) => id \notin Disturbing
    BY DEF In, Silent, Check, Disturbing
  <2>3. In(id, PowerRegistry) => id \notin Disturbing
    BY DEF In, PowerRegistry, Check, Disturbing
  <2> QED
    BY <2>1, <2>2, <2>3
<1>2. In(id, ObdRegistry) => id \notin Disturbing
  <2>1. ASSUME NEW d \in Disturbing PROVE ~In(d, ObdRegistry)
    BY DEF In, ObdRegistry, Check, Disturbing
  <2> QED
    BY <2>1
<1>3. In(id, ClientRegistry) => id \notin Disturbing
  <2> DEFINE C == {"monitor.declaration", "monitor.accepts_complete_write",
                   "monitor.absent_is_a_state", "monitor.rejects_incomplete",
                   "monitor.rejects_bad_length", "monitor.rejects_duplicate_slot",
                   "monitor.ignores_unknown_slot", "aiding.declaration", "aiding.chunk_size",
                   "aiding.rejects_undeclared_format", "aiding.rejects_oversized",
                   "aiding.transfer", "aiding.reports_missing_chunk",
                   "aiding.detects_corruption", "aiding.begin_supersedes"}
  <2>1. In(id, ClientRegistry) => id \in C
    <3>1. 15 \in Nat
      OBVIOUS
    <3>2. Len(ClientRegistry) = 15
      BY <3>1, Registries, ListsLength
    <3>3. \A i \in 1..15 : ClientRegistry[i].id \in C
      BY DEF ClientRegistry, Check
    <3> HIDE DEF C
    <3> QED
      BY <3>2, <3>3 DEF In
  <2>2. C \cap Disturbing = {}
    BY DEF Disturbing
  <2> QED
    BY <2>1, <2>2
<1>4. In(id, StreamRegistry) => id \notin Disturbing
  BY StreamIdsOf DEF StreamIds, Disturbing
<1> QED
  BY <1>1, <1>2, <1>3, <1>4

\* What the dispatch makes of the control and the stream checks.
LEMMA Dispatched ==
    ASSUME NEW id, NEW w
    PROVE  /\ In(id, ControlRegistry) => CheckOf(id, w) = ControlCheck(id, w)
           /\ In(id, StreamRegistry) \/ In(id, ObserveRegistry) => CheckOf(id, w) = StreamCheck(id, w)
           /\ id = "control.no_unprovoked_busy" => CheckOf(id, w) = NoUnprovokedBusy(w)
<1> DEFINE P == {"control.unsupported_opcode", "control.echoes_request", "control.detail_only_on_ok",
                 "control.malformed_params", "control.opcode_capability",
                 "control.busy_when_outstanding", "control.busy_not_applied",
                 "control.no_busy_for_conforming_client", "can.subscribe_ok",
                 "can.subscribe_idempotent", "can.unknown_subscription", "can.table_full",
                 "can.update_in_place_when_full", "can.transmission_bits_ignored",
                 "can.identity_is_the_pair", "can.unknown_mode_refused", "can.no_rate_admission",
                 "control.applies_only_if_answerable", "control.rate_ceiling",
                 "control.rate_readback", "control.time_sync", "control.time_sync_offset"}
           Q == {"can.subscribe_for_observation", "gps.decodes",
                 "can.decodes", "imu.decodes", "gps.absent_fields_zero",
                 "gps.solution_scoped_bits", "seq.first_is_zero", "seq.advances",
                 "clock.monotonic", "clock.one_clock", "clock.one_rate",
                 "can.matches_subscription", "can.forwarded_once", "can.most_specific_governs",
                 "can.earliest_installed_governs", "can.periodic_first_then_rations",
                 "can.identical_reinstall_costs_nothing", "can.changed_reinstall_rearms",
                 "can.displaced_schedule_survives", "can.dropped_excludes_declined",
                 "can.format_bit_is_identity"}
           U == "control.no_unprovoked_busy"
<1>1. In(id, ControlRegistry) => id \in P
  BY DEF In, ControlRegistry, Check
<1>2. In(id, StreamRegistry) \/ In(id, ObserveRegistry) => id \in Q
  BY DEF In, StreamRegistry, ObserveRegistry, Check
<1>3. In(id, ProfileRegistry \o PowerRegistry) => id \notin P /\ id \notin Q /\ id # U
  <2>1. 13 \in Nat /\ 5 \in Nat
    OBVIOUS
  <2>2. In(id, ProfileRegistry \o PowerRegistry) => In(id, ProfileRegistry) \/ In(id, PowerRegistry)
    BY <2>1, Registries, InEither
  <2>3. In(id, ProfileRegistry) => id \notin P /\ id \notin Q /\ id # U
    BY DEF In, ProfileRegistry, Check
  <2>4. In(id, PowerRegistry) => id \notin P /\ id \notin Q /\ id # U
    BY DEF In, PowerRegistry, Check
  <2> QED
    BY <2>2, <2>3, <2>4
<1>4. In(id, ClientRegistry) => id \notin P /\ id \notin Q /\ id # U
  BY DEF In, ClientRegistry, Check
<1>5. In(id, ObdRegistry) => id \notin P /\ id \notin Q /\ id # U
  BY DEF In, ObdRegistry, Check
<1>6. id \in P => id \notin Q /\ id # U
  OBVIOUS
<1>7. id \in P \cup Q \cup {U} =>
          id # "reconnect.subscriptions_cleared" /\ id # "reconnect.seq_restarts"
  OBVIOUS
<1>8. id \in Q => id # U
  OBVIOUS
<1> HIDE DEF P, Q
<1>9. id \in P => CheckOf(id, w) = IF In(id, ControlRegistry) THEN ControlCheck(id, w) ELSE StreamCheck(id, w)
  BY <1>3, <1>4, <1>5, <1>6, <1>7 DEF CheckOf
<1>10. id \in Q => CheckOf(id, w) = StreamCheck(id, w)
  BY <1>1, <1>3, <1>4, <1>5, <1>6, <1>7, <1>8 DEF CheckOf
<1>11. id = U => CheckOf(id, w) = NoUnprovokedBusy(w)
  BY <1>1, <1>3, <1>4, <1>5, <1>6, <1>7 DEF CheckOf
<1> QED
  BY <1>1, <1>2, <1>9, <1>10, <1>11

-----------------------------------------------------------------------------
(* The notes and the table, from check to check *)

\* What can be installed after the first p checks of the registry.
Stock(installed, p) ==
    /\ p \in 0..22 \cup 27..70 => installed = {}
    /\ p \in 23..26 => installed \subseteq {Probe}

LEMMA Dispatches ==
    ASSUME NEW w
    PROVE  /\ ControlCheck("can.subscribe_ok", w) = SubscribeOk(w)
           /\ ControlCheck("can.subscribe_idempotent", w) = SubscribeIdempotent(w)
           /\ ControlCheck("can.unknown_subscription", w) = UnknownSubscription(w)
           /\ ControlCheck("can.table_full", w) = TableFull(w)
           /\ ControlCheck("can.update_in_place_when_full", w) = UpdateInPlaceWhenFull(w)
           /\ ControlCheck("can.no_rate_admission", w) = NoRateAdmission(w)
           /\ ControlCheck("control.applies_only_if_answerable", w) = AppliesOnlyIfAnswerable(w)
<1>1. ControlCheck("can.subscribe_ok", w) = SubscribeOk(w)
  BY DEF ControlCheck
<1>2. ControlCheck("can.subscribe_idempotent", w) = SubscribeIdempotent(w)
  BY DEF ControlCheck
<1>3. ControlCheck("can.unknown_subscription", w) = UnknownSubscription(w)
  BY DEF ControlCheck
<1>4. ControlCheck("can.table_full", w) = TableFull(w)
  BY DEF ControlCheck
<1>5. ControlCheck("can.update_in_place_when_full", w) = UpdateInPlaceWhenFull(w)
  BY DEF ControlCheck
<1>6. ControlCheck("can.no_rate_admission", w) = NoRateAdmission(w)
  BY DEF ControlCheck
<1>7. ControlCheck("control.applies_only_if_answerable", w) = AppliesOnlyIfAnswerable(w)
  BY DEF ControlCheck
<1> QED
  BY <1>1, <1>2, <1>3, <1>4, <1>5, <1>6, <1>7

LEMMA ControlsMatch ==
    ASSUME NEW w, Ready(w), w.session.capacity.can <= FillLimit,
           NEW j \in 1..22, Stock(w.session.installed, j + 13)
    PROVE  LET x == ControlCheck(ControlRegistry[j].id, w)
           IN  Matching(x) /\ Stock(x.session.installed, j + 14)
<1> DEFINE id == ControlRegistry[j].id
           x == ControlCheck(id, w)
<1>1. ASSUME x.session.installed = {} PROVE Matching(x) /\ Stock(x.session.installed, j + 14)
  BY <1>1, MatchesEmpty DEF Stock
<1>2. CASE j = 9
  <2>1. x = SubscribeOk(w) /\ w.session.installed = {}
    <3>1. x = SubscribeOk(w)
      BY <1>2, ControlPlaces, Dispatches
    <3>2. w.session.installed = {}
      BY <1>2 DEF Stock
    <3> QED
      BY <3>1, <3>2
  <2> QED
    BY <1>2, <2>1, SubscribeOkMatches DEF Stock
<1>3. CASE j = 10
  <2>1. x = SubscribeIdempotent(w) /\ w.session.installed \subseteq {Probe}
    <3>1. x = SubscribeIdempotent(w)
      BY <1>3, ControlPlaces, Dispatches
    <3>2. w.session.installed \subseteq {Probe}
      BY <1>3 DEF Stock
    <3> QED
      BY <3>1, <3>2
  <2> QED
    BY <1>3, <2>1, SubscribeIdempotentMatches DEF Stock
<1>4. CASE j = 11
  <2>1. x = UnknownSubscription(w) /\ w.session.installed \subseteq {Probe}
    <3>1. x = UnknownSubscription(w)
      BY <1>4, ControlPlaces, Dispatches
    <3>2. w.session.installed \subseteq {Probe}
      BY <1>4 DEF Stock
    <3> QED
      BY <3>1, <3>2
  <2> QED
    BY <1>4, <2>1, UnknownSubscriptionMatches DEF Stock
<1>5. CASE j = 12
  <2>1. x = TableFull(w)
    BY <1>5, ControlPlaces, Dispatches
  <2> QED
    BY <1>1, <2>1, TableFullMatches
<1>6. CASE j = 13
  <2>1. x = UpdateInPlaceWhenFull(w)
    BY <1>6, ControlPlaces, Dispatches
  <2> QED
    BY <1>1, <2>1, UpdateInPlaceMatches
<1>7. CASE j = 17
  <2>1. x = NoRateAdmission(w) /\ w.session.installed = {}
    <3>1. x = NoRateAdmission(w)
      BY <1>7, ControlPlaces, Dispatches
    <3>2. w.session.installed = {}
      BY <1>7 DEF Stock
    <3> QED
      BY <3>1, <3>2
  <2> QED
    BY <1>1, <2>1, NoRateAdmissionMatches
<1>8. CASE j = 18
  <2>1. x = AppliesOnlyIfAnswerable(w) /\ w.session.installed = {}
    <3>1. x = AppliesOnlyIfAnswerable(w)
      BY <1>8, ControlPlaces, Dispatches
    <3>2. w.session.installed = {}
      BY <1>8 DEF Stock
    <3> QED
      BY <3>1, <3>2
  <2> QED
    BY <1>1, <2>1, AppliesOnlyMatches
<1>9. CASE j \notin {9, 10, 11, 12, 13, 17, 18}
  <2>1. w.session.installed = {}
    BY <1>9 DEF Stock
  <2>2. id \notin Disturbing /\ In(id, ControlRegistry)
    BY <1>9, ControlPlaces
  <2> HIDE DEF id
  <2>3. Fine(x, w)
    BY <2>2, SoundControlCheck DEF Ready
  <2> HIDE DEF x
  <2>4. x.session.installed = {}
    BY <2>1, <2>3 DEF Fine
  <2> QED
    BY <1>1, <2>4 DEF x, id
<1> QED
  BY <1>2, <1>3, <1>4, <1>5, <1>6, <1>7, <1>8, <1>9

LEMMA ChecksMatch ==
    ASSUME NEW w, Ready(w), w.session.capacity.can <= FillLimit,
           w.session.installed # {} => Can \subseteq w.device.caps,
           NEW p \in 0..91, Stock(w.session.installed, p)
    PROVE  LET x == CheckOf(Registry[p + 1].id, w)
           IN  Matching(x) /\ Stock(x.session.installed, p + 1)
<1> DEFINE id == Registry[p + 1].id
           x == CheckOf(id, w)
<1>1. p + 1 \in 1..92
  OBVIOUS
<1>2. In(id, Registry)
  <2>1. p + 1 \in 1..94
    OBVIOUS
  <2> QED
    BY <2>1, Registered
<1>3. CASE p \in 14..35
  <2>1. p - 13 \in 1..22 /\ (p - 13) + 13 = p /\ (p - 13) + 14 = p + 1
        /\ p + 1 \in 15..36 /\ (p + 1) - 14 = p - 13
    BY <1>3
  <2>2. Registry[p + 1] = ControlRegistry[p - 13]
    BY <1>1, <2>1, Placement
  <2> DEFINE j == p - 13
             y == ControlCheck(ControlRegistry[j].id, w)
  <2>3. Stock(w.session.installed, j + 13)
    BY <2>1
  <2>4. In(ControlRegistry[j].id, ControlRegistry)
    BY <2>1, ControlPlaces
  <2> HIDE DEF j
  <2>5. Matching(y) /\ Stock(y.session.installed, j + 14)
    BY <2>1, <2>3, ControlsMatch DEF j
  <2>6. x = y
    BY <2>2, <2>4, Dispatched DEF j
  <2> QED
    BY <2>1, <2>5, <2>6 DEF j
<1>4. CASE p \in 0..13 \cup 36..69
  <2>1. id \notin Disturbing
    <3>1. p + 1 \in 1..14 \/ p + 1 \in 37..70
      BY <1>4
    <3> QED
      BY <1>1, <3>1, Placement, Elsewheres
  <2>2. w.session.installed = {}
    BY <1>4 DEF Stock
  <2> HIDE DEF id
  <2>3. Fine(x, w)
    BY <1>2, <2>1, SoundCheck DEF Ready
  <2> HIDE DEF x
  <2>4. x.session.installed = {}
    BY <2>2, <2>3 DEF Fine
  <2> QED
    BY <2>4, MatchesEmpty DEF Stock, x, id
<1>5. CASE p = 70
  <2>1. id = "can.subscribe_for_observation" /\ In(id, ObserveRegistry)
    <3>1. p + 1 = 71 /\ 1 \in 1..1 /\ 1 \in Nat
      BY <1>5
    <3>2. Registry[p + 1] = ObserveRegistry[1]
      BY <1>1, <3>1, Placement
    <3>3. In(ObserveRegistry[1].id, ObserveRegistry)
      BY <3>1, Registries, Stands
    <3>4. ObserveRegistry[1].id = "can.subscribe_for_observation"
      BY DEF ObserveRegistry, Check
    <3> QED
      BY <3>2, <3>3, <3>4
  <2>2. x = Observation(w)
    BY <2>1, Dispatched DEF StreamCheck
  <2>3. w.session.installed = {}
    BY <1>5 DEF Stock
  <2> QED
    BY <1>5, <2>2, <2>3, ObservationMatches DEF Stock
<1>6. CASE p \in 71..90
  <2>1. In(id, StreamRegistry)
    BY <1>1, <1>6, Placement
  <2>2. w.session.installed # {} => "can" \in w.device.caps
    BY DEF Can
  <2> HIDE DEF id
  <2>3. Matching(StreamCheck(id, w)) /\ x = StreamCheck(id, w)
    BY <2>1, <2>2, StreamsMatch, Dispatched
  <2> HIDE DEF x
  <2> QED
    BY <1>6, <2>3 DEF Stock, x, id
<1>7. CASE p = 91
  <2>1. id = "control.no_unprovoked_busy"
    BY <1>1, <1>7, Placement DEF Unprovoked, Check
  <2>2. x = NoUnprovokedBusy(w)
    BY <2>1, Dispatched
  <2> QED
    BY <1>7, <2>2, LogsMatch DEF Stock
<1> QED
  BY <1>3, <1>4, <1>5, <1>6, <1>7

\* The same with the verdict it comes to; a check that takes the probe away and is not
\* allowed finds no probe.
LEMMA VerdictsMatch ==
    ASSUME NEW w, Ready(w), w.session.capacity.can <= FillLimit,
           w.session.caps = w.device.caps,
           w.session.installed # {} => Can \subseteq w.session.caps,
           NEW p \in 0..91, Stock(w.session.installed, p)
    PROVE  LET x == Verdicted(Registry[p + 1], w)
           IN  /\ Matching(x) /\ Stock(x.session.installed, p + 1)
               /\ x.session.installed # {} => Can \subseteq w.session.caps
<1> DEFINE check == Registry[p + 1]
           y == CheckOf(check.id, w)
           x == Verdicted(check, w)
<1>1. p + 1 \in 1..92
  OBVIOUS
<1>2. In(check.id, Registry)
  <2>1. p + 1 \in 1..94
    OBVIOUS
  <2> QED
    BY <2>1, Registered
<1>3. CASE Skipped(check, w)
  <2>1. x = End(w, "skip")
    BY <1>3 DEF Verdicted
  <2>2. x.device = w.device /\ x.session = w.session
    BY <2>1, HeldIf DEF Ready, Fine, Sound, Held
  <2> HIDE DEF x
  <2>3. Matching(x)
    BY <2>2 DEF Matching, Ready
  <2>4. Stock(w.session.installed, p + 1)
    <3>1. CASE p = 26
      <4>1. p + 1 \in 15..36 /\ (p + 1) - 14 = 13
        BY <3>1
      <4>2. check = ControlRegistry[13]
        BY <1>1, <4>1, Placement
      <4>3. check.requires = Can /\ check.adversarial = FALSE
        BY <4>2 DEF ControlRegistry, Check
      <4>4. ~(Can \subseteq w.session.caps)
        BY <1>3, <4>3 DEF Skipped
      <4> QED
        BY <4>4 DEF Stock
    <3>2. CASE p # 26
      BY <3>2 DEF Stock
    <3> QED
      BY <3>1, <3>2
  <2> QED
    BY <2>2, <2>3, <2>4 DEF x
<1>4. CASE ~Skipped(check, w)
  <2>1. x = End(y, "pass") /\ check.requires \subseteq w.session.caps
    BY <1>4 DEF Verdicted, Skipped
  <2>2. Matching(y) /\ Stock(y.session.installed, p + 1)
    BY ChecksMatch
  <2>3. Sound(y, w) /\ (check.id \notin Disturbing => Fine(y, w))
    BY <1>2, SoundCheck DEF Ready
  <2>4. y.session.installed # {} => Can \subseteq w.session.caps
    <3>1. CASE check.id \notin Disturbing
      BY <2>3, <3>1 DEF Fine
    <3>2. CASE check.id \in Disturbing
      <4>1. CASE p \in 14..35
        <5>1. p + 1 \in 15..36 /\ (p + 1) - 14 = p - 13 /\ p - 13 \in 1..22
          BY <4>1
        <5>2. check = ControlRegistry[p - 13]
          BY <1>1, <5>1, Placement
        <5>3. p - 13 \in {9, 10, 12, 13, 17, 18}
          BY <3>2, <5>1, <5>2, ControlPlaces
        <5>4. p - 13 = 17 => y.session.installed = {}
          BY <2>2 DEF Stock
        <5>5. p - 13 \in {9, 10, 12, 13, 18} => check.requires = Can
          BY <5>1, <5>2, ControlPlaces
        <5> QED
          BY <2>1, <5>3, <5>4, <5>5
      <4>2. CASE p = 70
        <5>1. check.requires = Can
          BY <1>1, <4>2, Placement DEF ObserveRegistry, Check
        <5> QED
          BY <2>1, <5>1
      <4>3. CASE p \in 0..13 \cup 36..69 \cup 71..90
        <5>1. p + 1 \in 1..14 \/ p + 1 \in 37..70 \/ p + 1 \in 72..91
          BY <4>3
        <5> QED
          BY <1>1, <3>2, <5>1, Placement, Elsewheres
      <4>4. CASE p = 91
        <5>1. check = Unprovoked[1]
          BY <1>1, <4>4, Placement
        <5>2. check.id = "control.no_unprovoked_busy"
          BY <5>1 DEF Unprovoked, Check
        <5>3. check.id \notin Disturbing
          BY <5>2 DEF Disturbing
        <5> QED
          BY <3>2, <5>3
      <4> QED
        BY <4>1, <4>2, <4>3, <4>4
    <3> QED
      BY <3>1, <3>2
  <2> HIDE DEF y
  <2>5. x.device = y.device /\ x.session = y.session
    BY <2>1, <2>3, HeldIf DEF Sound, Held
  <2> HIDE DEF x
  <2>6. Matching(x)
    BY <2>2, <2>5 DEF Matching
  <2> QED
    BY <2>2, <2>4, <2>5, <2>6 DEF x
<1> QED
  BY <1>3, <1>4

-----------------------------------------------------------------------------
(* The inductive invariant: what is installed between two checks *)

\* The notes, the table and what Info said of it, for a session and a device.
Agreed ==
    /\ session.caps = device.caps /\ session.capacity.can <= device.slots
    /\ Matching(World)
    /\ Stock(session.installed, position)
    /\ session.installed # {} => Can \subseteq session.caps
\* The inductive invariant, of a conforming device with a table the check can fill:
\* nothing is noted before the first connection; after it, the collection begins when
\* 71 checks are behind.
NotesInv ==
    device.slots <= FillLimit /\ device.fault = "none" =>
        /\ stage = "opening" => position = 0 /\ session.installed = {}
        /\ stage = "before" => position \in 0..71 /\ Agreed
        /\ stage = "after" => position \in 71..92 /\ Agreed

LEMMA WorldIs == World.device = device /\ World.session = session /\ World.verdict = "running"
  BY DEF World

LEMMA CheckKeepsNotes == TypeInv /\ NotesInv /\ OneCheck => NotesInv'
<1> SUFFICES ASSUME TypeInv, NotesInv, OneCheck, device'.slots <= FillLimit, device'.fault = "none",
                    stage' \in {"opening", "before", "after"}
             PROVE  /\ stage' = "opening" => position' = 0 /\ session'.installed = {}
                    /\ stage' = "before" => position' \in 0..71 /\ Agreed'
                    /\ stage' = "after" => position' \in 71..92 /\ Agreed'
  BY DEF NotesInv
<1> DEFINE check == Registry[position + 1]
           w == Verdicted(check, World)
<1>1. /\ device' = w.device /\ session' = w.session
      /\ position' = position + 1 /\ stage' = stage
  BY DEF OneCheck
<1>2. stage \in DOMAIN LastOf /\ position \in 0..93 /\ position < LastOf[stage]
  BY Ahead
<1>3. stage \in {"before", "after"}
  BY <1>1, <1>2, Stages
<1>4. Fine(World, World)
  BY <1>2, WorldFine DEF TypeInv, Coherent
<1>5. In(check.id, Registry)
  <2>1. position + 1 \in 1..94
    BY <1>2
  <2> QED
    BY <2>1, Registered
<1>6. Sound(w, World)
  BY <1>4, <1>5, SoundVerdict
<1>7. Kept(device', device) /\ SameNotes(session', session)
  BY <1>1, <1>6, WorldIs DEF Sound
<1>8. device.slots <= FillLimit /\ device.fault = "none"
  BY <1>7 DEF Kept
<1>9. Agreed
  BY <1>3, <1>8 DEF NotesInv
<1>10. stage = "before" => position \in 0..70
  BY <1>2, <1>3, <1>8, Stages
<1>11. stage = "after" => position \in 71..91
  BY <1>2, <1>3, <1>8, Stages DEF NotesInv
<1>12. Ready(World)
  BY <1>4, <1>8, <1>9, WorldIs DEF Ready, Over, Honest, TypeInv, Coherent, Agreed
<1>13. position \in 0..91 /\ session.capacity.can <= FillLimit
  <2>1. position \in 0..91
    BY <1>3, <1>10, <1>11
  <2>2. session.capacity.can \in Nat /\ device.slots \in Nat /\ FillLimit \in Nat
    BY <1>2, FillAssumption DEF TypeInv, Coherent, Settled, Steady
  <2> QED
    BY <1>8, <1>9, <2>1, <2>2 DEF Agreed
<1>14. /\ Matching(w) /\ Stock(w.session.installed, position + 1)
       /\ w.session.installed # {} => Can \subseteq session.caps
  BY <1>9, <1>12, <1>13, VerdictsMatch, WorldIs DEF Agreed
<1> HIDE DEF w
<1>15. Matching(World)'
  BY <1>1, <1>14 DEF Matching, World
<1>16. Agreed'
  BY <1>1, <1>7, <1>9, <1>14, <1>15 DEF Agreed, Kept, SameNotes
<1> QED
  BY <1>1, <1>3, <1>10, <1>11, <1>16

LEMMA StepKeepsNotes == TypeInv /\ NotesInv /\ [Next]_vars => NotesInv'
<1> SUFFICES ASSUME TypeInv, NotesInv, [Next]_vars PROVE NotesInv'
  OBVIOUS
<1>1. CASE Open
  <2> SUFFICES ASSUME device'.slots <= FillLimit, device'.fault = "none"
               PROVE  position' \in 0..71 /\ Agreed'
    BY <1>1 DEF NotesInv, Open
  <2>1. DOMAIN <<>> = {} /\ IsFiniteSet(DOMAIN <<>>) /\ Cardinality(DOMAIN <<>>) <= device.slots
    BY FS_EmptySet DEF TypeInv, Coherent, Steady
  <2>2. Kept(device', device)
    BY <1>1, <2>1, ConnectedKeeps DEF Open, TypeInv, Coherent
  <2>3. stage = "opening" /\ position' = position /\ session' = WithInfo(session, device')
    BY <1>1 DEF Open
  <2>4. position = 0 /\ session.installed = {}
    BY <2>2, <2>3 DEF NotesInv, Kept
  <2>5. /\ session'.installed = session.installed /\ session'.caps = Info(device').caps
        /\ session'.capacity = Info(device').capacity
    <3> DEFINE h == Flowing(device')
               i == Info(device')
               a == i.decodes
               b == i.caps
               c == i.rate
               e == i.capacity
    <3>1. WithInfo(session, device') =
            [session EXCEPT !.decodes = a, !.caps = b, !.rate = c, !.capacity = e, !.heard = h]
      BY DEF WithInfo
    <3>2. {"installed", "caps", "capacity"} \subseteq DOMAIN session
      BY <2>3 DEF TypeInv, Coherent, Openable
    <3> HIDE DEF h, i, a, b, c, e
    <3>3. /\ session'.installed = session.installed /\ session'.caps = b
          /\ session'.capacity = e
      BY <2>3, <3>1, <3>2
    <3> QED
      BY <3>3 DEF b, e, i
  <2>6. Info(device').caps = device'.caps
    BY DEF Info, Published, Has
  <2>7. Info(device').capacity.can <= device'.slots
    BY <2>2, TableSize DEF Kept, Steady
  <2>8. Matching(World)'
    BY <2>4, <2>5 DEF Matching, World
  <2> QED
    BY <2>3, <2>4, <2>5, <2>6, <2>7, <2>8 DEF Agreed, Stock
<1>2. CASE OneCheck
  BY <1>2, CheckKeepsNotes
<1>3. CASE Collect
  <2> SUFFICES ASSUME device'.slots <= FillLimit, device'.fault = "none"
               PROVE  position' \in 71..92 /\ Agreed'
    BY <1>3 DEF NotesInv, Collect
  <2> DEFINE v == Watched(device)
             h == session.heard \cup Flowing(device)
  <2>1. stage \in DOMAIN LastOf /\ stage = "before" /\ position = 71
    BY <1>3, Stages DEF Collect, Behind
  <2>2. Listen(World) = [World EXCEPT !.session.heard = h, !.device = v]
    BY WorldIs DEF Listen, Over
  <2>3. device' = Listen(World).device /\ session' = Listen(World).session /\ position' = position
    BY <1>3 DEF Collect
  <2>4. Kept(v, device) /\ DOMAIN v.table = DOMAIN device.table
    BY WatchedKeeps DEF TypeInv, Coherent
  <2> HIDE DEF v, h
  <2>5. device' = v /\ session' = [session EXCEPT !.heard = h]
    BY <2>2, <2>3 DEF World
  <2>6. {"installed", "caps", "capacity"} \subseteq DOMAIN session
    BY <2>1 DEF TypeInv, Coherent, Openable
  <2>7. session'.installed = session.installed /\ session'.caps = session.caps
        /\ session'.capacity = session.capacity
    BY <2>5, <2>6
  <2>8. Agreed
    BY <2>1, <2>4, <2>5 DEF NotesInv, Kept
  <2>9. Matching(World)'
    BY <2>4, <2>5, <2>7, <2>8, OwnsKept DEF Matching, World, Agreed
  <2> QED
    BY <2>1, <2>3, <2>4, <2>5, <2>7, <2>8, <2>9 DEF Agreed, Kept, Stock
<1>4. CASE Drop \/ Reopen \/ ReopenFails \/ LinkLost \/ Finish
  BY <1>4 DEF Drop, Reopen, ReopenFails, LinkLost, Finish, NotesInv
<1>5. CASE UNCHANGED vars
  BY <1>5 DEF vars, NotesInv, Agreed, World
<1> QED
  BY <1>1, <1>2, <1>3, <1>4, <1>5 DEF Next

LEMMA NotesInitially == Init => NotesInv
<1> SUFFICES ASSUME Init PROVE NotesInv
  OBVIOUS
<1>1. PICK o \in Options : session = Opened(o)
  BY DEF Init
<1> QED
  BY <1>1 DEF Init, Opened, NotesInv

\* Between two checks before the reconnection, at a conforming device whose table is no larger
\* than what the fill check asks for, Session.installed names only what the device has
\* installed: no refusal, no reset and no restoring of the table (streams.py,
\* _restore_observation_table) leaves a note of a subscription that is not there.
THEOREM NotesMatch == Spec => []NotesMatchSmallTable
<1>1. Init => NotesInv
  BY NotesInitially
<1>2. TypeInv /\ NotesInv /\ [Next]_vars => NotesInv'
  BY StepKeepsNotes
<1>3. NotesInv => NotesMatchSmallTable
  BY WorldIs DEF NotesInv, Agreed, Matching, NotesMatchSmallTable, NotesMatchTable
<1> QED
  BY <1>1, <1>2, <1>3, TypesKept, PTL DEF Spec
=============================================================================

------------------------ MODULE ControlClient_proofs ------------------------
(***************************************************************************)
(* Proofs about ControlClient, for every number of requests, of tags, of   *)
(* pipelined pairs and of callers that give up, under ClientAssumption.    *)
(*                                                                         *)
(* The argument: only the last two requests written can be open, a         *)
(* response on its way answers a request younger than every one answered,  *)
(* so all requests between it and the last two were given up or refused,   *)
(* and those are too few for the tags to have come round (NearBy).         *)
(***************************************************************************)
EXTENDS ControlClient, FiniteSetTheorems, TLAPS

-----------------------------------------------------------------------------
(* The inductive invariant *)

States == {"writing", "waiting", "returned", "timeout", "refused"}
Calls == [tag : 0..(Tags - 1), t_write : Nat, state : States, answer : Nat, second : BOOLEAN]
Answers == [tag : 0..(Tags - 1), of : Nat, status : {"ok", "busy"}]
Entries == [of : Nat, status : {"ok", "busy"}, t_recv : Nat, t_write : Nat]

\* The last request written, the responses on their way, the requests without a caller, and
\* those that can still be answered.
Newest == Len(calls)
Flying == {arriving[i] : i \in 1..Len(arriving)} \cup {owed[i] : i \in 1..Len(owed)}
Lost == GivenUp \cup In("refused")
Live == {r \in 1..Newest : calls[r].state \in {"writing", "waiting"} /\ calls[r].answer = None}

\* The variables have their types, and the last tag handed out is the last request's.
SeqInv ==
    /\ now \in Nat /\ tag = Newest % Tags
    /\ calls \in Seq(Calls) /\ arriving \in Seq(Answers) /\ owed \in Seq(Answers)
    /\ history \in Seq(Entries)
    /\ crossing \subseteq 1..Newest /\ applied \subseteq 1..Newest /\ Len(owed) <= Room

\* What is known of a request from its state: one writes at a time, the last; only the last
\* two wait; a request outside "writing" and "returned" has no answer.
CallOK(r) ==
        /\ calls[r].tag = r % Tags
        /\ calls[r].t_write < now
        /\ calls[r].answer \in {None, r}
        /\ calls[r].state = "returned" => calls[r].answer = r
        /\ calls[r].state \in {"waiting", "timeout", "refused"} => calls[r].answer = None
        /\ calls[r].state = "writing" => r = Newest
        /\ calls[r].state = "waiting" => r >= Newest - 1
        /\ r \in crossing => calls[r].state = "writing" /\ calls[r].answer = None
        /\ \A q \in 1..Newest : r < q => calls[r].t_write < calls[q].t_write
CallInv == \A r \in 1..Newest : CallOK(r)

\* The table holds the requests that are open, each under its own tag.
PendInv ==
    /\ \A t \in DOMAIN pending : pending[t] \in Live /\ calls[pending[t]].tag = t
    /\ \A r \in Live : calls[r].tag \in DOMAIN pending /\ pending[calls[r].tag] = r

\* Responses travel in the order of the requests they answer, behind every answer given.
FlyInv ==
    /\ \A a \in Flying :
          /\ a.of \in 1..Newest /\ a.of \notin crossing /\ a.tag = a.of % Tags
          /\ calls[a.of].state # "refused"
          /\ \A r \in 1..Newest : calls[r].answer # None => r < a.of
    /\ \A i, j \in 1..Len(arriving) : i < j => arriving[i].of < arriving[j].of
    /\ \A i, j \in 1..Len(owed) : i < j => owed[i].of < owed[j].of
    /\ \A i \in 1..Len(arriving), j \in 1..Len(owed) : arriving[i].of < owed[j].of

LostInv == Cardinality(Lost) <= Losses

IInv == SeqInv /\ CallInv /\ PendInv /\ FlyInv /\ LostInv

Overlapped(t) == \E i \in 1..Len(history) : history[i].t_write < t /\ t < history[i].t_recv
\* While nobody gave up, a busy response is overlapped by a request whose response has
\* arrived, or has such a response ahead of it.
BusyInv ==
    GivenUp = {} =>
        /\ \A a \in Flying : a.status = "busy" =>
              Overlapped(calls[a.of].t_write) \/ \E b \in Flying : b.of < a.of
        /\ \A i \in 1..Len(history) : history[i].status = "busy" => Overlapped(history[i].t_write)

-----------------------------------------------------------------------------
(* Tags *)

LEMMA TagsType == Tags \in Nat \ {0} /\ Tags > 1 /\ Losses \in Nat /\ Losses + 1 < Tags
  BY ClientAssumption

LEMMA Division ==
    ASSUME NEW n \in Nat, NEW t \in Nat \ {0}
    PROVE  \E k, m \in Nat : k = n \div t /\ m = n % t /\ n = t * k + m /\ m < t
<1>1. n = t * (n \div t) + (n % t)
  OBVIOUS
<1>2. n \div t \in Nat
  OBVIOUS
<1>3. n % t \in Nat /\ n % t < t
  OBVIOUS
<1> QED
  BY <1>1, <1>2, <1>3

LEMMA ModType == \A n \in Nat : n % Tags \in 0..(Tags - 1)
  BY TagsType

LEMMA Multiples ==
    ASSUME NEW x \in Nat, NEW y \in Nat, NEW t \in Nat, x > y
    PROVE  t * x >= t * y + t /\ t * x \in Nat /\ t * y \in Nat
<1>1. PICK d \in Nat : x = y + 1 + d
  <2>1. x - y - 1 \in Nat /\ x = y + 1 + (x - y - 1)
    OBVIOUS
  <2> QED
    BY <2>1
<1>2. t * x = t * y + t + t * d
  BY <1>1
<1>3. t * d >= 0 /\ t * d \in Int /\ t * y \in Int /\ t * y >= 0
  BY <1>1
<1> QED
  BY <1>2, <1>3

\* Equal remainders are a multiple apart; equal numbers have one remainder.
LEMMA Quotients ==
    ASSUME NEW t \in Nat, NEW j \in Nat, NEW k \in Nat, NEW m \in Nat, NEW n \in Nat,
           m < t, n < t,
           \/ m = n /\ t * j + m - (t * k + n) < t /\ t * k + n - (t * j + m) < t
           \/ t * j + m = t * k + n
    PROVE  j = k
<1>1. t * j \in Int /\ t * k \in Int
  OBVIOUS
<1>2. ASSUME j > k PROVE FALSE
  <2>1. t * j >= t * k + t
    BY <1>2, Multiples
  <2> QED
    BY <1>1, <2>1
<1>3. ASSUME k > j PROVE FALSE
  <2>1. t * k >= t * j + t
    BY <1>3, Multiples
  <2> QED
    BY <1>1, <2>1
<1> QED
  BY <1>2, <1>3

LEMMA ModApart ==
    ASSUME NEW a \in Nat, NEW b \in Nat, NEW t \in Nat \ {0},
           a % t = b % t, a - b < t, b - a < t
    PROVE  a = b
<1>1. PICK j, m \in Nat : m = a % t /\ a = t * j + m /\ m < t
  BY Division
<1>2. PICK k, n \in Nat : n = b % t /\ b = t * k + n /\ n < t
  BY Division
<1>3. j = k
  <2>1. m = n /\ t * j + m - (t * k + n) < t /\ t * k + n - (t * j + m) < t
    BY <1>1, <1>2
  <2> QED
    BY <1>1, <1>2, <2>1, Quotients
<1> QED
  BY <1>1, <1>2, <1>3

LEMMA ModNext ==
    ASSUME NEW n \in Nat, NEW t \in Nat \ {0}
    PROVE  ((n % t) + 1) % t = (n + 1) % t
<1>1. PICK k, m \in Nat : m = n % t /\ n = t * k + m /\ m < t
  BY Division
<1>2. PICK j, p \in Nat : p = (n + 1) % t /\ n + 1 = t * j + p /\ p < t
  BY Division
<1>3. t * j \in Int /\ t * k \in Int
  OBVIOUS
<1>4. CASE m + 1 = t
  <2>1. (m + 1) % t = 0
    BY <1>4
  <2>2. t * (k + 1) = t * k + t
    OBVIOUS
  <2>3. t * j + p = t * (k + 1) + 0
    BY <1>1, <1>2, <1>3, <1>4, <2>2
  <2>4. j = k + 1
    BY <1>2, <2>3, Quotients
  <2>5. p = 0
    BY <1>3, <2>2, <2>3, <2>4
  <2> QED
    BY <1>1, <1>2, <2>1, <2>5
<1>5. CASE m + 1 # t
  <2>1. m + 1 \in Nat /\ m + 1 < t
    BY <1>1, <1>5
  <2>2. (m + 1) % t = m + 1
    BY <2>1
  <2>3. t * j + p = t * k + (m + 1)
    BY <1>1, <1>2, <1>3
  <2>4. j = k
    BY <1>2, <2>1, <2>3, Quotients
  <2>5. p = m + 1
    BY <1>3, <2>3, <2>4
  <2> QED
    BY <1>1, <1>2, <2>2, <2>5
<1> QED
  BY <1>4, <1>5

-----------------------------------------------------------------------------
(* The parts of a state *)

LEMMA Typing ==
    ASSUME SeqInv
    PROVE  /\ Newest \in Nat /\ DOMAIN calls = 1..Newest
           /\ \A r \in 1..Newest : calls[r] \in Calls
           /\ \A a \in Flying : a \in Answers
           /\ Len(owed) \in Nat /\ Len(arriving) \in Nat
  BY DEF SeqInv, Newest, Flying

LEMMA LostFinite ==
    ASSUME SeqInv
    PROVE  IsFiniteSet(Lost) /\ Lost \subseteq 1..Newest
<1>1. Lost \in SUBSET (1..Newest)
  BY Typing DEF Lost, GivenUp, In
<1>2. IsFiniteSet(1..Newest)
  BY FS_Interval, Typing
<1> QED
  BY <1>1, <1>2, FS_Subset

LEMMA LiveLate ==
    ASSUME SeqInv, CallInv, NEW q \in Live
    PROVE  q \in 1..Newest /\ q >= Newest - 1
  BY Typing DEF CallInv, CallOK, Live

\* A response on its way is so young that no request outstanding can have its tag
\* from an earlier round.
LEMMA NearBy ==
    ASSUME IInv, NEW a \in Flying, NEW q \in Live, a.tag = calls[q].tag
    PROVE  a.of = q
<1> USE DEF IInv
<1>1. Newest \in Nat /\ a.of \in 1..Newest /\ a.tag = a.of % Tags
  BY Typing DEF FlyInv
<1>2. q \in 1..Newest /\ q >= Newest - 1 /\ calls[q].tag = q % Tags
  BY LiveLate DEF CallInv, CallOK
<1>3. a.of..(Newest - 2) \in SUBSET Lost
  <2> SUFFICES ASSUME NEW r \in a.of..(Newest - 2) PROVE r \in Lost
    OBVIOUS
  <2>1. r \in 1..Newest /\ r >= a.of /\ r <= Newest - 2
    BY <1>1
  <2>2. calls[r].answer = None
    BY <1>1, <2>1 DEF FlyInv
  <2>3. calls[r].state \in States
    BY <2>1, Typing DEF Calls
  <2>4. calls[r].state \in {"timeout", "refused"}
    BY <1>1, <2>1, <2>2, <2>3 DEF CallInv, CallOK, States, None
  <2> QED
    BY <2>1, <2>4, Typing DEF Lost, GivenUp, In
<1>4. Cardinality(a.of..(Newest - 2)) <= Losses
  <2>1. IsFiniteSet(Lost) /\ Cardinality(Lost) \in Nat
    BY LostFinite, FS_CardinalityType
  <2>2. Cardinality(a.of..(Newest - 2)) <= Cardinality(Lost)
    BY <1>3, <2>1, FS_Subset
  <2>3. Cardinality(a.of..(Newest - 2)) \in Int
    BY <1>1, FS_Interval
  <2> QED
    BY <2>1, <2>2, <2>3, TagsType DEF LostInv
<1>5. Newest - a.of < Tags
  <2>1. CASE a.of > Newest - 2
    BY <1>1, <2>1, TagsType
  <2>2. CASE ~(a.of > Newest - 2)
    <3>1. Cardinality(a.of..(Newest - 2)) = Newest - 2 - a.of + 1
      BY <1>1, <2>2, FS_Interval
    <3> QED
      BY <1>1, <1>4, <3>1, TagsType
  <2> QED
    BY <2>1, <2>2
<1>6. q - a.of < Tags /\ a.of - q < Tags
  BY <1>1, <1>2, <1>5, TagsType
<1>7. a.of \in Nat /\ q \in Nat
  BY <1>1, <1>2
<1>8. a.of % Tags = q % Tags
  BY <1>1, <1>2
<1> QED
  BY <1>6, <1>7, <1>8, ModApart, TagsType

\* The tag after the last is free, and it is the one NextTag finds.
LEMMA NextTagNext ==
    ASSUME IInv, Live \subseteq {Newest}
    PROVE  NextTag = (Newest + 1) % Tags /\ NextTag \notin DOMAIN pending
<1> USE DEF IInv
<1>1. Newest \in Nat /\ tag = Newest % Tags
  BY Typing DEF SeqInv
<1>2. (tag + 1) % Tags = (Newest + 1) % Tags
  BY <1>1, ModNext, TagsType
<1>3. (Newest + 1) % Tags # Newest % Tags
  <2> SUFFICES ASSUME (Newest + 1) % Tags = Newest % Tags PROVE FALSE
    OBVIOUS
  <2>1. Newest + 1 \in Nat /\ Newest + 1 - Newest < Tags /\ Newest - (Newest + 1) < Tags
    BY <1>1, TagsType
  <2> DEFINE m == Newest + 1
  <2>2. m \in Nat /\ m - Newest < Tags /\ Newest - m < Tags /\ m % Tags = Newest % Tags
    BY <1>1, <2>1, TagsType
  <2> HIDE DEF m
  <2>3. m = Newest
    BY <1>1, <2>2, ModApart, TagsType
  <2> QED
    BY <1>1, <2>3 DEF m
<1>4. \A t \in DOMAIN pending : t = Newest % Tags
  <2> TAKE t \in DOMAIN pending
  <2>1. pending[t] \in Live /\ calls[pending[t]].tag = t
    BY DEF PendInv
  <2>2. pending[t] = Newest /\ pending[t] \in 1..Newest
    BY <2>1 DEF Live
  <2> QED
    BY <2>1, <2>2 DEF CallInv, CallOK
<1> DEFINE free == {i \in 1..Tags : (tag + i) % Tags \notin DOMAIN pending}
<1>5. 1 \in free /\ \A i \in free : i \in Nat /\ 1 <= i
  BY <1>2, <1>3, <1>4, TagsType
<1>6. (CHOOSE i \in free : \A j \in free : i <= j) = 1
  <2>1. \E i \in free : \A j \in free : i <= j
    BY <1>5
  <2> HIDE DEF free
  <2>2. \A i \in free : (\A j \in free : i <= j) => i = 1
    BY <1>5
  <2> QED
    BY <2>1, <2>2
<1>7. NextTag = (tag + 1) % Tags
  BY <1>6 DEF NextTag
<1> QED
  BY <1>2, <1>3, <1>4, <1>7

LEMMA Append1 ==
    ASSUME NEW S, NEW q \in Seq(S), NEW x \in S
    PROVE  /\ Append(q, x) \in Seq(S) /\ Len(Append(q, x)) = Len(q) + 1 /\ Len(q) \in Nat
           /\ \A i \in 1..Len(q) : Append(q, x)[i] = q[i]
           /\ Append(q, x)[Len(q) + 1] = x
  OBVIOUS

LEMMA Tail1 ==
    ASSUME NEW S, NEW q \in Seq(S), q # <<>>
    PROVE  /\ Tail(q) \in Seq(S) /\ Len(Tail(q)) = Len(q) - 1 /\ Len(q) \in Nat \ {0}
           /\ \A i \in 1..(Len(q) - 1) : Tail(q)[i] = q[i + 1]
           /\ Head(q) = q[1] /\ Head(q) \in S
  OBVIOUS

\* What a step does to one request and to no other.
LEMMA Restated ==
    ASSUME NEW c \in Seq(Calls), NEW r \in 1..Len(c), NEW s \in States
    PROVE  LET d == [c EXCEPT ![r].state = s]
           IN  /\ d \in Seq(Calls) /\ Len(d) = Len(c)
               /\ \A q \in 1..Len(c) : /\ q # r => d[q] = c[q]
                                       /\ d[q].tag = c[q].tag /\ d[q].t_write = c[q].t_write
                                       /\ d[q].answer = c[q].answer
               /\ d[r].state = s
<1> DEFINE d == [c EXCEPT ![r].state = s]
<1>1. c[r] \in Calls /\ d = [c EXCEPT ![r] = [c[r] EXCEPT !.state = s]]
  OBVIOUS
<1>2. [c[r] EXCEPT !.state = s] \in Calls
  BY <1>1 DEF Calls
<1>3. d \in Seq(Calls) /\ Len(d) = Len(c)
  BY <1>1, <1>2
<1>4. \A q \in 1..Len(c) : q # r => d[q] = c[q]
  BY <1>1
<1>5. d[r] = [c[r] EXCEPT !.state = s]
  BY <1>1
<1>6. d[r].state = s /\ d[r].tag = c[r].tag /\ d[r].t_write = c[r].t_write /\ d[r].answer = c[r].answer
  BY <1>1, <1>5 DEF Calls
<1> QED
  BY <1>3, <1>4, <1>6

-----------------------------------------------------------------------------
(* The steps *)

LEMMA InitInv == Init => IInv /\ BusyInv
<1> SUFFICES ASSUME Init PROVE IInv /\ BusyInv
  OBVIOUS
<1>1. Newest = 0 /\ Flying = {} /\ Lost = {} /\ Live = {}
  BY DEF Init, Newest, Flying, Lost, Live, GivenUp, In
<1>2. SeqInv
  <2>1. 0 % Tags = 0
    BY TagsType
  <2> QED
    BY <1>1, <2>1, TagsType DEF Init, SeqInv, Room
<1>3. CallInv /\ PendInv /\ FlyInv
  BY <1>1 DEF Init, CallInv, PendInv, FlyInv
<1>4. LostInv
  BY <1>1, FS_EmptySet, TagsType DEF LostInv
<1>5. BusyInv
  BY <1>1 DEF Init, BusyInv
<1> QED
  BY <1>2, <1>3, <1>4, <1>5 DEF IInv

\* The accusation of a busy answer is only judged while nobody gave up.
LEMMA BusyKept ==
    ASSUME BusyInv, IInv, GivenUp \subseteq GivenUp', UNCHANGED <<history, arriving, owed>>,
           \A r \in 1..Newest : calls'[r].t_write = calls[r].t_write
    PROVE  BusyInv'
<1>1. Flying' = Flying
  BY DEF Flying
<1>2. \A t : Overlapped(t)' <=> Overlapped(t)
  BY DEF Overlapped
<1>3. \A a \in Flying : a.of \in 1..Newest
  BY DEF IInv, FlyInv
<1> QED
  BY <1>1, <1>2, <1>3 DEF BusyInv

LEMMA SendInv ==
    ASSUME IInv, BusyInv, Send
    PROVE  IInv' /\ BusyInv'
<1> DEFINE n == Newest
           call == [tag |-> NextTag, t_write |-> now, state |-> "writing", answer |-> None,
                    second |-> Unfinished # {}]
<1>1. /\ n \in Nat /\ calls \in Seq(Calls) /\ \A r \in 1..n : calls[r] \in Calls
      /\ now \in Nat /\ DOMAIN calls = 1..n
  BY Typing DEF IInv, SeqInv
<1>2. /\ In("writing") = {} /\ Unfinished \subseteq {n}
      /\ tag' = NextTag
      /\ pending' = [u \in DOMAIN pending \cup {NextTag} |-> IF u = NextTag THEN n + 1 ELSE pending[u]]
      /\ calls' = Append(calls, call)
      /\ crossing' = crossing \cup {n + 1} /\ now' = now + 1
      /\ UNCHANGED <<history, owed, applied, arriving>>
  BY DEF Send, Newest
<1>3. \A r \in Live : r = n
  BY <1>1, <1>2 DEF Live, Unfinished, In
<1>4. NextTag = (n + 1) % Tags /\ NextTag \notin DOMAIN pending
  BY <1>3, NextTagNext
<1>5. crossing = {}
  BY <1>1, <1>2 DEF IInv, SeqInv, CallInv, CallOK, In
<1>6. call \in Calls
  <2>0. n + 1 \in Nat
    BY <1>1
  <2>1. NextTag \in 0..(Tags - 1) /\ None \in Nat /\ "writing" \in States
    BY <1>4, <2>0, ModType DEF States, None
  <2>2. (Unfinished # {}) \in BOOLEAN
    BY Zenon
  <2> QED
    BY <1>1, <2>1, <2>2, Zenon DEF Calls
<1> HIDE DEF call
<1>7. /\ calls' \in Seq(Calls) /\ Newest' = n + 1
      /\ \A r \in 1..n : calls'[r] = calls[r]
      /\ calls'[n + 1] = call
  BY <1>1, <1>2, <1>6, Append1 DEF Newest
<1>8. call.tag = (n + 1) % Tags /\ call.t_write = now /\ call.state = "writing" /\ call.answer = None
  BY <1>4 DEF call
<1>9. \A r \in 1..n : calls[r].state # "writing"
  BY <1>1, <1>2 DEF In
<1>a. SeqInv'
  BY <1>1, <1>2, <1>4, <1>7 DEF IInv, SeqInv
<1>b. CallInv'
  <2> SUFFICES ASSUME NEW r \in 1..(n + 1) PROVE CallOK(r)'
    BY <1>7 DEF CallInv
  <2>1. CASE r = n + 1
    BY <1>1, <1>2, <1>7, <1>8, <2>1 DEF CallOK
  <2>2. CASE r \in 1..n
    <3>1. calls'[r] = calls[r] /\ calls[r].t_write < now /\ calls[r].t_write \in Nat
      BY <1>1, <1>7, <2>2 DEF IInv, CallInv, CallOK, Calls
    <3>2. calls[r].state = "waiting" => r = n
      BY <1>1, <1>2, <2>2 DEF Unfinished, In
    <3>3. r \notin crossing'
      BY <1>1, <1>2, <1>5, <2>2
    <3>4. \A q \in 1..(n + 1) : r < q => calls'[r].t_write < calls'[q].t_write
      <4>1. \A q \in 1..n : r < q => calls[r].t_write < calls[q].t_write
        BY <1>1, <2>2 DEF IInv, CallInv, CallOK
      <4>2. \A q \in 1..n : calls'[q] = calls[q]
        BY <1>7
      <4>3. calls'[n + 1].t_write = now /\ calls'[r].t_write < now
        BY <1>7, <1>8, <3>1
      <4>4. \A q \in 1..(n + 1) : q \in 1..n \/ q = n + 1
        BY <1>1
      <4> QED
        BY <3>1, <4>1, <4>2, <4>3, <4>4, Zenon
    <3>5. CallOK(r)
      BY <2>2 DEF IInv, CallInv
    <3>6. calls[r].state # "writing" /\ now' = now + 1 /\ now \in Nat
      BY <1>1, <1>2, <1>9, <2>2
    <3>7. Newest' = n + 1 /\ n \in Nat
      BY <1>1, <1>7
    <3> HIDE DEF n
    <3>8. calls'[r].tag = r % Tags /\ calls'[r].answer \in {None, r}
      BY <3>1, <3>5 DEF CallOK
    <3>9. /\ calls'[r].state = "returned" => calls'[r].answer = r
          /\ calls'[r].state \in {"waiting", "timeout", "refused"} => calls'[r].answer = None
      BY <3>1, <3>5 DEF CallOK
    <3>10. calls'[r].t_write < now'
      BY <3>1, <3>6
    <3>11. calls'[r].state # "writing" /\ (calls'[r].state = "waiting" => r >= Newest' - 1)
      BY <3>1, <3>2, <3>6, <3>7
    <3> QED
      BY <3>3, <3>4, <3>7, <3>8, <3>9, <3>10, <3>11, Zenon DEF CallOK
  <2> QED
    BY <1>1, <2>1, <2>2
<1>c. Live' = Live \cup {n + 1}
  <2>1. Live \subseteq 1..n
    BY DEF Live
  <2>2. \A r \in 1..n : r \in Live' <=> r \in Live
    BY <1>1, <1>7 DEF Live
  <2>3. n + 1 \in Live'
    BY <1>1, <1>7, <1>8 DEF Live
  <2>4. \A r \in Live' : r \in 1..n \/ r = n + 1
    BY <1>1, <1>7 DEF Live
  <2> QED
    BY <2>1, <2>2, <2>3, <2>4
<1>d. PendInv'
  <2>1. /\ DOMAIN pending' = DOMAIN pending \cup {NextTag}
        /\ pending'[NextTag] = n + 1
        /\ \A t \in DOMAIN pending : t # NextTag /\ pending'[t] = pending[t]
    BY <1>2, <1>4
  <2>2. \A r \in Live : r \in 1..n /\ calls'[r] = calls[r]
    BY <1>7 DEF Live
  <2>3. \A t \in DOMAIN pending : pending[t] \in Live /\ calls[pending[t]].tag = t
    BY DEF IInv, PendInv
  <2>4. \A r \in Live : calls[r].tag \in DOMAIN pending /\ pending[calls[r].tag] = r
    BY DEF IInv, PendInv
  <2>5. calls'[n + 1].tag = NextTag /\ n + 1 \in Live'
    BY <1>4, <1>7, <1>8, <1>c
  <2>6. \A u \in DOMAIN pending' : pending'[u] \in Live' /\ calls'[pending'[u]].tag = u
    BY <1>c, <2>1, <2>2, <2>3, <2>5
  <2>7. \A r \in Live' : calls'[r].tag \in DOMAIN pending' /\ pending'[calls'[r].tag] = r
    BY <1>c, <2>1, <2>2, <2>4, <2>5
  <2> QED
    BY <2>6, <2>7, Zenon DEF PendInv
<1>e. FlyInv'
  <2>1. Flying' = Flying
    BY <1>2 DEF Flying
  <2>2. \A a \in Flying : a.of \in 1..n /\ calls'[a.of] = calls[a.of]
    BY <1>7 DEF IInv, FlyInv
  <2>3. \A r \in 1..(n + 1) : calls'[r].answer # None => r \in 1..n /\ calls[r].answer # None
    BY <1>1, <1>7, <1>8
  <2> QED
    BY <1>1, <1>2, <1>7, <2>1, <2>2, <2>3 DEF IInv, FlyInv
<1>f. Lost' = Lost
  <2>1. \A s \in {"timeout", "refused"} : In(s)' = In(s)
    BY <1>1, <1>7, <1>8, Typing DEF In, Newest, SeqInv, IInv
  <2> QED
    BY <2>1 DEF Lost, GivenUp
<1>g. LostInv'
  BY <1>f DEF IInv, LostInv
<1>h. BusyInv'
  <2>1. GivenUp \subseteq GivenUp'
    BY <1>1, <1>7 DEF GivenUp, In, Newest
  <2> QED
    BY <1>2, <1>7, <2>1, BusyKept
<1> QED
  BY <1>a, <1>b, <1>d, <1>e, <1>g, <1>h DEF IInv

\* One request moves to another state, and nothing else does.
Moved(r, s) ==
    /\ r \in 1..Newest /\ s \in {"waiting", "returned", "timeout", "refused"}
    /\ calls' = [calls EXCEPT ![r].state = s]
    /\ crossing' = crossing \ {r} /\ now' = now + 1
    /\ UNCHANGED <<tag, history, owed, applied, arriving>>

LEMMA MovedCalls ==
    ASSUME IInv, NEW r, NEW s, Moved(r, s)
    PROVE  /\ r \in 1..Newest /\ Newest' = Newest /\ Newest \in Nat
           /\ calls' \in Seq(Calls) /\ DOMAIN calls' = 1..Newest
           /\ \A q \in 1..Newest : /\ q # r => calls'[q] = calls[q]
                                   /\ calls'[q].tag = calls[q].tag
                                   /\ calls'[q].t_write = calls[q].t_write
                                   /\ calls'[q].answer = calls[q].answer
           /\ calls'[r].state = s
<1>1. calls \in Seq(Calls) /\ r \in 1..Len(calls) /\ s \in States
  BY DEF IInv, SeqInv, Moved, States, Newest
<1>2. calls' = [calls EXCEPT ![r].state = s]
  BY DEF Moved
<1> QED
  BY <1>1, <1>2, Restated DEF Newest

LEMMA MovedInv ==
    ASSUME IInv, NEW r, NEW s, Moved(r, s),
           s = "returned" => calls[r].answer = r,
           s # "returned" => calls[r].answer = None,
           s = "waiting" => r >= Newest - 1,
           s = "refused" => r \in crossing
    PROVE  SeqInv' /\ CallInv' /\ FlyInv'
<1>1. /\ now' = now + 1 /\ now \in Nat /\ crossing' = crossing \ {r}
      /\ s \in {"waiting", "returned", "timeout", "refused"}
      /\ UNCHANGED <<tag, history, owed, applied, arriving>>
  BY DEF Moved, IInv, SeqInv
<1>2. SeqInv'
  <2>1. tag' = Newest' % Tags
    BY <1>1, MovedCalls DEF IInv, SeqInv
  <2>2. crossing' \subseteq 1..Newest' /\ applied' \subseteq 1..Newest'
    BY <1>1, MovedCalls DEF IInv, SeqInv
  <2> QED
    BY <1>1, <2>1, <2>2, MovedCalls DEF IInv, SeqInv, Room
<1>3. CallInv'
  <2> SUFFICES ASSUME NEW q \in 1..Newest PROVE CallOK(q)'
    BY MovedCalls DEF CallInv
  <2>1. CallOK(q) /\ calls[q].t_write \in Nat
    BY Typing DEF IInv, CallInv, Calls
  <2>2. calls'[q].tag = q % Tags /\ calls'[q].answer \in {None, q}
    BY <2>1, MovedCalls DEF CallOK
  <2>3. calls'[q].t_write < now'
    BY <1>1, <2>1, MovedCalls DEF CallOK
  <2>4. /\ calls'[q].state = "returned" => calls'[q].answer = q
        /\ calls'[q].state \in {"waiting", "timeout", "refused"} => calls'[q].answer = None
    BY <2>1, <1>1, MovedCalls DEF CallOK
  <2>5. /\ calls'[q].state = "writing" => q = Newest'
        /\ calls'[q].state = "waiting" => q >= Newest' - 1
    BY <2>1, <1>1, MovedCalls DEF CallOK
  <2>6. q \in crossing' => calls'[q].state = "writing" /\ calls'[q].answer = None
    BY <2>1, <1>1, MovedCalls DEF CallOK
  <2>7. \A p \in 1..Newest' : q < p => calls'[q].t_write < calls'[p].t_write
    BY <2>1, MovedCalls DEF CallOK
  <2> QED
    BY <2>2, <2>3, <2>4, <2>5, <2>6, <2>7, Zenon DEF CallOK
<1>4. FlyInv'
  <2>1. Flying' = Flying
    BY <1>1 DEF Flying
  <2>2. \A a \in Flying : a.of \in 1..Newest /\ a.of \notin crossing /\ calls[a.of].state # "refused"
    BY DEF IInv, FlyInv
  <2>3. \A a \in Flying : calls'[a.of].state # "refused"
    BY <2>2, <1>1, MovedCalls
  <2> QED
    BY <1>1, <2>1, <2>2, <2>3, MovedCalls DEF IInv, FlyInv
<1> QED
  BY <1>2, <1>3, <1>4

LEMMA MovedKeeps ==
    ASSUME IInv, NEW r, NEW s, Moved(r, s), calls[r].state # "timeout", calls[r].state # "refused"
    PROVE  /\ GivenUp \subseteq GivenUp'
           /\ Lost' = IF s \in {"timeout", "refused"} THEN Lost \cup {r} ELSE Lost
<1>1. DOMAIN calls = 1..Newest /\ s \in {"waiting", "returned", "timeout", "refused"}
  BY Typing DEF IInv, Moved
<1>2. \A q \in 1..Newest : q # r => calls'[q].state = calls[q].state
  BY MovedCalls
<1>3. \A q : q \in Lost <=> q \in 1..Newest /\ calls[q].state \in {"timeout", "refused"}
  BY <1>1 DEF Lost, GivenUp, In
<1>4. \A q : q \in Lost' <=> q \in 1..Newest /\ calls'[q].state \in {"timeout", "refused"}
  BY MovedCalls DEF Lost, GivenUp, In
<1>5. GivenUp \subseteq GivenUp'
  BY <1>1, <1>2, MovedCalls DEF GivenUp, In
<1>6. \A q : q \in Lost' <=> q \in (IF s \in {"timeout", "refused"} THEN Lost \cup {r} ELSE Lost)
  BY <1>1, <1>2, <1>3, <1>4, MovedCalls
<1> QED
  BY <1>5, <1>6

LEMMA MovedBusy ==
    ASSUME IInv, BusyInv, NEW r, NEW s, Moved(r, s),
           calls[r].state # "timeout", calls[r].state # "refused"
    PROVE  BusyInv'
<1>1. GivenUp \subseteq GivenUp'
  BY MovedKeeps
<1>2. UNCHANGED <<history, arriving, owed>>
  BY DEF Moved
<1> QED
  BY <1>1, <1>2, MovedCalls, BusyKept

LEMMA WrittenInv ==
    ASSUME IInv, BusyInv, NEW r \in DOMAIN calls, Written(r)
    PROVE  IInv' /\ BusyInv'
<1> DEFINE s == IF calls[r].answer # None THEN "returned" ELSE "waiting"
<1>1. /\ r \in 1..Newest /\ calls[r].state = "writing" /\ r \notin crossing
      /\ CallOK(r) /\ pending' = pending
  BY Typing DEF IInv, Written, CallInv
<1>2. Moved(r, s)
  BY <1>1 DEF Written, Moved
<1>3. /\ s = "returned" => calls[r].answer = r
      /\ s # "returned" => calls[r].answer = None
      /\ s = "waiting" => r >= Newest - 1
      /\ s \in {"returned", "waiting"}
  BY <1>1, Typing DEF CallOK, None, IInv
<1>4. Live' = Live
  <2>1. \A q \in 1..Newest : q # r => (q \in Live' <=> q \in Live)
    BY <1>2, MovedCalls DEF Live
  <2>2. r \in Live' <=> r \in Live
    BY <1>1, <1>2, MovedCalls DEF Live
  <2> QED
    BY <2>1, <2>2, <1>2, MovedCalls DEF Live
<1> HIDE DEF s
<1>5. PendInv'
  <2>1. \A q \in Live : calls'[q].tag = calls[q].tag
    BY <1>2, MovedCalls DEF Live
  <2> QED
    BY <1>1, <1>4, <2>1 DEF IInv, PendInv
<1>6. LostInv'
  <2>1. Lost' = Lost
    BY <1>1, <1>2, <1>3, MovedKeeps
  <2> QED
    BY <2>1 DEF IInv, LostInv
<1>7. SeqInv' /\ CallInv' /\ FlyInv'
  BY <1>2, <1>3, MovedInv
<1>8. BusyInv'
  BY <1>1, <1>2, MovedBusy
<1> QED
  BY <1>5, <1>6, <1>7, <1>8 DEF IInv

\* A request given up or refused leaves the table with its tag.
LEMMA LoseInv ==
    ASSUME IInv, BusyInv, NEW r \in Live, NEW s \in {"timeout", "refused"}, Moved(r, s),
           s = "refused" => r \in crossing,
           pending' = Without(calls[r].tag), MayLose
    PROVE  IInv' /\ BusyInv'
<1>1. r \in 1..Newest /\ calls[r].state \in {"writing", "waiting"} /\ calls[r].answer = None
  BY DEF Live
<1>2. Live' = Live \ {r}
  <2>1. \A q \in 1..Newest : q # r => (q \in Live' <=> q \in Live)
    BY MovedCalls DEF Live
  <2>2. r \notin Live'
    BY MovedCalls DEF Live
  <2> QED
    BY <2>1, <2>2, MovedCalls DEF Live
<1>3. PendInv'
  <2>1. \A q \in Live : calls'[q].tag = calls[q].tag
    BY MovedCalls DEF Live
  <2>2. /\ \A t \in DOMAIN pending : pending[t] \in Live /\ calls[pending[t]].tag = t
        /\ \A q \in Live : calls[q].tag \in DOMAIN pending /\ pending[calls[q].tag] = q
    BY DEF IInv, PendInv
  <2>3. /\ DOMAIN pending' = DOMAIN pending \ {calls[r].tag}
        /\ \A t \in DOMAIN pending' : pending'[t] = pending[t]
    BY DEF Without
  <2>4. \A t \in DOMAIN pending' : pending'[t] \in Live' /\ calls'[pending'[t]].tag = t
    BY <1>2, <2>1, <2>2, <2>3
  <2>5. \A q \in Live' : calls'[q].tag \in DOMAIN pending' /\ pending'[calls'[q].tag] = q
    BY <1>2, <2>1, <2>2, <2>3
  <2> QED
    BY <2>4, <2>5 DEF PendInv
<1>4. LostInv'
  <2>1. Lost' = Lost \cup {r} /\ r \notin Lost
    BY <1>1, MovedKeeps DEF Lost, GivenUp, In
  <2>2. IsFiniteSet(Lost) /\ Cardinality(Lost) \in Nat
    BY LostFinite, FS_CardinalityType DEF IInv
  <2>3. Cardinality(Lost \cup {r}) = Cardinality(Lost) + 1
    BY <2>1, <2>2, FS_AddElement
  <2>4. Cardinality(Lost) < Losses
    BY DEF MayLose, Lost
  <2> QED
    BY <2>1, <2>2, <2>3, <2>4, TagsType DEF LostInv
<1>5. SeqInv' /\ CallInv' /\ FlyInv'
  BY <1>1, MovedInv
<1>6. BusyInv'
  BY <1>1, MovedBusy
<1> QED
  BY <1>3, <1>4, <1>5, <1>6 DEF IInv

LEMMA RefusedInv ==
    ASSUME IInv, BusyInv, NEW r \in DOMAIN calls, Refused(r)
    PROVE  IInv' /\ BusyInv'
<1>1. r \in 1..Newest /\ r \in crossing /\ CallOK(r)
  BY Typing DEF IInv, CallInv, Refused
<1>2. r \in Live
  BY <1>1 DEF CallOK, Live
<1>3. Moved(r, "refused") /\ pending' = Without(calls[r].tag) /\ MayLose
  BY <1>1 DEF Refused, Moved
<1> QED
  BY <1>1, <1>2, <1>3, LoseInv

LEMMA TimeOutInv ==
    ASSUME IInv, BusyInv, NEW r \in DOMAIN calls, TimeOut(r)
    PROVE  IInv' /\ BusyInv'
<1>1. r \in 1..Newest /\ calls[r].state = "waiting" /\ CallOK(r)
  BY Typing DEF IInv, CallInv, TimeOut
<1>2. r \in Live /\ r \notin crossing
  BY <1>1 DEF CallOK, Live
<1>3. Moved(r, "timeout") /\ pending' = Without(calls[r].tag) /\ MayLose
  BY <1>1, <1>2 DEF TimeOut, Moved
<1> QED
  BY <1>1, <1>2, <1>3, LoseInv


\* A response is composed: the newest of them all, behind those still owed.
LEMMA ReachInv ==
    ASSUME IInv, BusyInv, NEW r \in DOMAIN calls, Reach(r)
    PROVE  IInv' /\ BusyInv'
<1> DEFINE answer(s) == [tag |-> calls[r].tag, of |-> r, status |-> s]
<1>1. /\ r \in 1..Newest /\ r \in crossing /\ Newest \in Nat /\ CallOK(r)
      /\ calls[r] \in Calls /\ r = Newest /\ calls[r].answer = None /\ calls[r].state = "writing"
  BY Typing DEF IInv, CallInv, CallOK, Reach
<1>2. /\ crossing' = crossing \ {r} /\ now' = now + 1 /\ now \in Nat
      /\ UNCHANGED <<tag, pending, calls, history, arriving>>
  BY DEF Reach, IInv, SeqInv
<1>3. Newest' = Newest /\ Live' = Live /\ Lost' = Lost
  BY <1>2 DEF Newest, Live, Lost, GivenUp, In
<1>4. answer("ok") \in Answers /\ answer("busy") \in Answers
  BY <1>1 DEF Calls, Answers
<1>5. owed' \in Seq(Answers) /\ Len(owed') <= Room /\ applied' \subseteq 1..Newest
  <2>1. CASE owed' = <<answer("ok")>> /\ applied' = applied \cup {r}
    BY <1>1, <1>4, <2>1 DEF IInv, SeqInv, Room
  <2>2. CASE owed' = Append(owed, answer("busy")) /\ Len(owed) < Room /\ applied' = applied
    BY <1>4, <2>2 DEF IInv, SeqInv, Room
  <2>3. CASE owed' = owed /\ applied' = applied
    BY <2>3 DEF IInv, SeqInv
  <2> QED
    BY <2>1, <2>2, <2>3 DEF Reach, IInv, SeqInv
<1>6. SeqInv'
  <2>1. tag' = Newest' % Tags
    BY <1>2, <1>3 DEF IInv, SeqInv
  <2>2. crossing' \subseteq 1..Newest' /\ applied' \subseteq 1..Newest'
    BY <1>2, <1>3, <1>5 DEF IInv, SeqInv
  <2> QED
    BY <1>2, <1>5, <2>1, <2>2 DEF IInv, SeqInv
<1>7. CallInv'
  <2> SUFFICES ASSUME NEW q \in 1..Newest PROVE CallOK(q)'
    BY <1>3 DEF CallInv
  <2>1. CallOK(q) /\ calls[q].t_write \in Nat
    BY Typing DEF IInv, CallInv, Calls
  <2>2. calls[q].t_write < now'
    BY <1>2, <2>1 DEF CallOK
  <2> QED
    BY <1>2, <1>3, <2>1, <2>2, Zenon DEF CallOK
<1>8. PendInv' /\ LostInv'
  BY <1>2, <1>3 DEF IInv, PendInv, LostInv
<1>9. \A b \in Flying : b.of \in 1..Newest /\ b.of < r
  BY <1>1 DEF IInv, FlyInv
<1> HIDE DEF answer
<1>10. \A q \in 1..Newest : calls[q].answer # None => q < r
  BY <1>1
<1>11. /\ \A s : answer(s).of = r /\ answer(s).tag = r % Tags /\ answer(s).status = s
       /\ \A i \in 1..Len(arriving) : arriving[i] \in Flying
       /\ \A i \in 1..Len(owed) : owed[i] \in Flying
       /\ Len(arriving) \in Nat /\ Len(owed) \in Nat
  BY <1>1, Typing DEF answer, CallOK, Flying, IInv
<1>12. \A b \in Flying : /\ b.of \in 1..Newest /\ b.of \notin crossing' /\ b.tag = b.of % Tags
                         /\ calls[b.of].state # "refused"
                         /\ \A q \in 1..Newest : calls[q].answer # None => q < b.of
  BY <1>2 DEF IInv, FlyInv
<1>13. CASE owed = <<>> /\ owed' = <<answer("ok")>>
  <2>1. Len(owed') = 1 /\ owed'[1] = answer("ok") /\ Len(owed) = 0
    BY <1>13
  <2>2. Flying' = Flying \cup {answer("ok")}
    BY <1>2, <2>1 DEF Flying
  <2>3. FlyInv'
    BY <1>1, <1>2, <1>3, <1>9, <1>10, <1>11, <1>12, <2>1, <2>2 DEF IInv, FlyInv
  <2>4. BusyInv'
    BY <1>2, <1>11, <2>2 DEF BusyInv, Overlapped, GivenUp, In
  <2> QED
    BY <1>6, <1>7, <1>8, <2>3, <2>4 DEF IInv
<1>14. CASE owed # <<>> /\ owed' = Append(owed, answer("busy"))
  <2>0. owed \in Seq(Answers) /\ answer("busy") \in Answers /\ Len(owed) > 0
    BY <1>4, <1>14 DEF IInv, SeqInv, answer
  <2>1. /\ Len(owed') = Len(owed) + 1 /\ owed'[Len(owed) + 1] = answer("busy")
        /\ \A i \in 1..Len(owed) : owed'[i] = owed[i]
    BY <1>14, <2>0, Append1
  <2>2. Flying' = Flying \cup {answer("busy")}
    <3>1. \A b : (\E i \in 1..Len(owed') : owed'[i] = b)
              <=> (\E i \in 1..Len(owed) : owed[i] = b) \/ b = answer("busy")
      BY <1>11, <2>1
    <3> QED
      BY <1>2, <3>1 DEF Flying
  <2>3. FlyInv'
    <3>1. \A b \in Flying' : /\ b.of \in 1..Newest' /\ b.of \notin crossing' /\ b.tag = b.of % Tags
                             /\ calls'[b.of].state # "refused"
                             /\ \A q \in 1..Newest' : calls'[q].answer # None => q < b.of
      BY <1>1, <1>2, <1>3, <1>10, <1>11, <1>12, <2>2
    <3>2. \A i, j \in 1..Len(owed') : i < j => owed'[i].of < owed'[j].of
      <4> SUFFICES ASSUME NEW i \in 1..Len(owed'), NEW j \in 1..Len(owed'), i < j
                   PROVE  owed'[i].of < owed'[j].of
        OBVIOUS
      <4>1. i \in 1..Len(owed) /\ owed'[i] = owed[i] /\ owed[i].of < r
        BY <1>9, <1>11, <2>1
      <4>2. CASE j \in 1..Len(owed)
        <5>1. owed[i].of < owed[j].of
          BY <4>1, <4>2 DEF IInv, FlyInv
        <5> QED
          BY <2>1, <4>1, <4>2, <5>1
      <4>3. CASE j = Len(owed) + 1
        BY <1>11, <2>1, <4>1, <4>3
      <4> QED
        BY <1>11, <2>1, <4>2, <4>3
    <3>3. \A i \in 1..Len(arriving'), j \in 1..Len(owed') : arriving'[i].of < owed'[j].of
      <4> SUFFICES ASSUME NEW i \in 1..Len(arriving), NEW j \in 1..Len(owed')
                   PROVE  arriving[i].of < owed'[j].of
        BY <1>2
      <4>1. CASE j \in 1..Len(owed)
        <5>1. arriving[i].of < owed[j].of
          BY <4>1 DEF IInv, FlyInv
        <5> QED
          BY <2>1, <4>1, <5>1
      <4>2. CASE j = Len(owed) + 1
        BY <1>9, <1>11, <2>1, <4>2
      <4> QED
        BY <1>11, <2>1, <4>1, <4>2
    <3> QED
      BY <1>2, <3>1, <3>2, <3>3 DEF IInv, FlyInv
  <2>4. BusyInv'
    <3>1. owed[1] \in Flying /\ owed[1].of < r
      BY <1>9, <1>11, <2>0
    <3>2. GivenUp' = GivenUp /\ calls' = calls /\ history' = history
      BY <1>2 DEF GivenUp, In
    <3>3. answer("busy").of = r
      BY <1>11
    <3>4. ASSUME NEW a \in Flying', a.status = "busy", GivenUp = {}
          PROVE  Overlapped(calls[a.of].t_write)' \/ \E b \in Flying' : b.of < a.of
      <4>1. CASE a \in Flying
        <5>1. Overlapped(calls[a.of].t_write) \/ \E b \in Flying : b.of < a.of
          BY <3>4, <4>1 DEF BusyInv
        <5> QED
          BY <2>2, <3>2, <5>1 DEF Overlapped
      <4>2. CASE a = answer("busy")
        BY <2>2, <3>1, <3>3, <4>2, Zenon
      <4> QED
        BY <2>2, <3>4, <4>1, <4>2, Zenon
    <3>5. GivenUp = {} => \A i \in 1..Len(history) :
                             history[i].status = "busy" => Overlapped(history[i].t_write)
      BY DEF BusyInv
    <3> QED
      BY <3>2, <3>4, <3>5 DEF BusyInv, Overlapped
  <2> QED
    BY <1>6, <1>7, <1>8, <2>3, <2>4 DEF IInv
<1>15. CASE owed' = owed
  <2>1. Flying' = Flying
    BY <1>2, <1>15 DEF Flying
  <2>2. FlyInv'
    BY <1>2, <1>3, <1>12, <1>15, <2>1 DEF IInv, FlyInv
  <2>3. BusyInv'
    BY <1>2, <2>1 DEF BusyInv, Overlapped, GivenUp, In
  <2> QED
    BY <1>6, <1>7, <1>8, <2>2, <2>3 DEF IInv
<1> QED
  BY <1>13, <1>14, <1>15 DEF Reach, answer

\* The oldest response owed becomes the youngest on its way.
LEMMA SendAnswerInv ==
    ASSUME IInv, BusyInv, SendAnswer
    PROVE  IInv' /\ BusyInv'
<1>1. /\ now' = now + 1 /\ now \in Nat /\ owed # <<>>
      /\ owed \in Seq(Answers) /\ arriving \in Seq(Answers)
      /\ owed' = Tail(owed) /\ arriving' = Append(arriving, Head(owed))
      /\ UNCHANGED <<tag, pending, calls, history, crossing, applied>>
  BY DEF SendAnswer, IInv, SeqInv
<1>2. /\ owed' \in Seq(Answers) /\ Len(owed') = Len(owed) - 1 /\ Len(owed) \in Nat \ {0}
      /\ \A i \in 1..(Len(owed) - 1) : owed'[i] = owed[i + 1]
      /\ Head(owed) = owed[1] /\ Head(owed) \in Answers
  BY <1>1, Tail1
<1>3. /\ arriving' \in Seq(Answers) /\ Len(arriving') = Len(arriving) + 1 /\ Len(arriving) \in Nat
      /\ \A i \in 1..Len(arriving) : arriving'[i] = arriving[i]
      /\ arriving'[Len(arriving) + 1] = owed[1]
  BY <1>1, <1>2, Append1
<1>4. Newest' = Newest /\ Live' = Live /\ Lost' = Lost /\ GivenUp' = GivenUp
  BY <1>1 DEF Newest, Live, Lost, GivenUp, In
<1>5. Flying' = Flying
  <2>1. \A b : (\E i \in 1..Len(arriving') : arriving'[i] = b)
           <=> (\E i \in 1..Len(arriving) : arriving[i] = b) \/ b = owed[1]
    BY <1>3
  <2>2. \A b : (\E i \in 1..Len(owed) : owed[i] = b)
           <=> (\E i \in 1..Len(owed') : owed'[i] = b) \/ b = owed[1]
    <3>1. \A i \in 1..Len(owed) : i = 1 \/ (i - 1 \in 1..Len(owed') /\ owed'[i - 1] = owed[i])
      BY <1>2
    <3>2. \A i \in 1..Len(owed') : i + 1 \in 1..Len(owed) /\ owed'[i] = owed[i + 1]
      BY <1>2
    <3>3. 1 \in 1..Len(owed)
      BY <1>2
    <3> QED
      BY <3>1, <3>2, <3>3
  <2>3. \A b : b \in Flying <=> (\E i \in 1..Len(arriving) : arriving[i] = b)
                                 \/ \E i \in 1..Len(owed) : owed[i] = b
    BY DEF Flying
  <2>4. \A b : b \in Flying' <=> (\E i \in 1..Len(arriving') : arriving'[i] = b)
                                  \/ \E i \in 1..Len(owed') : owed'[i] = b
    BY DEF Flying
  <2>5. \A b : b \in Flying' <=> b \in Flying
    BY <2>1, <2>2, <2>3, <2>4, Zenon
  <2> QED
    BY <2>5 DEF Flying
<1>6. SeqInv'
  BY <1>1, <1>2, <1>3, <1>4 DEF IInv, SeqInv, Room
<1>7. CallInv'
  <2> SUFFICES ASSUME NEW q \in 1..Newest PROVE CallOK(q)'
    BY <1>4 DEF CallInv
  <2>1. CallOK(q) /\ calls[q].t_write \in Nat
    BY Typing DEF IInv, CallInv, Calls
  <2>2. calls[q].t_write < now'
    BY <1>1, <2>1 DEF CallOK
  <2> QED
    BY <1>1, <1>4, <2>1, <2>2, Zenon DEF CallOK
<1>8. PendInv' /\ LostInv'
  BY <1>1, <1>4 DEF IInv, PendInv, LostInv
<1>9. FlyInv'
  <2>1. \A i \in 1..Len(owed') : i + 1 \in 1..Len(owed) /\ 1 < i + 1 /\ owed'[i] = owed[i + 1]
    BY <1>2
  <2>2. \A i, j \in 1..Len(owed') : i < j => owed'[i].of < owed'[j].of
    BY <2>1 DEF IInv, FlyInv
  <2>3. \A j \in 1..Len(owed') : owed[1].of < owed'[j].of
    BY <1>2, <2>1 DEF IInv, FlyInv
  <2>4. \A i \in 1..Len(arriving) : arriving[i].of < owed[1].of
    BY <1>2 DEF IInv, FlyInv
  <2>5. \A i, j \in 1..Len(arriving') : i < j => arriving'[i].of < arriving'[j].of
    BY <1>3, <2>4 DEF IInv, FlyInv
  <2>6. \A i \in 1..Len(arriving'), j \in 1..Len(owed') : arriving'[i].of < owed'[j].of
    <3> SUFFICES ASSUME NEW i \in 1..Len(arriving'), NEW j \in 1..Len(owed')
                 PROVE  arriving'[i].of < owed'[j].of
      OBVIOUS
    <3>1. CASE i \in 1..Len(arriving)
      <4>1. arriving[i].of < owed[j + 1].of
        BY <2>1, <3>1 DEF IInv, FlyInv
      <4> QED
        BY <1>3, <2>1, <3>1, <4>1
    <3>2. CASE i = Len(arriving) + 1
      BY <1>3, <2>3, <3>2
    <3> QED
      BY <1>3, <3>1, <3>2
  <2> QED
    BY <1>1, <1>4, <1>5, <2>2, <2>5, <2>6 DEF IInv, FlyInv
<1>10. BusyInv'
  BY <1>1, <1>4, <1>5 DEF BusyInv, Overlapped
<1> QED
  BY <1>6, <1>7, <1>8, <1>9, <1>10 DEF IInv


\* A response arrives: it completes the request it answers, if that one is still open.
LEMMA IndicationInv ==
    ASSUME IInv, BusyInv, Indication
    PROVE  IInv' /\ BusyInv'
<1> DEFINE a == Head(arriving)
           n == a.of
<1>1. /\ now' = now + 1 /\ now \in Nat /\ arriving # <<>> /\ arriving \in Seq(Answers)
      /\ arriving' = Tail(arriving) /\ history' = Append(history, Recorded(a))
      /\ history \in Seq(Entries) /\ UNCHANGED <<tag, crossing, owed, applied>>
  BY DEF Indication, IInv, SeqInv
<1>0. /\ calls' = [r \in DOMAIN calls |->
                 IF r \notin Answered(a) THEN calls[r]
                 ELSE [calls[r] EXCEPT !.answer = a.of,
                                       !.state = IF @ = "waiting" THEN "returned" ELSE @]]
      /\ pending' = [t \in {u \in DOMAIN pending : pending[u] \notin Answered(a)} |-> pending[t]]
  BY DEF Indication
<1>2. /\ arriving' \in Seq(Answers) /\ Len(arriving') = Len(arriving) - 1
      /\ Len(arriving) \in Nat \ {0}
      /\ \A i \in 1..(Len(arriving) - 1) : arriving'[i] = arriving[i + 1]
      /\ a = arriving[1] /\ a \in Answers
  BY <1>1, Tail1
<1>3. a \in Flying /\ Flying' \subseteq Flying /\ Flying \subseteq Flying' \cup {a}
  <2>1. \A i \in 1..Len(arriving) : i = 1 \/ (i - 1 \in 1..Len(arriving') /\ arriving'[i - 1] = arriving[i])
    BY <1>2
  <2>2. \A i \in 1..Len(arriving') : i + 1 \in 1..Len(arriving) /\ arriving'[i] = arriving[i + 1]
    BY <1>2
  <2>3. 1 \in 1..Len(arriving)
    BY <1>2
  <2> HIDE DEF a
  <2> DEFINE coming == {arriving[i] : i \in 1..Len(arriving)}
             rest == {arriving'[i] : i \in 1..Len(arriving')}
  <2>4. rest \subseteq coming
    BY <2>2
  <2>5. coming \subseteq rest \cup {a} /\ a \in coming
    BY <1>2, <2>1, <2>3
  <2>6. Flying = coming \cup {owed[i] : i \in 1..Len(owed)}
    BY DEF Flying
  <2>7. Flying' = rest \cup {owed[i] : i \in 1..Len(owed)}
    BY <1>1 DEF Flying
  <2> HIDE DEF coming, rest
  <2> QED
    BY <2>4, <2>5, <2>6, <2>7
<1> HIDE DEF a
<1>4. \A b \in Flying' : a.of < b.of /\ b \in Flying
  <2>1. \A i \in 1..Len(arriving') : i + 1 \in 1..Len(arriving) /\ 1 < i + 1 /\ arriving'[i] = arriving[i + 1]
    BY <1>2
  <2>2. \A i \in 1..Len(arriving') : arriving[1].of < arriving'[i].of
    BY <1>2, <2>1 DEF IInv, FlyInv
  <2>3. \A j \in 1..Len(owed) : arriving[1].of < owed[j].of
    BY <1>2 DEF IInv, FlyInv
  <2> QED
    BY <1>1, <1>2, <1>3, <2>2, <2>3 DEF Flying
<1>5. /\ n \in 1..Newest /\ n \notin crossing /\ a.tag = n % Tags
      /\ calls[n].state # "refused" /\ calls[n].answer = None
      /\ calls \in Seq(Calls) /\ calls[n] \in Calls /\ Newest \in Nat /\ DOMAIN calls = 1..Newest
  <2>1. /\ n \in 1..Newest /\ n \notin crossing /\ a.tag = n % Tags /\ calls[n].state # "refused"
        /\ \A r \in 1..Newest : calls[r].answer # None => r < n
    BY <1>3 DEF IInv, FlyInv
  <2>2. ~(n < n)
    BY <2>1, Typing DEF IInv
  <2> QED
    BY <2>1, <2>2, Typing DEF IInv, SeqInv
<1>6. Answered(a) = {n} \cap Live
  <2>1. /\ \A t \in DOMAIN pending : pending[t] \in Live /\ calls[pending[t]].tag = t
        /\ \A r \in Live : calls[r].tag \in DOMAIN pending /\ pending[calls[r].tag] = r
    BY DEF IInv, PendInv
  <2>2. a.tag \in DOMAIN pending => pending[a.tag] = n
    BY <1>3, <2>1, NearBy
  <2>3. n \in Live => calls[n].tag = a.tag
    BY <1>5 DEF IInv, CallInv, CallOK
  <2>4. \A r : r \in Answered(a) <=> a.tag \in DOMAIN pending /\ r = pending[a.tag]
    BY DEF Answered
  <2> QED
    BY <2>1, <2>2, <2>3, <2>4
<1> DEFINE done == [calls[n] EXCEPT !.answer = n, !.state = IF @ = "waiting" THEN "returned" ELSE @]
<1> HIDE DEF n
<1>7. done \in Calls /\ done.answer = n /\ done.tag = calls[n].tag /\ done.t_write = calls[n].t_write
      /\ done.state = IF calls[n].state = "waiting" THEN "returned" ELSE calls[n].state
  <2> DEFINE c == calls[n]
             s == IF c.state = "waiting" THEN "returned" ELSE c.state
  <2>1. c \in Calls /\ s \in States /\ n \in Nat
    BY <1>5 DEF Calls, States
  <2>2. done = [[c EXCEPT !.answer = n] EXCEPT !.state = s]
    BY <2>1 DEF Calls
  <2> HIDE DEF c, s, done
  <2>3. [c EXCEPT !.answer = n] \in Calls
    BY <2>1 DEF Calls
  <2>4. done \in Calls
    BY <2>1, <2>2, <2>3 DEF Calls
  <2>5. done.answer = n /\ done.tag = c.tag /\ done.t_write = c.t_write /\ done.state = s
    BY <2>1, <2>2 DEF Calls
  <2> QED
    BY <2>4, <2>5 DEF c, s
<1>70. done = [calls[n] EXCEPT !.answer = a.of, !.state = IF @ = "waiting" THEN "returned" ELSE @]
  BY DEF n
<1> HIDE DEF done
<1>8. \A r \in 1..Newest : calls'[r] = IF r = n /\ n \in Live THEN done ELSE calls[r]
  BY <1>0, <1>5, <1>6, <1>70
<1>9. calls' \in Seq(Calls) /\ Newest' = Newest /\ DOMAIN calls' = 1..Newest
  <2>1. calls' = [r \in 1..Newest |-> IF r = n /\ n \in Live THEN done ELSE calls[r]]
    BY <1>0, <1>5, <1>6, <1>70
  <2>2. \A r \in 1..Newest : (IF r = n /\ n \in Live THEN done ELSE calls[r]) \in Calls
    BY <1>7, Typing DEF IInv
  <2>3. calls' \in [1..Newest -> Calls]
    BY <2>1, <2>2
  <2>4. calls' \in Seq(Calls)
    BY <1>5, <2>3
  <2> QED
    BY <1>5, <2>3, <2>4 DEF Newest
<1> HIDE DEF n
<1>10. /\ \A r \in 1..Newest : calls'[r].tag = calls[r].tag /\ calls'[r].t_write = calls[r].t_write
       /\ \A r \in 1..Newest : r # n => calls'[r] = calls[r]
       /\ n \notin Live => calls'[n] = calls[n]
       /\ n \in Live => calls'[n].answer = n /\ calls'[n].state = done.state
  BY <1>5, <1>7, <1>8
<1>11. SeqInv'
  <2>1. Recorded(a) \in Entries
    <3>1. a.tag \in DOMAIN pending => calls[pending[a.tag]].t_write \in Nat
      BY Typing DEF IInv, PendInv, Live, Calls
    <3>2. n \in Nat /\ a.status \in {"ok", "busy"}
      BY <1>2, <1>5 DEF Answers
    <3> QED
      BY <1>1, <3>1, <3>2 DEF Recorded, Entries, n
  <2>2. history' \in Seq(Entries)
    BY <1>1, <2>1 DEF IInv, SeqInv
  <2>3. tag' = Newest' % Tags
    BY <1>1, <1>9 DEF IInv, SeqInv
  <2>4. now' \in Nat
    BY <1>1
  <2> QED
    BY <1>1, <1>2, <1>9, <2>2, <2>3, <2>4 DEF IInv, SeqInv
<1>12. CallInv'
  <2> SUFFICES ASSUME NEW r \in 1..Newest PROVE CallOK(r)'
    BY <1>9 DEF CallInv
  <2>1. CallOK(r) /\ calls[r].t_write \in Nat
    BY Typing DEF IInv, CallInv, Calls
  <2>2. calls'[r].t_write < now' /\ calls'[r].tag = r % Tags
    BY <1>1, <1>10, <2>1 DEF CallOK
  <2>3. \A q \in 1..Newest' : r < q => calls'[r].t_write < calls'[q].t_write
    BY <1>9, <1>10, <2>1 DEF CallOK
  <2>4. CASE r = n /\ n \in Live
    <3>1. calls'[r].answer = r /\ calls'[r].state = done.state /\ r \notin crossing'
      BY <1>1, <1>5, <1>10, <2>4
    <3>2. calls[r].state \in {"writing", "waiting"}
      BY <2>4 DEF Live
    <3>3. calls'[r].state \in {"writing", "returned"} /\ (calls'[r].state = "writing" => calls[r].state = "writing")
      BY <1>7, <2>4, <3>1, <3>2
    <3> QED
      BY <1>9, <2>1, <2>2, <2>3, <3>1, <3>3, Zenon DEF CallOK
  <2>5. CASE ~(r = n /\ n \in Live)
    <3>1. calls'[r] = calls[r]
      BY <1>10, <2>5
    <3> QED
      BY <1>1, <1>9, <2>1, <2>2, <2>3, <3>1, Zenon DEF CallOK
  <2> QED
    BY <2>4, <2>5
<1>13. Live' = Live \ {n}
  <2>1. \A r \in 1..Newest : r # n => (r \in Live' <=> r \in Live)
    BY <1>9, <1>10 DEF Live
  <2>2. n \notin Live'
    BY <1>5, <1>9, <1>10 DEF Live, None
  <2> QED
    BY <1>9, <2>1, <2>2 DEF Live
<1>14. PendInv'
  <2>1. \A r \in Live : calls'[r].tag = calls[r].tag
    BY <1>10 DEF Live
  <2>2. /\ \A t \in DOMAIN pending : pending[t] \in Live /\ calls[pending[t]].tag = t
        /\ \A r \in Live : calls[r].tag \in DOMAIN pending /\ pending[calls[r].tag] = r
    BY DEF IInv, PendInv
  <2>3. \A t : t \in DOMAIN pending' <=> t \in DOMAIN pending /\ pending[t] # n
    BY <1>0, <1>6, <2>2
  <2>4. \A t \in DOMAIN pending' : pending'[t] = pending[t]
    BY <1>0
  <2>5. \A t \in DOMAIN pending' : pending'[t] \in Live' /\ calls'[pending'[t]].tag = t
    BY <1>13, <2>1, <2>2, <2>3, <2>4
  <2>6. \A r \in Live' : calls'[r].tag \in DOMAIN pending' /\ pending'[calls'[r].tag] = r
    BY <1>13, <2>1, <2>2, <2>3, <2>4
  <2> QED
    BY <2>5, <2>6 DEF PendInv
<1>15. \A r \in 1..Newest : \A s \in {"timeout", "refused"} : calls'[r].state = s <=> calls[r].state = s
  BY <1>7, <1>10
<1>16. FlyInv'
  <2>1. \A b \in Flying' : /\ b.of \in 1..Newest' /\ b.of \notin crossing' /\ b.tag = b.of % Tags
                           /\ calls'[b.of].state # "refused"
    BY <1>1, <1>4, <1>9, <1>15 DEF IInv, FlyInv
  <2>2. \A b \in Flying' : \A r \in 1..Newest' : calls'[r].answer # None => r < b.of
    BY <1>4, <1>9, <1>10 DEF IInv, FlyInv, n
  <2>3. \A i \in 1..Len(arriving') : i + 1 \in 1..Len(arriving) /\ arriving'[i] = arriving[i + 1]
    BY <1>2
  <2>4. \A i, j \in 1..Len(arriving') : i < j => arriving'[i].of < arriving'[j].of
    <3> SUFFICES ASSUME NEW i \in 1..Len(arriving'), NEW j \in 1..Len(arriving'), i < j
                 PROVE  arriving'[i].of < arriving'[j].of
      OBVIOUS
    <3>1. i + 1 < j + 1
      BY <1>2
    <3> QED
      BY <2>3, <3>1 DEF IInv, FlyInv
  <2>5. \A i \in 1..Len(arriving'), j \in 1..Len(owed) : arriving'[i].of < owed[j].of
    BY <2>3 DEF IInv, FlyInv
  <2> QED
    BY <1>1, <2>1, <2>2, <2>4, <2>5 DEF IInv, FlyInv
<1>17. LostInv' /\ GivenUp' = GivenUp
  <2>1. GivenUp' = GivenUp
    BY <1>5, <1>9, <1>15 DEF GivenUp, In
  <2>2. In("refused")' = In("refused")
    BY <1>5, <1>9, <1>15 DEF In
  <2> QED
    BY <2>1, <2>2 DEF IInv, LostInv, Lost
<1>18. BusyInv'
  <2> SUFFICES ASSUME GivenUp = {} PROVE BusyInv'
    BY <1>17 DEF BusyInv
  <2>1. n \in Live
    <3>1. n \notin GivenUp /\ CallOK(n) /\ calls[n].state \in States
      BY <1>5, Typing DEF IInv, CallInv, Calls
    <3>2. calls[n].state \notin {"timeout", "refused", "returned"}
      BY <1>5, <3>1 DEF GivenUp, In, CallOK, None
    <3> QED
      BY <1>5, <3>1, <3>2 DEF Live, States
  <2>2. a.tag \in DOMAIN pending /\ pending[a.tag] = n
    <3>1. calls[n].tag = a.tag
      BY <1>5 DEF IInv, CallInv, CallOK
    <3> QED
      BY <2>1, <3>1 DEF IInv, PendInv
  <2>3. Recorded(a) = [of |-> n, status |-> a.status, t_recv |-> now, t_write |-> calls[n].t_write]
    BY <2>2 DEF Recorded, n
  <2>4. /\ history \in Seq(Entries) /\ Len(history') = Len(history) + 1 /\ Len(history) \in Nat
        /\ \A i \in 1..Len(history) : history'[i] = history[i]
        /\ history'[Len(history) + 1] = Recorded(a)
    BY <1>1 DEF IInv, SeqInv
  <2>5. \A t : Overlapped(t) => \E j \in 1..Len(history') : history'[j].t_write < t /\ t < history'[j].t_recv
    <3> SUFFICES ASSUME NEW t, NEW i \in 1..Len(history), history[i].t_write < t, t < history[i].t_recv
                 PROVE  \E j \in 1..Len(history') : history'[j].t_write < t /\ t < history'[j].t_recv
      BY DEF Overlapped
    <3>1. i \in 1..Len(history') /\ history'[i] = history[i]
      BY <2>4
    <3> QED
      BY <3>1
  <2>6. \A r \in 1..Newest : n < r => Overlapped(calls[r].t_write)'
    <3> SUFFICES ASSUME NEW r \in 1..Newest, n < r PROVE Overlapped(calls[r].t_write)'
      OBVIOUS
    <3>1. calls[n].t_write < calls[r].t_write /\ calls[r].t_write < now /\ calls'[r].t_write = calls[r].t_write
      BY <1>5, <1>10 DEF IInv, CallInv, CallOK
    <3>2. Len(history) + 1 \in 1..Len(history')
      BY <2>4
    <3>3. history'[Len(history) + 1].t_write = calls[n].t_write /\ history'[Len(history) + 1].t_recv = now
      BY <2>3, <2>4
    <3> QED
      BY <3>1, <3>2, <3>3 DEF Overlapped
  <2>7. \A b \in Flying : b.of \in 1..Newest
    BY DEF IInv, FlyInv
  <2>8. \A b \in Flying' : n < b.of /\ b \in Flying
    BY <1>4 DEF n
  <2>9. \A b \in Flying' : Overlapped(calls[b.of].t_write)'
    BY <2>6, <2>7, <2>8
  <2>10. a.status = "busy" => Overlapped(calls[n].t_write)
    <3>1. ~\E b \in Flying : b.of < a.of
      <4> SUFFICES ASSUME NEW b \in Flying, b.of < a.of PROVE FALSE
        OBVIOUS
      <4>1. b = a \/ a.of < b.of
        BY <1>3, <1>4
      <4>2. b.of \in Nat /\ a.of \in Nat
        BY <1>3, Typing DEF IInv, Answers
      <4> QED
        BY <4>1, <4>2
    <3> QED
      BY <1>3, <3>1 DEF BusyInv, n
  <2>11. \A i \in 1..Len(history') : history'[i].status = "busy" => Overlapped(history[i].t_write)'
    <3> SUFFICES ASSUME NEW i \in 1..Len(history'), history'[i].status = "busy"
                 PROVE  Overlapped(history[i].t_write)'
      OBVIOUS
    <3>1. CASE i \in 1..Len(history)
      <4> DEFINE t == history[i].t_write
      <4>1. Overlapped(t) /\ history'[i] = history[i]
        BY <2>4, <3>1 DEF BusyInv
      <4>2. \E j \in 1..Len(history') : history'[j].t_write < t /\ t < history'[j].t_recv
        BY <2>5, <4>1 DEF Overlapped
      <4> QED
        BY <4>1, <4>2 DEF Overlapped
    <3>2. CASE i = Len(history) + 1
      <4> DEFINE t == calls[n].t_write
      <4>1. a.status = "busy" /\ history'[i].t_write = t
        BY <2>3, <2>4, <3>2
      <4>2. \E j \in 1..Len(history') : history'[j].t_write < t /\ t < history'[j].t_recv
        BY <2>5, <2>10, <4>1 DEF Overlapped
      <4> QED
        BY <4>1, <4>2 DEF Overlapped
    <3> QED
      BY <2>4, <3>1, <3>2
  <2> QED
    BY <2>9, <2>11 DEF BusyInv
<1> QED
  BY <1>11, <1>12, <1>14, <1>16, <1>17, <1>18 DEF IInv

-----------------------------------------------------------------------------
(* The theorems *)

LEMMA NextInv == IInv /\ BusyInv /\ [Next]_vars => IInv' /\ BusyInv'
<1> SUFFICES ASSUME IInv, BusyInv, [Next]_vars PROVE IInv' /\ BusyInv'
  OBVIOUS
<1>1. CASE Send
  BY <1>1, SendInv
<1>2. CASE SendAnswer
  BY <1>2, SendAnswerInv
<1>3. CASE Indication
  BY <1>3, IndicationInv
<1>4. ASSUME NEW r \in DOMAIN calls, Written(r) PROVE IInv' /\ BusyInv'
  BY <1>4, WrittenInv
<1>5. ASSUME NEW r \in DOMAIN calls, Refused(r) PROVE IInv' /\ BusyInv'
  BY <1>5, RefusedInv
<1>6. ASSUME NEW r \in DOMAIN calls, TimeOut(r) PROVE IInv' /\ BusyInv'
  BY <1>6, TimeOutInv
<1>7. ASSUME NEW r \in DOMAIN calls, Reach(r) PROVE IInv' /\ BusyInv'
  BY <1>7, ReachInv
<1>8. CASE UNCHANGED vars
  <2>1. SeqInv' /\ CallInv'
    BY <1>8 DEF vars, IInv, SeqInv, CallInv, CallOK, Newest
  <2>2. Live' = Live /\ Flying' = Flying /\ Lost' = Lost /\ GivenUp' = GivenUp
    BY <1>8 DEF vars, Live, Flying, Lost, GivenUp, In, Newest
  <2>3. PendInv' /\ FlyInv' /\ LostInv'
    BY <1>8, <2>2 DEF vars, IInv, PendInv, FlyInv, LostInv, Newest
  <2>4. BusyInv'
    BY <1>8, <2>2 DEF vars, BusyInv, Overlapped
  <2> QED
    BY <2>1, <2>3, <2>4 DEF IInv
<1> QED
  BY <1>1, <1>2, <1>3, <1>4, <1>5, <1>6, <1>7, <1>8 DEF Next

LEMMA Invariant == Spec => [](IInv /\ BusyInv)
<1>1. Init => IInv /\ BusyInv
  BY InitInv
<1>2. IInv /\ BusyInv /\ [Next]_vars => IInv' /\ BusyInv'
  BY NextInv
<1> QED
  BY <1>1, <1>2, PTL DEF Spec

\* Every tag in use stands for a request written under it, one request each, and a device
\* never owes more than it has room for: the state of ControlClient and of _answer is what
\* the code takes it to be, for any number of requests.
THEOREM TypeCorrect == Spec => []TypeOK
<1>1. IInv => TypeOK
  <2> SUFFICES ASSUME IInv PROVE TypeOK
    OBVIOUS
  <2>1. \A t \in DOMAIN pending : /\ pending[t] \in 1..Newest /\ calls[pending[t]].tag = t
                                  /\ calls[pending[t]].tag \in 0..(Tags - 1)
    BY Typing DEF IInv, PendInv, Live, Calls
  <2>2. \A r \in 1..Newest : calls[r].state \in States
    BY Typing DEF IInv, Calls
  <2>3. tag \in 0..(Tags - 1)
    BY Typing, ModType DEF IInv, SeqInv
  <2> QED
    BY <2>1, <2>2, <2>3, Typing DEF IInv, SeqInv, TypeOK, States, Newest
<1> QED
  BY <1>1, Invariant, PTL

\* A caller is handed the answer to its own request, for every number of requests and of
\* tags: so few give up, against the tags there are, that a late answer finds its tag either
\* free or still its own.
THEOREM AnswersFindTheirRequest == Spec => []OwnAnswer
<1>1. IInv => OwnAnswer
  BY Typing DEF IInv, CallInv, CallOK, OwnAnswer
<1> QED
  BY <1>1, Invariant, PTL

\* control.no_unprovoked_busy accuses no conforming device while no caller gave up: a busy
\* answer has always been overlapped by the request answered before it, and that answer is
\* in the history by then, with the time its own request was written.
THEOREM BusyNeverUnprovoked == Spec => []NoFalseAccusation
<1>1. IInv /\ BusyInv => NoFalseAccusation
  <2> SUFFICES ASSUME IInv, BusyInv, GivenUp = {}, NEW x \in Unprovoked PROVE FALSE
    BY DEF NoFalseAccusation
  <2>1. history \in Seq(Entries) /\ DOMAIN history = 1..Len(history)
    BY DEF IInv, SeqInv
  <2>2. PICK k \in 1..Len(history) : x = history[k]
    BY <2>1 DEF Unprovoked, Range
  <2>3. x.status = "busy" /\ Excluded(x)
    BY DEF Unprovoked
  <2>4. PICK i \in 1..Len(history) : history[i].t_write < x.t_write /\ x.t_write < history[i].t_recv
    BY <2>2, <2>3 DEF BusyInv, Overlapped
  <2>5. history[i] # x
    <3>1. history[i] \in Entries /\ history[i].t_write \in Nat
      <4>1. history[i] \in Entries
        BY <2>1
      <4> QED
        BY <4>1 DEF Entries
    <3>2. history[i].t_write < history[i].t_write => FALSE
      BY <3>1
    <3> QED
      BY <2>4, <3>2
  <2> QED
    BY <2>1, <2>3, <2>4, <2>5 DEF Excluded
<1> QED
  BY <1>1, Invariant, PTL
=============================================================================

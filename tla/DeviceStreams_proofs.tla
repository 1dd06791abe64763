------------------------- MODULE DeviceStreams_proofs -------------------------
(***************************************************************************)
(* Proofs about the batches and the loss counter of DeviceStreams, for     *)
(* every capacity, window, timer, sample rate and saturation point.        *)
(*                                                                         *)
(* A poll is three folds: over the samples due, over the frames admitted   *)
(* and over the payloads they filled.  Each is a sequence of steps (lemmas *)
(* ...Stays), and what a step keeps, the fold keeps.                       *)
(***************************************************************************)
EXTENDS DeviceStreams, WellFoundedInduction, TLAPS

-----------------------------------------------------------------------------
(* Folds *)

\* A nonempty set of naturals has a least element.
LEMMA LeastOf ==
    ASSUME NEW S \in SUBSET Nat, S # {}
    PROVE  \E t \in S : \A u \in S : t <= u
<1>1. PICK m \in S : \A u \in S : <<u, m>> \notin OpToRel(<, Nat)
  BY WFMin, NatLessThanWellFounded, Zenon
<1>2. \A u \in S : ~(u < m)
  BY <1>1, Zenon DEF OpToRel
<1> QED
  BY <1>2

\* A set of numbers up to N that holds 0 and, with a number, the next holds them all.
LEMMA UpTo ==
    ASSUME NEW N \in Nat, NEW S, 0 \in S, \A n \in 1..N : n - 1 \in S => n \in S
    PROVE  \A n \in 0..N : n \in S
<1> DEFINE Bad == {n \in 0..N : n \notin S}
<1> SUFFICES ASSUME Bad # {} PROVE FALSE
  OBVIOUS
<1>1. PICK n \in Bad : \A u \in Bad : n <= u
  <2>1. Bad \in SUBSET Nat
    OBVIOUS
  <2> HIDE DEF Bad
  <2> QED
    BY <2>1, LeastOf
<1>2. n \in 1..N /\ n - 1 \in 0..N
  BY <1>1
<1> QED
  BY <1>1, <1>2

LEMMA Nonempty ==
    ASSUME NEW T, NEW q \in Seq(T), q # <<>>
    PROVE  Len(q) \in Nat \ {0} /\ q[1] \in T /\ q[Len(q)] \in T
  OBVIOUS

LEMMA Members ==
    ASSUME NEW T, NEW q \in Seq(T)
    PROVE  Len(q) \in Nat /\ \A n \in 1..Len(q) : q[n] \in T
  OBVIOUS

LEMMA IsSequence ==
    ASSUME NEW T, NEW n \in Nat, NEW f \in [1..n -> T]
    PROVE  f \in Seq(T) /\ Len(f) = n
<1>1. f \in Seq(T)
  OBVIOUS
<1>2. DOMAIN f = 1..n /\ DOMAIN f = 1..Len(f) /\ Len(f) \in Nat
  BY <1>1
<1> QED
  BY <1>1, <1>2

\* From a, step by step: the n-th step is F[n].
Run(N, a, F, f) ==
    /\ f = [n \in 0..N |-> f[n]]
    /\ f[0] = a /\ \A n \in 1..N : f[n] = F[n][f[n - 1]]

\* Any steps can be taken one after another.
LEMMA Recursion ==
    ASSUME NEW N \in Nat, NEW a, NEW F
    PROVE  \E f : Run(N, a, F, f)
<1> DEFINE Reach(m) == \E f : Run(m, a, F, f)
           R == {m \in 0..N : Reach(m)}
<1>1. 0 \in R
  <2> DEFINE f == [n \in 0..0 |-> a]
  <2>1. f = [n \in 0..0 |-> f[n]] /\ f[0] = a
    OBVIOUS
  <2> HIDE DEF f
  <2>2. Run(0, a, F, f)
    BY <2>1 DEF Run
  <2> QED
    BY <2>2
<1>2. ASSUME NEW m \in 1..N, m - 1 \in R PROVE m \in R
  <2>1. PICK f : Run(m - 1, a, F, f)
    BY <1>2
  <2> DEFINE g == [n \in 0..m |-> IF n = m THEN F[m][f[m - 1]] ELSE f[n]]
  <2>2. \A n \in 0..(m - 1) : g[n] = f[n]
    BY <1>2
  <2>3. g[m] = F[m][f[m - 1]]
    BY <1>2
  <2>4. g = [n \in 0..m |-> g[n]]
    OBVIOUS
  <2> HIDE DEF g
  <2>5. ASSUME NEW n \in 1..m PROVE g[n] = F[n][g[n - 1]]
    <3>1. CASE n = m
      BY <1>2, <2>2, <2>3, <3>1
    <3>2. CASE n # m
      <4>1. n \in 1..(m - 1) /\ n \in 0..(m - 1) /\ n - 1 \in 0..(m - 1)
        BY <1>2, <3>2
      <4>2. f[n] = F[n][f[n - 1]]
        BY <2>1, <4>1 DEF Run
      <4> QED
        BY <2>2, <4>1, <4>2
    <3> QED
      BY <3>1, <3>2
  <2>6. g[0] = a
    BY <1>2, <2>1, <2>2 DEF Run
  <2>7. Run(m, a, F, g)
    BY <2>4, <2>5, <2>6 DEF Run
  <2> QED
    BY <1>2, <2>7
<1>3. N \in R
  <2> HIDE DEF R
  <2> QED
    BY <1>1, <1>2, UpTo
<1> QED
  BY <1>3

\* Each from a set, if each led there from the set before.
LEMMA Along ==
    ASSUME NEW N \in Nat, NEW S, NEW f, f[0] \in S[0],
           \A n \in 1..N : f[n - 1] \in S[n - 1] => f[n] \in S[n]
    PROVE  \A n \in 0..N : f[n] \in S[n]
<1> DEFINE R == {n \in 0..N : f[n] \in S[n]}
<1>1. 0 \in R /\ \A n \in 1..N : n - 1 \in R => n \in R
  OBVIOUS
<1>2. \A n \in 0..N : n \in R
  <2> HIDE DEF R
  <2> QED
    BY <1>1, UpTo
<1> QED
  BY <1>2

\* What the samples of a poll leave, if each leads from one set to the next.
LEMMA SampledStays ==
    ASSUME NEW w, NEW times, Len(times) \in Nat, NEW S, w \in S[0],
           \A n \in 1..Len(times) : \A x \in S[n - 1] : Sample(x, times[n]) \in S[n]
    PROVE  Sampled(w, times) \in S[Len(times)]
<1> DEFINE N == Len(times)
           Equation(f) == f = [n \in 0..Len(times) |-> IF n = 0 THEN w
                                 ELSE Sample(f[n - 1], times[n])]
           a == CHOOSE f : Equation(f)
           F == [n \in 1..N |-> [x \in S[n - 1] |-> Sample(x, times[n])]]
<1>1. PICK f : Run(N, w, F, f)
  BY Recursion
<1>2. \A n \in 1..N : f[n - 1] \in S[n - 1] => f[n] = Sample(f[n - 1], times[n])
  BY <1>1 DEF Run
<1>3. \A n \in 0..N : f[n] \in S[n]
  <2>1. f[0] \in S[0] /\ \A n \in 1..N : f[n - 1] \in S[n - 1] => f[n] \in S[n]
    BY <1>1, <1>2 DEF Run
  <2> QED
    BY <2>1, Along
<1>4. Equation(f)
  <2>1. \A n \in 1..N : n - 1 \in 0..N /\ f[n] = Sample(f[n - 1], times[n])
    BY <1>2, <1>3
  <2>2. f = [n \in 0..N |-> f[n]] /\ f[0] = w
    BY <1>1 DEF Run
  <2>3. ASSUME NEW n \in 0..N PROVE f[n] = IF n = 0 THEN w ELSE Sample(f[n - 1], times[n])
    <3>1. n = 0 \/ n \in 1..N
      OBVIOUS
    <3> QED
      BY <2>1, <2>2, <3>1
  <2>4. f = [n \in 0..N |-> IF n = 0 THEN w ELSE Sample(f[n - 1], times[n])]
    BY <2>2, <2>3, Zenon
  <2> QED
    BY <2>4
<1>5. Equation(a)
  <2> HIDE DEF Equation
  <2> QED
    BY <1>4, Zenon
<1> HIDE DEF a
<1>6. ASSUME NEW n \in 0..N PROVE a[n] = IF n = 0 THEN w ELSE Sample(a[n - 1], times[n])
  <2> DEFINE e(v, m) == IF m = 0 THEN w ELSE Sample(v[m - 1], times[m])
  <2>1. a = [m \in 0..N |-> e(a, m)]
    BY <1>5, Zenon
  <2> HIDE DEF e
  <2>2. a[n] = e(a, n)
    BY <2>1, Zenon
  <2> QED
    BY <2>2 DEF e
<1>7. \A n \in 0..N : a[n] \in S[n]
  <2>1. a[0] \in S[0] /\ \A n \in 1..N : a[n - 1] \in S[n - 1] => a[n] \in S[n]
    BY <1>6
  <2> QED
    BY <2>1, Along
<1>8. Sampled(w, times) = a[N]
  BY DEF Sampled, a
<1> QED
  BY <1>7, <1>8

\* The same of its frames.
LEMMA AcceptedStays ==
    ASSUME NEW w, NEW frames, Len(frames) \in Nat, NEW S, w \in S[0],
           \A n \in 1..Len(frames) : \A x \in S[n - 1] : Accept(x, frames[n]) \in S[n]
    PROVE  Accepted(w, frames) \in S[Len(frames)]
<1> DEFINE N == Len(frames)
           Equation(f) == f = [n \in 0..Len(frames) |-> IF n = 0 THEN w
                                 ELSE Accept(f[n - 1], frames[n])]
           a == CHOOSE f : Equation(f)
           F == [n \in 1..N |-> [x \in S[n - 1] |-> Accept(x, frames[n])]]
<1>1. PICK f : Run(N, w, F, f)
  BY Recursion
<1>2. \A n \in 1..N : f[n - 1] \in S[n - 1] => f[n] = Accept(f[n - 1], frames[n])
  BY <1>1 DEF Run
<1>3. \A n \in 0..N : f[n] \in S[n]
  <2>1. f[0] \in S[0] /\ \A n \in 1..N : f[n - 1] \in S[n - 1] => f[n] \in S[n]
    BY <1>1, <1>2 DEF Run
  <2> QED
    BY <2>1, Along
<1>4. Equation(f)
  <2>1. \A n \in 1..N : n - 1 \in 0..N /\ f[n] = Accept(f[n - 1], frames[n])
    BY <1>2, <1>3
  <2>2. f = [n \in 0..N |-> f[n]] /\ f[0] = w
    BY <1>1 DEF Run
  <2>3. ASSUME NEW n \in 0..N PROVE f[n] = IF n = 0 THEN w ELSE Accept(f[n - 1], frames[n])
    <3>1. n = 0 \/ n \in 1..N
      OBVIOUS
    <3> QED
      BY <2>1, <2>2, <3>1
  <2>4. f = [n \in 0..N |-> IF n = 0 THEN w ELSE Accept(f[n - 1], frames[n])]
    BY <2>2, <2>3, Zenon
  <2> QED
    BY <2>4
<1>5. Equation(a)
  <2> HIDE DEF Equation
  <2> QED
    BY <1>4, Zenon
<1> HIDE DEF a
<1>6. ASSUME NEW n \in 0..N PROVE a[n] = IF n = 0 THEN w ELSE Accept(a[n - 1], frames[n])
  <2> DEFINE e(v, m) == IF m = 0 THEN w ELSE Accept(v[m - 1], frames[m])
  <2>1. a = [m \in 0..N |-> e(a, m)]
    BY <1>5, Zenon
  <2> HIDE DEF e
  <2>2. a[n] = e(a, n)
    BY <2>1, Zenon
  <2> QED
    BY <2>2 DEF e
<1>7. \A n \in 0..N : a[n] \in S[n]
  <2>1. a[0] \in S[0] /\ \A n \in 1..N : a[n - 1] \in S[n - 1] => a[n] \in S[n]
    BY <1>6
  <2> QED
    BY <2>1, Along
<1>8. Accepted(w, frames) = a[N]
  BY DEF Accepted, a
<1> QED
  BY <1>7, <1>8

\* And of the payloads handed to the transport.
LEMMA OfferedAllStays ==
    ASSUME NEW h, NEW payloads, Len(payloads) \in Nat, NEW S, h \in S[0],
           \A n \in 1..Len(payloads) : \A x \in S[n - 1] : Offered(x, payloads[n]) \in S[n]
    PROVE  OfferedAll(h, payloads) \in S[Len(payloads)]
<1> DEFINE N == Len(payloads)
           Equation(f) == f = [n \in 0..Len(payloads) |-> IF n = 0 THEN h
                                 ELSE Offered(f[n - 1], payloads[n])]
           a == CHOOSE f : Equation(f)
           F == [n \in 1..N |-> [x \in S[n - 1] |-> Offered(x, payloads[n])]]
<1>1. PICK f : Run(N, h, F, f)
  BY Recursion
<1>2. \A n \in 1..N : f[n - 1] \in S[n - 1] => f[n] = Offered(f[n - 1], payloads[n])
  BY <1>1 DEF Run
<1>3. \A n \in 0..N : f[n] \in S[n]
  <2>1. f[0] \in S[0] /\ \A n \in 1..N : f[n - 1] \in S[n - 1] => f[n] \in S[n]
    BY <1>1, <1>2 DEF Run
  <2> QED
    BY <2>1, Along
<1>4. Equation(f)
  <2>1. \A n \in 1..N : n - 1 \in 0..N /\ f[n] = Offered(f[n - 1], payloads[n])
    BY <1>2, <1>3
  <2>2. f = [n \in 0..N |-> f[n]] /\ f[0] = h
    BY <1>1 DEF Run
  <2>3. ASSUME NEW n \in 0..N PROVE f[n] = IF n = 0 THEN h ELSE Offered(f[n - 1], payloads[n])
    <3>1. n = 0 \/ n \in 1..N
      OBVIOUS
    <3> QED
      BY <2>1, <2>2, <3>1
  <2>4. f = [n \in 0..N |-> IF n = 0 THEN h ELSE Offered(f[n - 1], payloads[n])]
    BY <2>2, <2>3, Zenon
  <2> QED
    BY <2>4
<1>5. Equation(a)
  <2> HIDE DEF Equation
  <2> QED
    BY <1>4, Zenon
<1> HIDE DEF a
<1>6. ASSUME NEW n \in 0..N PROVE a[n] = IF n = 0 THEN h ELSE Offered(a[n - 1], payloads[n])
  <2> DEFINE e(v, m) == IF m = 0 THEN h ELSE Offered(v[m - 1], payloads[m])
  <2>1. a = [m \in 0..N |-> e(a, m)]
    BY <1>5, Zenon
  <2> HIDE DEF e
  <2>2. a[n] = e(a, n)
    BY <2>1, Zenon
  <2> QED
    BY <2>2 DEF e
<1>7. \A n \in 0..N : a[n] \in S[n]
  <2>1. a[0] \in S[0] /\ \A n \in 1..N : a[n - 1] \in S[n - 1] => a[n] \in S[n]
    BY <1>6
  <2> QED
    BY <2>1, Along
<1>8. OfferedAll(h, payloads) = a[N]
  BY DEF OfferedAll, a
<1> QED
  BY <1>7, <1>8

-----------------------------------------------------------------------------
(* What headers say *)

Payloads == [stream : Streams, t0 : 0..MaxTime, times : Seq(0..MaxTime), period : Nat,
             dropped : 0..DropMax, torn : BOOLEAN]

Says(s, p) == IF p.stream = s THEN p.dropped ELSE 0

\* The sums of what the headers of q say of s.
Sums(s, q, f) ==
    /\ f[0] = 0 /\ \A n \in 1..Len(q) : f[n] = f[n - 1] + Says(s, q[n])
    /\ \A n \in 0..Len(q) : f[n] \in Nat
    /\ Said(s, q) = f[Len(q)]

LEMMA SaysNumber ==
    ASSUME NEW s, NEW p \in Payloads
    PROVE  Says(s, p) \in Nat /\ p.dropped \in Nat /\ p.dropped <= DropMax
  BY StreamBounds DEF Says, Payloads

LEMMA SaidSums ==
    ASSUME NEW s, NEW q \in Seq(Payloads)
    PROVE  \E f : Sums(s, q, f)
<1> DEFINE N == Len(q)
           Equation(f) == f = [n \in 0..Len(q) |-> IF n = 0 THEN 0
                                 ELSE f[n - 1] + IF q[n].stream = s THEN q[n].dropped ELSE 0]
           a == CHOOSE f : Equation(f)
           F == [n \in 1..N |-> [x \in Nat |-> x + Says(s, q[n])]]
           S == [n \in 0..N |-> Nat]
<1>0. N \in Nat /\ \A n \in 1..N : Says(s, q[n]) \in Nat
  <2>1. \A n \in 1..N : q[n] \in Payloads
    OBVIOUS
  <2> QED
    BY <2>1, SaysNumber
<1>1. PICK f : Run(N, 0, F, f)
  BY <1>0, Recursion
<1>2. \A n \in 1..N : f[n - 1] \in Nat => f[n] = f[n - 1] + Says(s, q[n])
  BY <1>1 DEF Run
<1>3. \A n \in 0..N : f[n] \in Nat
  <2>0. f[0] \in S[0]
    BY <1>0, <1>1 DEF Run
  <2>1. \A n \in 1..N : f[n - 1] \in S[n - 1] => f[n] \in S[n]
    BY <1>0, <1>2
  <2>2. \A n \in 0..N : f[n] \in S[n]
    <3> HIDE DEF S, N
    <3> QED
      BY <1>0, <2>0, <2>1, Along
  <2> QED
    BY <2>2
<1>4. Equation(f)
  <2>1. \A n \in 1..N : n - 1 \in 0..N /\ f[n] = f[n - 1] + Says(s, q[n])
    BY <1>0, <1>2, <1>3
  <2>2. f = [n \in 0..N |-> f[n]] /\ f[0] = 0
    BY <1>1 DEF Run
  <2>3. ASSUME NEW n \in 0..N PROVE f[n] = IF n = 0 THEN 0 ELSE f[n - 1] + Says(s, q[n])
    <3>1. n = 0 \/ n \in 1..N
      OBVIOUS
    <3> QED
      BY <1>0, <2>1, <2>2, <3>1
  <2>4. f = [n \in 0..N |-> IF n = 0 THEN 0 ELSE f[n - 1] + Says(s, q[n])]
    BY <2>2, <2>3, Zenon
  <2> QED
    BY <2>4, Zenon DEF Says
<1>5. Equation(a)
  <2> HIDE DEF Equation
  <2> QED
    BY <1>4, Zenon
<1> HIDE DEF a
<1>6. ASSUME NEW n \in 0..N PROVE a[n] = IF n = 0 THEN 0 ELSE a[n - 1] + Says(s, q[n])
  <2> DEFINE e(v, m) == IF m = 0 THEN 0 ELSE v[m - 1] + Says(s, q[m])
  <2>1. a = [m \in 0..N |-> e(a, m)]
    BY <1>5, Zenon DEF Says
  <2> HIDE DEF e
  <2>2. a[n] = e(a, n)
    BY <2>1, Zenon
  <2> QED
    BY <2>2 DEF e
<1>7. a[0] = 0 /\ \A n \in 1..N : a[n] = a[n - 1] + Says(s, q[n])
  BY <1>0, <1>6
<1>8. \A n \in 0..N : a[n] \in Nat
  <2>1. a[0] \in S[0] /\ \A n \in 1..N : a[n - 1] \in S[n - 1] => a[n] \in S[n]
    BY <1>0, <1>7
  <2>2. \A n \in 0..N : a[n] \in S[n]
    <3> HIDE DEF S, N
    <3> QED
      BY <1>0, <2>1, Along
  <2> QED
    BY <2>2
<1>9. Said(s, q) = a[N]
  BY DEF Said, a
<1> QED
  BY <1>7, <1>8, <1>9 DEF Sums

LEMMA SaidNumber ==
    ASSUME NEW s, NEW q \in Seq(Payloads)
    PROVE  Said(s, q) \in Nat
<1>1. PICK f : Sums(s, q, f)
  BY SaidSums
<1> QED
  BY <1>1 DEF Sums

LEMMA SaidNone ==
    ASSUME NEW s
    PROVE  Said(s, <<>>) = 0
<1>1. <<>> \in Seq(Payloads) /\ Len(<<>>) = 0
  OBVIOUS
<1>2. PICK f : Sums(s, <<>>, f)
  BY <1>1, SaidSums
<1> QED
  BY <1>1, <1>2 DEF Sums

\* One more payload adds what its header says.
LEMMA SaidMore ==
    ASSUME NEW s, NEW q \in Seq(Payloads), NEW p \in Payloads
    PROVE  Said(s, Append(q, p)) = Said(s, q) + Says(s, p)
<1> DEFINE r == Append(q, p)
           N == Len(q)
<1>1. /\ r \in Seq(Payloads) /\ N \in Nat /\ Len(r) = N + 1
      /\ r[N + 1] = p /\ \A n \in 1..N : r[n] = q[n]
  OBVIOUS
<1>2. PICK f : Sums(s, q, f)
  BY SaidSums
<1> HIDE DEF r
<1>3. PICK g : Sums(s, r, g)
  BY <1>1, SaidSums
<1>4. \A n \in 0..N : g[n] = f[n]
  <2> DEFINE S == [n \in 0..N |-> {f[n]}]
  <2>1. g[0] \in S[0]
    BY <1>1, <1>2, <1>3 DEF Sums
  <2>2. ASSUME NEW n \in 1..N, g[n - 1] \in S[n - 1] PROVE g[n] \in S[n]
    <3>1. g[n] = g[n - 1] + Says(s, r[n]) /\ f[n] = f[n - 1] + Says(s, q[n])
      BY <1>1, <1>2, <1>3 DEF Sums
    <3> QED
      BY <1>1, <2>2, <3>1
  <2>3. \A n \in 0..N : g[n] \in S[n]
    <3> HIDE DEF S
    <3> QED
      BY <1>1, <2>1, <2>2, Along
  <2> QED
    BY <2>3
<1>5. Said(s, r) = g[N + 1] /\ g[N + 1] = g[N] + Says(s, p) /\ Said(s, q) = f[N]
  BY <1>1, <1>2, <1>3 DEF Sums
<1> QED
  BY <1>1, <1>4, <1>5 DEF r

-----------------------------------------------------------------------------
(* Flushing a batch *)

\* A payload as BatchesHonest wants it.
Honest(p) ==
    /\ p.times # <<>> /\ p.t0 = p.times[1]
    /\ p.stream = "can" =>
         /\ \A n \in 2..Len(p.times) : p.times[n - 1] <= p.times[n]
         /\ p.times[Len(p.times)] - p.t0 <= Window
    /\ p.stream = "imu" /\ ~p.torn => Even(p)
HonestPayloads == {p \in Payloads : Honest(p)}

\* A pending CAN batch: in the order of arrival, nothing later than last, inside the window.
CanBatch(b, last) ==
    /\ b \in Batches
    /\ b.t0 = IF b.times = <<>> THEN None ELSE b.times[1]
    /\ \A n \in 2..Len(b.times) : b.times[n - 1] <= b.times[n]
    /\ \A n \in 1..Len(b.times) : b.times[n] <= last /\ b.times[n] - b.times[1] <= Window

\* A pending IMU batch, the sample at next still to come: evenly spaced unless torn.
ImuBatch(b, next) ==
    /\ b \in Batches
    /\ b.t0 = IF b.times = <<>> THEN None ELSE b.times[1]
    /\ b.times # <<>> => imu_hz # 0
    /\ b.times # <<>> /\ ~b.torn =>
         /\ \A n \in 1..Len(b.times) : b.times[n] = b.t0 + (n - 1) * Period[imu_hz]
         /\ next = b.t0 + Len(b.times) * Period[imu_hz]

Works == [can : Batches, imu : Batches, next : Nat, dropped : [Streams -> Nat],
          out : Seq(HonestPayloads)]

\* What a poll, or a request that defers a batch, may make of the buffers.
Sound(w, last) ==
    w \in Works /\ CanBatch(w.can, last) /\ ImuBatch(w.imu, w.next)

LEMMA FlushForm ==
    ASSUME NEW w \in Works
    PROVE  /\ w.can.times # <<>> => Flush(w, "can") =
                [can |-> Empty, imu |-> w.imu, next |-> w.next,
                 dropped |-> [w.dropped EXCEPT !["can"] = 0],
                 out |-> Append(w.out, Payload("can", w.can, w.dropped["can"]))]
           /\ w.imu.times # <<>> => Flush(w, "imu") =
                [can |-> w.can, imu |-> Empty, next |-> w.next,
                 dropped |-> [w.dropped EXCEPT !["imu"] = 0],
                 out |-> Append(w.out, Payload("imu", w.imu, w.dropped["imu"]))]
           /\ w.can.times = <<>> => Flush(w, "can") = w
           /\ w.imu.times = <<>> => Flush(w, "imu") = w
<1>1. w.can.times = <<>> => Flush(w, "can") = w
  BY DEF Flush, Works
<1>2. w.imu.times = <<>> => Flush(w, "imu") = w
  BY DEF Flush, Works
<1>3. w.can.times # <<>> => Flush(w, "can") =
                [can |-> Empty, imu |-> w.imu, next |-> w.next,
                 dropped |-> [w.dropped EXCEPT !["can"] = 0],
                 out |-> Append(w.out, Payload("can", w.can, w.dropped["can"]))]
  BY DEF Flush, Works
<1>4. w.imu.times # <<>> => Flush(w, "imu") =
                [can |-> w.can, imu |-> Empty, next |-> w.next,
                 dropped |-> [w.dropped EXCEPT !["imu"] = 0],
                 out |-> Append(w.out, Payload("imu", w.imu, w.dropped["imu"]))]
  BY DEF Flush, Works
<1> QED
  BY <1>1, <1>2, <1>3, <1>4

LEMMA EmptyBatch ==
    ASSUME NEW last, NEW next
    PROVE  CanBatch(Empty, last) /\ ImuBatch(Empty, next) /\ Empty \in Batches
<1>1. Empty \in Batches
  BY DEF Empty, Batches
<1> QED
  BY <1>1 DEF CanBatch, ImuBatch, Empty

LEMMA CanPayload ==
    ASSUME NEW b, NEW last, CanBatch(b, last), b.times # <<>>, NEW d \in Nat
    PROVE  LET p == Payload("can", b, d)
           IN  /\ p \in HonestPayloads
               /\ p.stream = "can" /\ p.dropped = Smaller(d, DropMax)
<1> DEFINE p == Payload("can", b, d)
<1>1. /\ p.stream = "can" /\ p.t0 = b.t0 /\ p.times = b.times
      /\ p.dropped = Smaller(d, DropMax) /\ p.period = 0 /\ p.torn = b.torn
  BY DEF Payload
<1>2. p = [stream |-> p.stream, t0 |-> p.t0, times |-> p.times, dropped |-> p.dropped,
           period |-> p.period, torn |-> p.torn]
  BY DEF Payload
<1>3. Smaller(d, DropMax) \in 0..DropMax
  BY StreamBounds DEF Smaller
<1>4. b.times \in Seq(0..MaxTime) /\ b.torn \in BOOLEAN /\ b.t0 = b.times[1]
  BY DEF CanBatch, Batches
<1>5. Len(b.times) \in 1..Len(b.times) /\ b.t0 \in 0..MaxTime /\ 0 \in Nat
  <2>1. Len(b.times) \in Nat \ {0} /\ b.times[1] \in 0..MaxTime
    BY <1>4, Nonempty
  <2> QED
    BY <1>4, <2>1
<1> HIDE DEF p
<1>6. p \in Payloads
  BY <1>1, <1>2, <1>3, <1>4, <1>5, Zenon DEF Payloads, Streams
<1>7. Honest(p)
  <2>1. p.times # <<>> /\ p.t0 = p.times[1]
    BY <1>1, <1>4
  <2>2. \A n \in 2..Len(p.times) : p.times[n - 1] <= p.times[n]
    BY <1>1 DEF CanBatch
  <2>3. p.times[Len(p.times)] - p.t0 <= Window
    BY <1>1, <1>4, <1>5 DEF CanBatch
  <2> QED
    BY <1>1, <2>1, <2>2, <2>3 DEF Honest
<1> QED
  BY <1>1, <1>6, <1>7 DEF HonestPayloads, p

LEMMA ImuPayload ==
    ASSUME NEW b, NEW next, ImuBatch(b, next), b.times # <<>>, NEW d \in Nat,
           imu_hz \in DOMAIN Period \cup {0}
    PROVE  LET p == Payload("imu", b, d)
           IN  /\ p \in HonestPayloads
               /\ p.stream = "imu" /\ p.dropped = Smaller(d, DropMax)
<1> DEFINE p == Payload("imu", b, d)
<1>1. /\ p.stream = "imu" /\ p.t0 = b.t0 /\ p.times = b.times
      /\ p.dropped = Smaller(d, DropMax) /\ p.period = Period[imu_hz] /\ p.torn = b.torn
  BY DEF Payload
<1>2. p = [stream |-> p.stream, t0 |-> p.t0, times |-> p.times, dropped |-> p.dropped,
           period |-> p.period, torn |-> p.torn]
  BY DEF Payload
<1>3. Smaller(d, DropMax) \in 0..DropMax
  BY StreamBounds DEF Smaller
<1>4. b.times \in Seq(0..MaxTime) /\ b.torn \in BOOLEAN /\ b.t0 = b.times[1]
  BY DEF ImuBatch, Batches
<1>5. b.t0 \in 0..MaxTime
  BY <1>4, Nonempty
<1>6. Period[imu_hz] \in Nat
  BY PeriodAssumption DEF ImuBatch
<1> HIDE DEF p
<1>7. p \in Payloads
  BY <1>1, <1>2, <1>3, <1>4, <1>5, <1>6, Zenon DEF Payloads, Streams
<1>8. Honest(p)
  <2>1. p.times # <<>> /\ p.t0 = p.times[1]
    BY <1>1, <1>4
  <2>2. ASSUME ~p.torn PROVE Even(p)
    <3>1. ~b.torn
      BY <1>1, <2>2, Zenon
    <3>2. \A n \in 1..Len(b.times) : b.times[n] = b.t0 + (n - 1) * Period[imu_hz]
      BY <3>1 DEF ImuBatch
    <3>3. DOMAIN b.times = 1..Len(b.times)
      BY <1>4
    <3> QED
      BY <1>1, <3>2, <3>3 DEF Even
  <2> QED
    BY <1>1, <2>1, <2>2 DEF Honest
<1> QED
  BY <1>1, <1>7, <1>8 DEF HonestPayloads, p

\* A flush leaves sound buffers.
LEMMA FlushSound ==
    ASSUME NEW w, NEW last, Sound(w, last), imu_hz \in DOMAIN Period \cup {0},
           NEW s \in Streams
    PROVE  /\ Sound(Flush(w, s), last) /\ Flush(w, s)[s].times = <<>>
           /\ Flush(w, s).next = w.next
           /\ s = "can" => Flush(w, s).imu = w.imu
           /\ s = "imu" => Flush(w, s).can = w.can
<1>1. w \in Works /\ CanBatch(w.can, last) /\ ImuBatch(w.imu, w.next)
  BY DEF Sound
<1>2. w.dropped \in [Streams -> Nat] /\ w.out \in Seq(HonestPayloads)
  BY <1>1 DEF Works
<1>3. CASE s = "can" /\ w.can.times # <<>>
  <2> DEFINE d == [w.dropped EXCEPT !["can"] = 0]
             o == Append(w.out, Payload("can", w.can, w.dropped["can"]))
             f == Flush(w, "can")
  <2>1. f = [can |-> Empty, imu |-> w.imu, next |-> w.next, dropped |-> d, out |-> o]
    BY <1>1, <1>3, FlushForm
  <2>2. d \in [Streams -> Nat]
    BY <1>2
  <2>3. o \in Seq(HonestPayloads)
    <3>1. w.dropped["can"] \in Nat
      BY <1>2 DEF Streams
    <3>2. Payload("can", w.can, w.dropped["can"]) \in HonestPayloads
      BY <1>1, <1>3, <3>1, CanPayload
    <3> QED
      BY <1>2, <3>2
  <2> HIDE DEF d, o, f
  <2>4. f \in Works
    BY <1>1, <2>1, <2>2, <2>3, EmptyBatch DEF Works
  <2>5. /\ f.can = Empty /\ f.imu = w.imu /\ f.next = w.next /\ f["can"] = Empty
        /\ Empty.times = <<>>
    BY <2>1 DEF Empty
  <2>6. Sound(f, last)
    BY <1>1, <2>4, <2>5, EmptyBatch DEF Sound
  <2> QED
    BY <1>3, <2>5, <2>6 DEF f
<1>4. CASE s = "imu" /\ w.imu.times # <<>>
  <2> DEFINE d == [w.dropped EXCEPT !["imu"] = 0]
             o == Append(w.out, Payload("imu", w.imu, w.dropped["imu"]))
             f == Flush(w, "imu")
  <2>1. f = [can |-> w.can, imu |-> Empty, next |-> w.next, dropped |-> d, out |-> o]
    BY <1>1, <1>4, FlushForm
  <2>2. d \in [Streams -> Nat]
    BY <1>2
  <2>3. o \in Seq(HonestPayloads)
    <3>1. w.dropped["imu"] \in Nat
      BY <1>2 DEF Streams
    <3>2. Payload("imu", w.imu, w.dropped["imu"]) \in HonestPayloads
      BY <1>1, <1>4, <3>1, ImuPayload
    <3> QED
      BY <1>2, <3>2
  <2> HIDE DEF d, o, f
  <2>4. f \in Works
    BY <1>1, <2>1, <2>2, <2>3, EmptyBatch DEF Works
  <2>5. /\ f.imu = Empty /\ f.can = w.can /\ f.next = w.next /\ f["imu"] = Empty
        /\ Empty.times = <<>>
    BY <2>1 DEF Empty
  <2>6. Sound(f, last)
    BY <1>1, <2>4, <2>5, EmptyBatch DEF Sound
  <2> QED
    BY <1>4, <2>5, <2>6 DEF f
<1>5. CASE s = "can" /\ w.can.times = <<>>
  BY <1>1, <1>5, FlushForm
<1>6. CASE s = "imu" /\ w.imu.times = <<>>
  BY <1>1, <1>6, FlushForm
<1> QED
  BY <1>3, <1>4, <1>5, <1>6 DEF Streams

-----------------------------------------------------------------------------
(* One more record *)

LEMMA Appended ==
    ASSUME NEW T, NEW q \in Seq(T), NEW e \in T
    PROVE  /\ Append(q, e) \in Seq(T) /\ Append(q, e) # <<>>
           /\ Len(Append(q, e)) = Len(q) + 1 /\ Append(q, e)[Len(q) + 1] = e
           /\ \A n \in 1..Len(q) : Append(q, e)[n] = q[n]
  OBVIOUS

LEMMA AppendedTime ==
    ASSUME NEW q, NEW t \in 0..MaxTime, q \in Seq(0..MaxTime)
    PROVE  /\ Append(q, t) # <<>>
           /\ Len(Append(q, t)) = Len(q) + 1 /\ Append(q, t)[Len(q) + 1] = t
           /\ \A n \in 1..Len(q) : Append(q, t)[n] = q[n]
<1> DEFINE T == 0..MaxTime
<1>1. q \in Seq(T) /\ t \in T
  OBVIOUS
<1> HIDE DEF T
<1> QED
  BY <1>1, Appended

LEMMA PutForm ==
    ASSUME NEW b \in Batches, NEW t \in 0..MaxTime
    PROVE  /\ Put(b, t) \in Batches
           /\ Put(b, t).t0 = (IF b.t0 = None THEN t ELSE b.t0)
           /\ Put(b, t).times = Append(b.times, t) /\ Put(b, t).torn = b.torn
<1> DEFINE q == Append(b.times, t)
           z == IF b.t0 = None THEN t ELSE b.t0
<1>1. b.times \in Seq(0..MaxTime) /\ b.t0 \in {None} \cup 0..MaxTime /\ b.torn \in BOOLEAN
  BY DEF Batches
<1>2. q \in Seq(0..MaxTime) /\ z \in {None} \cup 0..MaxTime
  BY <1>1
<1>3. Put(b, t) = [t0 |-> z, times |-> q, torn |-> b.torn]
  BY DEF Put
<1> HIDE DEF q, z
<1>4. Put(b, t) \in Batches
  <2>1. b.torn \in BOOLEAN
    BY <1>1
  <2> QED
    BY <1>2, <1>3, <2>1 DEF Batches
<1> QED
  BY <1>3, <1>4 DEF q, z

LEMMA PutCan ==
    ASSUME NEW b, NEW last \in Int, CanBatch(b, last), NEW t \in 0..MaxTime, last <= t,
           b.t0 # None => t - b.t0 <= Window
    PROVE  CanBatch(Put(b, t), t)
<1> DEFINE f == Put(b, t)
           N == Len(b.times)
<1>1. /\ b \in Batches /\ b.times \in Seq(0..MaxTime) /\ N \in Nat
      /\ b.t0 = IF b.times = <<>> THEN None ELSE b.times[1]
  BY DEF CanBatch, Batches
<1>2. /\ f \in Batches /\ f.t0 = (IF b.t0 = None THEN t ELSE b.t0)
      /\ f.times = Append(b.times, t)
  BY <1>1, PutForm
<1>3. /\ f.times # <<>> /\ Len(f.times) = N + 1 /\ f.times[N + 1] = t
      /\ \A n \in 1..N : f.times[n] = b.times[n]
  <2> DEFINE r == Append(b.times, t)
  <2>1. /\ r # <<>> /\ Len(r) = N + 1 /\ r[N + 1] = t
        /\ \A n \in 1..N : r[n] = b.times[n]
    BY <1>1, AppendedTime
  <2> HIDE DEF r
  <2> QED
    BY <1>2, <2>1 DEF r
<1>4. \A n \in 1..N : b.times[n] \in 0..MaxTime /\ b.times[n] <= last
                      /\ b.times[n] - b.times[1] <= Window
  <2>1. \A n \in 1..N : b.times[n] \in 0..MaxTime
    BY <1>1, Members
  <2>2. \A n \in 1..N : b.times[n] <= last /\ b.times[n] - b.times[1] <= Window
    BY DEF CanBatch
  <2> QED
    BY <2>1, <2>2
<1>5. N = 0 <=> b.times = <<>>
  BY <1>1
<1>6. N # 0 => b.times[1] \in 0..MaxTime /\ b.t0 = b.times[1] /\ b.t0 # None
               /\ f.times[1] = b.times[1]
  BY <1>1, <1>3, <1>4, <1>5 DEF None
<1>7. f.t0 = f.times[1]
  BY <1>1, <1>2, <1>3, <1>5, <1>6 DEF None
<1> HIDE DEF f, N
<1>8. ASSUME NEW n \in 2..(N + 1) PROVE f.times[n - 1] <= f.times[n]
  <2>1. n - 1 \in 1..N /\ f.times[n - 1] = b.times[n - 1]
    BY <1>1, <1>3
  <2>2. CASE n = N + 1
    BY <1>3, <1>4, <2>1, <2>2
  <2>3. CASE n # N + 1
    <3>1. n \in 2..N /\ f.times[n] = b.times[n]
      BY <1>1, <1>3, <2>3
    <3>2. b.times[n - 1] <= b.times[n]
      BY <3>1 DEF CanBatch, N
    <3> QED
      BY <2>1, <3>1, <3>2
  <2> QED
    BY <2>2, <2>3
<1>9. ASSUME NEW n \in 1..(N + 1)
      PROVE  f.times[n] <= t /\ f.times[n] - f.times[1] <= Window
  <2>1. CASE n = N + 1
    <3>1. CASE N = 0
      BY <1>3, <2>1, <3>1, StreamBounds
    <3>2. CASE N # 0
      BY <1>3, <1>6, <2>1, <3>2
    <3> QED
      BY <3>1, <3>2
  <2>2. CASE n # N + 1
    <3>1. n \in 1..N /\ f.times[n] = b.times[n] /\ N # 0
      BY <1>1, <1>3, <2>2
    <3> QED
      BY <1>4, <1>6, <3>1
  <2> QED
    BY <2>1, <2>2
<1> QED
  BY <1>2, <1>3, <1>7, <1>8, <1>9 DEF CanBatch, f

LEMMA PutImu ==
    ASSUME NEW b, NEW t \in 0..MaxTime, ImuBatch(b, t), imu_hz \in DOMAIN Period
    PROVE  ImuBatch(Put(b, t), t + Period[imu_hz])
<1> DEFINE f == Put(b, t)
           N == Len(b.times)
           P == Period[imu_hz]
<1>1. /\ b \in Batches /\ b.times \in Seq(0..MaxTime) /\ N \in Nat
      /\ b.t0 = IF b.times = <<>> THEN None ELSE b.times[1]
  BY DEF ImuBatch, Batches
<1>2. /\ f \in Batches /\ f.t0 = (IF b.t0 = None THEN t ELSE b.t0)
      /\ f.times = Append(b.times, t) /\ f.torn = b.torn
  BY <1>1, PutForm
<1>3. /\ f.times # <<>> /\ Len(f.times) = N + 1 /\ f.times[N + 1] = t
      /\ \A n \in 1..N : f.times[n] = b.times[n]
  <2> DEFINE r == Append(b.times, t)
  <2>1. /\ r # <<>> /\ Len(r) = N + 1 /\ r[N + 1] = t
        /\ \A n \in 1..N : r[n] = b.times[n]
    BY <1>1, AppendedTime
  <2> HIDE DEF r
  <2> QED
    BY <1>2, <2>1 DEF r
<1>4. N = 0 <=> b.times = <<>>
  BY <1>1
<1>5. N # 0 => b.times[1] \in 0..MaxTime /\ b.t0 = b.times[1] /\ b.t0 # None
               /\ f.times[1] = b.times[1]
  <2>1. N # 0 => b.times[1] \in 0..MaxTime
    BY <1>1, <1>4, Nonempty
  <2>2. N # 0 => 1 \in 1..N
    BY <1>1
  <2> QED
    BY <1>1, <1>3, <1>4, <2>1, <2>2 DEF None
<1>6. f.t0 = f.times[1]
  BY <1>1, <1>2, <1>3, <1>4, <1>5 DEF None
<1>7. imu_hz # 0 /\ P \in Nat
  BY PeriodAssumption
<1>8. ASSUME ~b.torn
      PROVE  /\ \A n \in 1..(N + 1) : f.times[n] = f.t0 + (n - 1) * P
             /\ t + P = f.t0 + (N + 1) * P
  <2>1. CASE N = 0
    <3>1. f.t0 = t /\ f.times[1] = t
      BY <1>3, <1>6, <2>1
    <3>2. \A n \in 1..(N + 1) : n = 1
      BY <2>1
    <3>3. (1 - 1) * P = 0 /\ (N + 1) * P = P
      BY <1>7, <2>1
    <3> HIDE DEF f, P, N
    <3> QED
      BY <1>7, <2>1, <3>1, <3>2, <3>3
  <2>2. CASE N # 0
    <3>1. /\ \A n \in 1..N : b.times[n] = b.t0 + (n - 1) * P
          /\ t = b.t0 + N * P
      BY <1>4, <1>8, <2>2 DEF ImuBatch
    <3>2. f.t0 = b.t0 /\ b.t0 \in Nat
      BY <1>2, <1>5, <2>2
    <3> HIDE DEF f, P, N
    <3>3. (N + 1) * P = N * P + P /\ (N + 1 - 1) * P = N * P /\ N * P \in Nat
      BY <1>1, <1>7
    <3>4. ASSUME NEW n \in 1..(N + 1) PROVE f.times[n] = f.t0 + (n - 1) * P
      <4>1. CASE n = N + 1
        <5>1. n - 1 = N /\ f.times[n] = t
          BY <1>1, <1>3, <4>1
        <5> QED
          BY <3>1, <3>2, <5>1, Zenon
      <4>2. CASE n # N + 1
        <5>1. n \in 1..N
          BY <1>1, <4>2
        <5> QED
          BY <1>3, <3>1, <3>2, <5>1
      <4> QED
        BY <4>1, <4>2
    <3> QED
      BY <1>7, <3>1, <3>2, <3>3, <3>4
  <2> QED
    BY <2>1, <2>2
<1>9. f.torn = b.torn
  BY <1>2
<1> HIDE DEF f, N, P
<1>10. ~f.torn =>
         /\ \A n \in 1..Len(f.times) : f.times[n] = f.t0 + (n - 1) * P
         /\ t + P = f.t0 + Len(f.times) * P
  BY <1>3, <1>8, <1>9, Zenon
<1> QED
  BY <1>2, <1>3, <1>6, <1>7, <1>10, Zenon DEF ImuBatch, f, P

-----------------------------------------------------------------------------
(* What a flush reports *)

Full(q) == \E n \in DOMAIN q : q[n].dropped = DropMax

\* The counters d and the headers of q report at most c, and all of it unless one says
\* "at least".
Balance(d, q, c) ==
    \A s \in Streams : /\ d[s] + Said(s, q) <= c[s]
                       /\ ~Full(q) => d[s] + Said(s, q) = c[s]

LEMMA HonestIsPayload ==
    /\ HonestPayloads \subseteq Payloads
    /\ \A q \in Seq(HonestPayloads) : q \in Seq(Payloads)
<1>1. HonestPayloads \subseteq Payloads
  BY DEF HonestPayloads
<1> QED
  BY <1>1

\* A header takes the counter with it, or as much as it can say.
LEMMA ReportBalances ==
    ASSUME NEW d \in [Streams -> Nat], NEW q \in Seq(HonestPayloads), NEW p \in HonestPayloads,
           NEW s \in Streams, p.stream = s, p.dropped = Smaller(d[s], DropMax),
           NEW c \in [Streams -> Int], Balance(d, q, c)
    PROVE  Balance([d EXCEPT ![s] = 0], Append(q, p), c)
<1> DEFINE r == Append(q, p)
           e == [d EXCEPT ![s] = 0]
<1>1. q \in Seq(Payloads) /\ p \in Payloads
  BY HonestIsPayload
<1>2. /\ Len(r) = Len(q) + 1 /\ r[Len(q) + 1] = p /\ DOMAIN r = 1..Len(r)
      /\ Len(q) \in Nat /\ DOMAIN q = 1..Len(q) /\ \A n \in 1..Len(q) : r[n] = q[n]
  BY <1>1, Appended
<1>3. Full(q) \/ p.dropped = DropMax => Full(r)
  <2> HIDE DEF r
  <2>1. Full(q) => Full(r)
    BY <1>2 DEF Full
  <2>2. p.dropped = DropMax => Full(r)
    BY <1>2 DEF Full
  <2> QED
    BY <2>1, <2>2
<1>4. ASSUME NEW z \in Streams
      PROVE  e[z] + Said(z, r) <= c[z] /\ (~Full(r) => e[z] + Said(z, r) = c[z])
  <2>1. Said(z, r) = Said(z, q) + Says(z, p)
    BY <1>1, SaidMore
  <2>2. Said(z, q) \in Nat /\ d[z] \in Nat /\ c[z] \in Int /\ DropMax \in Nat
    BY <1>1, SaidNumber, StreamBounds
  <2>3. d[z] + Said(z, q) <= c[z] /\ (~Full(q) => d[z] + Said(z, q) = c[z])
    BY DEF Balance
  <2>4. CASE z = s
    <3>1. e[z] = 0 /\ Says(z, p) = p.dropped
      BY <2>4 DEF Says
    <3>2. Says(z, p) = Smaller(d[z], DropMax)
      BY <2>4, <3>1
    <3> HIDE DEF e, r
    <3>3. CASE d[z] < DropMax
      BY <1>3, <2>1, <2>2, <2>3, <3>1, <3>2, <3>3 DEF Smaller
    <3>4. CASE ~(d[z] < DropMax)
      BY <1>3, <2>1, <2>2, <2>3, <3>1, <3>2, <3>4 DEF Smaller
    <3> QED
      BY <3>3, <3>4
  <2>5. CASE z # s
    <3>1. e[z] = d[z] /\ Says(z, p) = 0
      BY <2>5 DEF Says
    <3> HIDE DEF e, r
    <3> QED
      BY <1>3, <2>1, <2>2, <2>3, <3>1
  <2> QED
    BY <2>4, <2>5
<1> HIDE DEF e, r
<1>5. Balance(e, r, c)
  BY <1>4 DEF Balance
<1> QED
  BY <1>5 DEF e, r

LEMMA FlushBalances ==
    ASSUME NEW w, NEW last, Sound(w, last), imu_hz \in DOMAIN Period \cup {0},
           NEW s \in Streams, NEW c \in [Streams -> Int], Balance(w.dropped, w.out, c)
    PROVE  Balance(Flush(w, s).dropped, Flush(w, s).out, c)
<1>1. w \in Works /\ CanBatch(w.can, last) /\ ImuBatch(w.imu, w.next)
  BY DEF Sound
<1>2. w.dropped \in [Streams -> Nat] /\ w.out \in Seq(HonestPayloads)
  BY <1>1 DEF Works
<1>3. w.dropped["can"] \in Nat /\ w.dropped["imu"] \in Nat /\ "can" \in Streams /\ "imu" \in Streams
  BY <1>2 DEF Streams
<1>4. CASE s = "can" /\ w.can.times # <<>>
  <2> DEFINE p == Payload("can", w.can, w.dropped["can"])
             d == [w.dropped EXCEPT !["can"] = 0]
             o == Append(w.out, p)
  <2>1. p \in HonestPayloads /\ p.stream = "can" /\ p.dropped = Smaller(w.dropped["can"], DropMax)
    BY <1>1, <1>3, <1>4, CanPayload
  <2>2. Flush(w, "can") = [can |-> Empty, imu |-> w.imu, next |-> w.next, dropped |-> d, out |-> o]
    BY <1>1, <1>4, FlushForm
  <2> HIDE DEF p
  <2>3. Balance(d, o, c)
    BY <1>2, <1>3, <2>1, ReportBalances
  <2> HIDE DEF d, o
  <2> QED
    BY <1>4, <2>2, <2>3
<1>5. CASE s = "imu" /\ w.imu.times # <<>>
  <2> DEFINE p == Payload("imu", w.imu, w.dropped["imu"])
             d == [w.dropped EXCEPT !["imu"] = 0]
             o == Append(w.out, p)
  <2>1. p \in HonestPayloads /\ p.stream = "imu" /\ p.dropped = Smaller(w.dropped["imu"], DropMax)
    BY <1>1, <1>3, <1>5, ImuPayload
  <2>2. Flush(w, "imu") = [can |-> w.can, imu |-> Empty, next |-> w.next, dropped |-> d, out |-> o]
    BY <1>1, <1>5, FlushForm
  <2> HIDE DEF p
  <2>3. Balance(d, o, c)
    BY <1>2, <1>3, <2>1, ReportBalances
  <2> HIDE DEF d, o
  <2> QED
    BY <1>5, <2>2, <2>3
<1>6. CASE s = "can" /\ w.can.times = <<>>
  BY <1>1, <1>6, FlushForm
<1>7. CASE s = "imu" /\ w.imu.times = <<>>
  BY <1>1, <1>7, FlushForm
<1> QED
  BY <1>4, <1>5, <1>6, <1>7 DEF Streams

-----------------------------------------------------------------------------
(* The records of a poll *)

\* _batch_can: an accepted frame leaves sound buffers, timed up to itself.
LEMMA AcceptSound ==
    ASSUME NEW w, NEW last \in Int, Sound(w, last), imu_hz \in DOMAIN Period \cup {0},
           NEW t \in 0..MaxTime, last <= t,
           NEW c \in [Streams -> Int], Balance(w.dropped, w.out, c)
    PROVE  /\ Sound(Accept(w, t), t) /\ Accept(w, t).imu = w.imu /\ Accept(w, t).next = w.next
           /\ Balance(Accept(w, t).dropped, Accept(w, t).out, c)
           /\ Accept(w, t).can = Put(Empty, t) \/ Accept(w, t).can = Put(w.can, t)
<1> DEFINE f == Flush(w, "can")
           a == Accept(w, t)
<1>1. w \in Works /\ CanBatch(w.can, last) /\ ImuBatch(w.imu, w.next)
  BY DEF Sound
<1>2. "can" \in Streams
  BY DEF Streams
<1>3. Sound(f, last) /\ f.next = w.next /\ f.imu = w.imu
  BY <1>2, FlushSound, Zenon
<1>4. Balance(f.dropped, f.out, c)
  BY <1>2, FlushBalances
<1>5. CASE Overflows(w.can, t)
  <2>1. f \in Works
    BY <1>3 DEF Sound
  <2> HIDE DEF f
  <2>2. a = [can |-> Put(Empty, t), imu |-> f.imu, next |-> f.next,
             dropped |-> f.dropped, out |-> f.out]
    BY <1>5, <2>1 DEF Accept, Works, f
  <2>3. CanBatch(Put(Empty, t), t)
    BY EmptyBatch, PutCan DEF Empty
  <2>4. Put(Empty, t) \in Batches
    BY <2>3 DEF CanBatch
  <2> HIDE DEF a
  <2>5. a \in Works
    BY <2>1, <2>2, <2>4 DEF Works
  <2>6. Sound(a, t)
    BY <1>1, <1>3, <2>2, <2>3, <2>5 DEF Sound
  <2> QED
    BY <1>3, <1>4, <2>2, <2>6 DEF a
<1>6. CASE ~Overflows(w.can, t)
  <2>1. a = [can |-> Put(w.can, t), imu |-> w.imu, next |-> w.next,
             dropped |-> w.dropped, out |-> w.out]
    BY <1>1, <1>6 DEF Accept, Works
  <2>2. w.can.t0 \in {None} \cup 0..MaxTime /\ Window \in Nat
    BY <1>1, StreamBounds DEF Works, Batches
  <2>3. w.can.t0 # None => t - w.can.t0 <= Window
    BY <1>6, <2>2 DEF Overflows, None
  <2>4. CanBatch(Put(w.can, t), t)
    BY <1>1, <2>3, PutCan
  <2>5. Put(w.can, t) \in Batches
    BY <2>4 DEF CanBatch
  <2> HIDE DEF a
  <2>6. a \in Works
    BY <1>1, <2>1, <2>5 DEF Works
  <2>7. Sound(a, t)
    BY <1>1, <2>1, <2>4, <2>6 DEF Sound
  <2> QED
    BY <2>1, <2>7 DEF a
<1> QED
  BY <1>5, <1>6

LEMMA SampleForm ==
    ASSUME NEW w \in Works, NEW b, NEW n
    PROVE  [w EXCEPT !.imu = b, !.next = n] =
             [can |-> w.can, imu |-> b, next |-> n, dropped |-> w.dropped, out |-> w.out]
<1> DEFINE x == [can |-> w.can, imu |-> b, next |-> w.next, dropped |-> w.dropped,
                 out |-> w.out]
<1>1. w = [can |-> w.can, imu |-> w.imu, next |-> w.next, dropped |-> w.dropped,
           out |-> w.out]
  BY Zenon DEF Works
<1>2. [w EXCEPT !.imu = b] = x
  BY <1>1
<1>3. [x EXCEPT !.next = n] = [can |-> w.can, imu |-> b, next |-> n,
                              dropped |-> w.dropped, out |-> w.out]
  OBVIOUS
<1>4. [w EXCEPT !.imu = b, !.next = n] = [[w EXCEPT !.imu = b] EXCEPT !.next = n]
  OBVIOUS
<1> HIDE DEF x
<1> QED
  BY <1>2, <1>3, <1>4

\* A sample taken when it is due leaves sound buffers, and the next one a period later.
LEMMA SampleSound ==
    ASSUME NEW w, NEW last, Sound(w, last), imu_hz \in DOMAIN Period, w.next <= MaxTime,
           MaxTime \in Nat,
           NEW c \in [Streams -> Int], Balance(w.dropped, w.out, c)
    PROVE  /\ Sound(Sample(w, w.next), last) /\ Sample(w, w.next).can = w.can
           /\ Sample(w, w.next).next = w.next + Period[imu_hz]
           /\ Balance(Sample(w, w.next).dropped, Sample(w, w.next).out, c)
<1> DEFINE t == w.next
           b == Put(w.imu, t)
           P == Period[imu_hz]
           full == [w EXCEPT !.imu = b, !.next = t + P]
<1>1. w \in Works /\ CanBatch(w.can, last) /\ ImuBatch(w.imu, w.next)
  BY DEF Sound
<1>2. t \in 0..MaxTime /\ P \in Nat /\ "imu" \in Streams
  BY <1>1, PeriodAssumption DEF Works, Streams
<1>3. ImuBatch(b, t + P)
  BY <1>1, <1>2, PutImu
<1>4. b \in Batches
  BY <1>3 DEF ImuBatch
<1>5. full = [can |-> w.can, imu |-> b, next |-> t + P, dropped |-> w.dropped, out |-> w.out]
  BY <1>1, SampleForm
<1> HIDE DEF full, b
<1>6. full \in Works
  BY <1>1, <1>2, <1>4, <1>5 DEF Works
<1>7. Sound(full, last) /\ full.can = w.can /\ full.next = t + P
  BY <1>1, <1>3, <1>5, <1>6 DEF Sound
<1>8. Balance(full.dropped, full.out, c)
  BY <1>5
<1>9. /\ Sound(Flush(full, "imu"), last) /\ Flush(full, "imu").can = w.can
      /\ Flush(full, "imu").next = t + P
      /\ Balance(Flush(full, "imu").dropped, Flush(full, "imu").out, c)
  BY <1>2, <1>7, <1>8, FlushSound, FlushBalances
<1>10. Sample(w, t) = full \/ Sample(w, t) = Flush(full, "imu")
  BY DEF Sample, full, b
<1> QED
  BY <1>7, <1>8, <1>9, <1>10

\* Skipping a backlog counts it, and tears a batch that was pending.
LEMMA SkipSound ==
    ASSUME NEW w, NEW last, Sound(w, last), imu_hz \in DOMAIN Period, Skipped \in Nat,
           NEW c \in [Streams -> Int], Balance(w.dropped, w.out, c)
    PROVE  /\ Sound(Skip(w), last) /\ Skip(w).can = w.can
           /\ Balance(Skip(w).dropped, Skip(w).out, [c EXCEPT !["imu"] = @ + Skipped])
<1> DEFINE P == Period[imu_hz]
           b == [t0 |-> w.imu.t0, times |-> w.imu.times,
                 torn |-> w.imu.torn \/ (Skipped > 0 /\ w.imu.times # <<>>)]
           d == [w.dropped EXCEPT !["imu"] = @ + Skipped]
           e == [c EXCEPT !["imu"] = @ + Skipped]
           n == w.next + Skipped * P
<1>1. /\ w \in Works /\ CanBatch(w.can, last) /\ ImuBatch(w.imu, w.next)
      /\ w.next \in Nat /\ w.dropped \in [Streams -> Nat] /\ w.out \in Seq(HonestPayloads)
      /\ w.can \in Batches /\ w.imu \in Batches
  BY DEF Sound, Works
<1>2. P \in Nat /\ Skipped * P \in Nat
  BY PeriodAssumption
<1>3. Skip(w) = [can |-> w.can, next |-> n, out |-> w.out, dropped |-> d, imu |-> b]
  BY DEF Skip
<1>4. b \in Batches
  BY <1>1, Zenon DEF Batches
<1>5. d \in [Streams -> Nat]
  BY <1>1 DEF Streams
<1>6. ImuBatch(b, n)
  <2>1. b.t0 = w.imu.t0 /\ b.times = w.imu.times
    OBVIOUS
  <2>2. ~b.torn => ~w.imu.torn /\ ~(Skipped > 0 /\ w.imu.times # <<>>)
    BY Zenon
  <2> HIDE DEF b, P
  <2>3. ASSUME b.times # <<>>, ~b.torn
        PROVE  /\ \A k \in 1..Len(b.times) : b.times[k] = b.t0 + (k - 1) * P
               /\ n = b.t0 + Len(b.times) * P
    <3>1. ~w.imu.torn /\ ~(Skipped > 0)
      BY <2>1, <2>2, <2>3, Zenon
    <3>2. Skipped = 0
      BY <3>1
    <3>3. n = w.next
      BY <1>1, <1>2, <3>2
    <3> QED
      BY <1>1, <2>1, <2>3, <3>1, <3>3, Zenon DEF ImuBatch, P
  <2>4. b.t0 = (IF b.times = <<>> THEN None ELSE b.times[1])
    BY <1>1, <2>1 DEF ImuBatch
  <2>5. imu_hz # 0
    BY PeriodAssumption
  <2> QED
    BY <1>4, <2>3, <2>4, <2>5, Zenon DEF ImuBatch, P
<1>7. Balance(d, w.out, e)
  <2> SUFFICES ASSUME NEW s \in Streams
               PROVE  /\ d[s] + Said(s, w.out) <= e[s]
                      /\ ~Full(w.out) => d[s] + Said(s, w.out) = e[s]
    BY DEF Balance
  <2>1. /\ w.dropped[s] + Said(s, w.out) <= c[s]
        /\ ~Full(w.out) => w.dropped[s] + Said(s, w.out) = c[s]
    BY DEF Balance
  <2>2. w.dropped[s] \in Nat /\ c[s] \in Int /\ Said(s, w.out) \in Nat
    BY <1>1, HonestIsPayload, SaidNumber
  <2>3. s = "imu" => d[s] = w.dropped[s] + Skipped /\ e[s] = c[s] + Skipped
    BY <1>1
  <2>4. s # "imu" => d[s] = w.dropped[s] /\ e[s] = c[s]
    BY <1>1
  <2> HIDE DEF d, e
  <2>5. CASE s = "imu"
    BY <2>1, <2>2, <2>3, <2>5
  <2>6. CASE s # "imu"
    BY <2>1, <2>2, <2>4, <2>6
  <2> QED
    BY <2>5, <2>6
<1> HIDE DEF b, d, e
<1>8. n \in Nat
  BY <1>1, <1>2
<1> HIDE DEF n
<1>9. Skip(w) \in Works
  BY <1>1, <1>3, <1>4, <1>5, <1>8 DEF Works
<1>10. Sound(Skip(w), last) /\ Skip(w).can = w.can
  BY <1>1, <1>3, <1>6, <1>9 DEF Sound
<1>11. Balance(Skip(w).dropped, Skip(w).out, e)
  BY <1>3, <1>7
<1> QED
  BY <1>10, <1>11 DEF e

LEMMA Multiples ==
    ASSUME NEW a \in Nat, NEW P \in Nat \ {0}, NEW k \in 0..(a \div P)
    PROVE  k * P \in Nat /\ k * P <= a
<1>1. a \div P \in Nat /\ (a \div P) * P <= a
  OBVIOUS
<1> DEFINE q == a \div P
<1>2. q \in Nat /\ q * P <= a /\ k \in Nat /\ k <= q
  BY <1>1
<1> HIDE DEF q
<1>3. k * P <= q * P /\ k * P \in Nat /\ q * P \in Nat
  BY <1>2
<1> QED
  BY <1>2, <1>3

\* _advance_imu: the samples due are taken one after another.
LEMMA SampledSound ==
    ASSUME NEW w, NEW last, Sound(w, last), imu_hz \in DOMAIN Period,
           MaxTime \in Nat, now \in 0..MaxTime,
           NEW c \in [Streams -> Int], Balance(w.dropped, w.out, c)
    PROVE  LET x == Sampled(w, SampleTimes(w))
           IN  Sound(x, last) /\ x.can = w.can /\ Balance(x.dropped, x.out, c)
<1> DEFINE P == Period[imu_hz]
           times == SampleTimes(w)
           N == IF now < w.next THEN 0 ELSE (now - w.next) \div P + 1
           S == [n \in 0..N |-> {x \in Works : /\ Sound(x, last) /\ x.can = w.can
                                               /\ x.next = w.next + n * P
                                               /\ Balance(x.dropped, x.out, c)}]
<1>1. P \in Nat \ {0} /\ w.next \in Nat /\ w \in Works
  BY PeriodAssumption DEF Sound, Works
<1>2. N \in Nat
  BY <1>1
<1>3. times = [n \in 1..N |-> w.next + (n - 1) * P]
  BY DEF SampleTimes
<1>4. Len(times) = N
  <2> HIDE DEF N, times
  <2> QED
    BY <1>2, <1>3
<1>5. ASSUME NEW n \in 1..N
      PROVE  times[n] = w.next + (n - 1) * P /\ times[n] <= MaxTime
  <2>1. n - 1 \in 0..((now - w.next) \div P) /\ now - w.next \in Nat
    BY <1>1, <1>5
  <2>2. (n - 1) * P \in Nat /\ (n - 1) * P <= now - w.next
    BY <1>1, <2>1, Multiples
  <2>3. times[n] = w.next + (n - 1) * P
    BY <1>3, <1>5
  <2> HIDE DEF times, N
  <2> QED
    BY <1>1, <2>2, <2>3
<1>6. w \in S[0]
  <2>1. 0 * P = 0 /\ w.next + 0 = w.next
    BY <1>1
  <2>2. 0 \in 0..N
    BY <1>2
  <2> HIDE DEF N, P
  <2> QED
    BY <1>1, <2>1, <2>2
<1>7. ASSUME NEW n \in 1..N, NEW x \in S[n - 1]
      PROVE  Sample(x, times[n]) \in S[n]
  <2>1. n - 1 \in 0..N /\ n \in 0..N
    BY <1>2
  <2>2. /\ x \in Works /\ Sound(x, last) /\ x.can = w.can
        /\ x.next = w.next + (n - 1) * P /\ Balance(x.dropped, x.out, c)
    BY <2>1
  <2>3. times[n] = x.next /\ x.next <= MaxTime
    BY <1>5, <2>2
  <2> DEFINE y == Sample(x, x.next)
  <2>4. Sound(y, last) /\ y.can = x.can /\ y.next = x.next + P /\ Balance(y.dropped, y.out, c)
    BY <2>2, <2>3, SampleSound
  <2>5. (n - 1) * P + P = n * P /\ (n - 1) * P \in Nat
    <3>1. n \in Nat /\ n - 1 \in Nat
      BY <1>2
    <3> HIDE DEF P, N
    <3> QED
      BY <1>1, <3>1
  <2> HIDE DEF y
  <2>6. y.next = w.next + n * P
    BY <1>1, <2>2, <2>4, <2>5
  <2>7. y \in Works
    BY <2>4 DEF Sound
  <2> HIDE DEF N, times, P
  <2>8. y \in S[n]
    BY <2>1, <2>2, <2>4, <2>6, <2>7
  <2> QED
    BY <2>3, <2>8 DEF y
<1>8. Sampled(w, times) \in S[N]
  <2> HIDE DEF N, S, times
  <2> QED
    BY <1>2, <1>4, <1>6, <1>7, SampledStays
<1>9. N \in 0..N
  BY <1>2
<1> HIDE DEF N, times
<1> QED
  BY <1>8, <1>9 DEF times

\* The IMU part of a poll.
LEMMA ImuSound ==
    ASSUME NEW w, NEW last, Sound(w, last), imu_hz \in DOMAIN Period \cup {0},
           MaxTime \in Nat, now \in 0..MaxTime, imu_hz # 0 => Skipped \in Nat,
           NEW c \in [Streams -> Int], Balance(w.dropped, w.out, c)
    PROVE  /\ Sound(ImuPart(w), last) /\ ImuPart(w).can = w.can
           /\ Balance(ImuPart(w).dropped, ImuPart(w).out,
                      [c EXCEPT !["imu"] = @ + IF imu_hz = 0 THEN 0 ELSE Skipped])
<1>1. CASE imu_hz = 0
  <2> DEFINE e == [c EXCEPT !["imu"] = @ + 0]
  <2>1. e = c
    OBVIOUS
  <2>2. ImuPart(w) = w
    BY <1>1 DEF ImuPart
  <2>3. e = [c EXCEPT !["imu"] = @ + IF imu_hz = 0 THEN 0 ELSE Skipped]
    BY <1>1, Zenon
  <2> HIDE DEF e
  <2> QED
    BY <2>1, <2>2, <2>3, Zenon
<1>2. CASE imu_hz # 0
  <2> DEFINE e == [c EXCEPT !["imu"] = @ + Skipped]
             x == Skip(w)
             y == Sampled(x, SampleTimes(x))
  <2>1. e \in [Streams -> Int]
    BY <1>2 DEF Streams
  <2>2. Sound(x, last) /\ x.can = w.can /\ Balance(x.dropped, x.out, e)
    BY <1>2, SkipSound
  <2>3. ImuPart(w) = y
    BY <1>2, Zenon DEF ImuPart
  <2>4. e = [c EXCEPT !["imu"] = @ + IF imu_hz = 0 THEN 0 ELSE Skipped]
    BY <1>2, Zenon
  <2> HIDE DEF x, e
  <2>5. Sound(y, last) /\ y.can = x.can /\ Balance(y.dropped, y.out, e)
    BY <1>2, <2>1, <2>2, SampledSound
  <2> HIDE DEF y
  <2> QED
    BY <2>2, <2>3, <2>4, <2>5, Zenon
<1> QED
  BY <1>1, <1>2

\* Every record of b is young enough for a timer that fires at f.
Timed(b, f) == \A n \in 1..Len(b.times) : f <= b.times[n] + FlushEvery

LEMMA PutTimed ==
    ASSUME NEW b \in Batches, NEW t \in 0..MaxTime, NEW f \in Nat, Timed(b, f),
           f <= t + FlushEvery
    PROVE  Timed(Put(b, t), f)
<1> DEFINE p == Put(b, t)
<1>1. b.times \in Seq(0..MaxTime)
  BY DEF Batches
<1>2. p.times = Append(b.times, t)
  BY PutForm
<1>3. /\ Len(p.times) = Len(b.times) + 1 /\ p.times[Len(b.times) + 1] = t
      /\ Len(b.times) \in Nat /\ \A n \in 1..Len(b.times) : p.times[n] = b.times[n]
  BY <1>1, <1>2, Appended
<1> HIDE DEF p
<1>4. ASSUME NEW n \in 1..Len(p.times) PROVE f <= p.times[n] + FlushEvery
  <2>1. n = Len(b.times) + 1 \/ n \in 1..Len(b.times)
    BY <1>3
  <2> QED
    BY <1>3, <2>1 DEF Timed
<1> QED
  BY <1>4 DEF Timed, p

LEMMA LaterSound ==
    ASSUME NEW w, NEW last \in Int, Sound(w, last), NEW t \in Int, last <= t
    PROVE  Sound(w, t)
<1>1. w \in Works /\ CanBatch(w.can, last) /\ ImuBatch(w.imu, w.next)
  BY DEF Sound
<1>2. w.can.times \in Seq(0..MaxTime)
  BY <1>1 DEF Works, Batches
<1>3. \A n \in 1..Len(w.can.times) : w.can.times[n] \in Int
  <2>1. \A n \in 1..Len(w.can.times) : w.can.times[n] \in 0..MaxTime
    BY <1>2, Members
  <2> QED
    BY <2>1
<1>4. \A n \in 1..Len(w.can.times) : w.can.times[n] <= last
  BY <1>1 DEF CanBatch
<1>5. \A n \in 1..Len(w.can.times) : w.can.times[n] <= t
  BY <1>3, <1>4
<1>6. CanBatch(w.can, t)
  BY <1>1, <1>5 DEF CanBatch
<1> QED
  BY <1>1, <1>6 DEF Sound

\* Frames that arrived since last, in order.
Ascending(frames, last) ==
    /\ frames \in Seq(0..MaxTime)
    /\ \A n \in 1..Len(frames) : last <= frames[n] /\ frames[n] <= now
    /\ \A n \in 2..Len(frames) : frames[n - 1] <= frames[n]

LEMMA AcceptedSound ==
    ASSUME NEW w, NEW last \in Int, Sound(w, last), imu_hz \in DOMAIN Period \cup {0},
           now \in Nat, last <= now, NEW frames, Ascending(frames, last),
           NEW f \in Nat, Timed(w.can, f), f <= last + FlushEvery \/ f = 0,
           NEW c \in [Streams -> Int], Balance(w.dropped, w.out, c)
    PROVE  LET x == Accepted(w, frames)
           IN  /\ Sound(x, now) /\ Timed(x.can, f) /\ Balance(x.dropped, x.out, c)
               /\ x.imu = w.imu /\ x.next = w.next
<1> DEFINE N == Len(frames)
           At(n) == IF n = 0 THEN last ELSE frames[n]
           S == [n \in 0..N |-> {x \in Works : /\ Sound(x, At(n)) /\ Timed(x.can, f)
                                               /\ Balance(x.dropped, x.out, c)
                                               /\ x.imu = w.imu /\ x.next = w.next}]
<1>1. N \in Nat /\ \A n \in 1..N : frames[n] \in 0..MaxTime
  BY Members DEF Ascending
<1>2. /\ \A n \in 1..N : last <= frames[n] /\ frames[n] <= now
      /\ \A n \in 2..N : frames[n - 1] <= frames[n]
  BY DEF Ascending
<1>3. w \in S[0]
  BY <1>1 DEF Sound
<1>4. ASSUME NEW n \in 1..N, NEW x \in S[n - 1]
      PROVE  Accept(x, frames[n]) \in S[n]
  <2>1. n - 1 \in 0..N /\ n \in 0..N /\ At(n) = frames[n]
    BY <1>1
  <2>2. /\ x \in Works /\ Sound(x, At(n - 1)) /\ Timed(x.can, f) /\ Balance(x.dropped, x.out, c)
        /\ x.imu = w.imu /\ x.next = w.next
    BY <2>1
  <2>3. At(n - 1) \in Int /\ At(n - 1) <= frames[n]
    <3>1. CASE n = 1
      BY <1>1, <1>2, <3>1
    <3>2. CASE n # 1
      <4>1. n \in 2..N /\ n - 1 \in 1..N
        BY <1>1, <3>2
      <4> QED
        BY <1>1, <1>2, <4>1
    <3> QED
      BY <3>1, <3>2
  <2> DEFINE t == frames[n]
             y == Accept(x, t)
             b == At(n - 1)
  <2>4. t \in 0..MaxTime /\ last <= t
    BY <1>1, <1>2
  <2>5. b \in Int /\ b <= t /\ Sound(x, b)
    BY <2>2, <2>3
  <2> HIDE DEF b, t, At, N
  <2>6. /\ Sound(y, t) /\ Balance(y.dropped, y.out, c)
        /\ y.imu = w.imu /\ y.next = w.next
        /\ y.can = Put(Empty, t) \/ y.can = Put(x.can, t)
    BY <2>2, <2>4, <2>5, AcceptSound
  <2>7. f <= t + FlushEvery
    BY <2>4, StreamBounds
  <2>8. Timed(Empty, f) /\ Empty \in Batches /\ x.can \in Batches
    <3>1. Empty.times = <<>> /\ Len(<<>>) = 0
      BY DEF Empty
    <3>2. Timed(Empty, f)
      BY <3>1 DEF Timed
    <3> QED
      BY <2>2, <3>2, EmptyBatch DEF Works
  <2>9. Timed(y.can, f)
    BY <2>2, <2>4, <2>6, <2>7, <2>8, PutTimed
  <2>10. y \in Works
    BY <2>6 DEF Sound
  <2> HIDE DEF y
  <2> QED
    BY <2>1, <2>6, <2>9, <2>10 DEF y, t
<1>5. Accepted(w, frames) \in S[N]
  <2> HIDE DEF S, N
  <2> QED
    BY <1>1, <1>3, <1>4, AcceptedStays DEF N
<1> DEFINE x == Accepted(w, frames)
<1>6. /\ x \in Works /\ Sound(x, At(N)) /\ Timed(x.can, f) /\ Balance(x.dropped, x.out, c)
      /\ x.imu = w.imu /\ x.next = w.next
  <2>1. N \in 0..N
    BY <1>1
  <2> HIDE DEF N, x, At
  <2> QED
    BY <1>5, <2>1 DEF x
<1>7. At(N) \in Int /\ At(N) <= now
  <2>1. CASE N = 0
    BY <2>1
  <2>2. CASE N # 0
    <3>1. N \in 1..N
      BY <1>1, <2>2
    <3> QED
      BY <1>1, <1>2, <2>2, <3>1
  <2> QED
    BY <2>1, <2>2
<1> HIDE DEF x, At, N
<1>8. Sound(x, now)
  BY <1>6, <1>7, LaterSound
<1> QED
  BY <1>6, <1>8 DEF x

-----------------------------------------------------------------------------
(* The transport's hands *)

OwnHeld == {h \in [Streams -> HonestPayloads \cup {Nothing}] :
               \A s \in Streams : h[s] = Nothing \/ h[s].stream = s}
Hands == [held : OwnHeld, dropped : [Streams -> Nat], unpaid : [Streams -> Int]]

\* What is counted, and said by what is held, against what was lost.
Owed(h, s) == h.dropped[s] + h.held[s].dropped - h.unpaid[s]

LEMMA HeldNumber ==
    ASSUME NEW h \in OwnHeld, NEW s \in Streams
    PROVE  /\ h[s].dropped \in Nat /\ Len(h[s].times) \in Nat
           /\ h[s] = Nothing => h[s].dropped = 0 /\ Len(h[s].times) = 0
<1>1. CASE h[s] = Nothing
  BY <1>1 DEF Nothing
<1>2. CASE h[s] # Nothing
  <2>1. h[s] \in Payloads
    BY <1>2, HonestIsPayload DEF OwnHeld
  <2>2. h[s].dropped \in Nat
    BY <2>1, SaysNumber
  <2>3. h[s].times \in Seq(0..MaxTime)
    BY <2>1 DEF Payloads
  <2> QED
    BY <1>2, <2>2, <2>3
<1> QED
  BY <1>1, <1>2

LEMMA CreditNumber ==
    ASSUME NEW h \in OwnHeld, NEW s \in Streams
    PROVE  Credit(h[s]) = Len(h[s].times) + h[s].dropped
<1>1. h[s] = Nothing => h[s].dropped = 0 /\ Len(h[s].times) = 0
  BY HeldNumber
<1> QED
  BY <1>1 DEF Credit

\* What a payload supersedes is counted again, its own report with it.
LEMMA OfferedSound ==
    ASSUME NEW h \in Hands, NEW p \in HonestPayloads, NEW s \in Streams
    PROVE  /\ Offered(h, p) \in Hands
           /\ Owed(Offered(h, p), s) = Owed(h, s) + Says(s, p)
<1> DEFINE z == p.stream
           g == [h.held EXCEPT ![z] = p]
           d == [h.dropped EXCEPT ![z] = @ + Credit(h.held[z])]
           u == [h.unpaid EXCEPT ![z] = @ + Len(h.held[z].times)]
           o == Offered(h, p)
<1>1. /\ h.held \in OwnHeld /\ h.dropped \in [Streams -> Nat] /\ h.unpaid \in [Streams -> Int]
      /\ h.held \in [Streams -> HonestPayloads \cup {Nothing}]
      /\ \A x \in Streams : h.held[x] = Nothing \/ h.held[x].stream = x
  BY DEF Hands, OwnHeld
<1>2. z \in Streams /\ p \in Payloads
  BY HonestIsPayload DEF Payloads
<1> DEFINE n == Len(h.held[z].times)
           k == h.held[z].dropped
<1>3. n \in Nat /\ k \in Nat /\ Credit(h.held[z]) = n + k
  BY <1>1, <1>2, HeldNumber, CreditNumber
<1>4. g \in OwnHeld
  <2>1. g \in [Streams -> HonestPayloads \cup {Nothing}]
    BY <1>1, <1>2
  <2>2. \A x \in Streams : g[x] = Nothing \/ g[x].stream = x
    BY <1>1, <1>2
  <2> HIDE DEF g
  <2> QED
    BY <2>1, <2>2 DEF OwnHeld
<1>5. d \in [Streams -> Nat]
  <2> HIDE DEF z, n, k
  <2> QED
    BY <1>1, <1>2, <1>3
<1>6. u \in [Streams -> Int]
  <2>1. h.unpaid[z] + n \in Int
    BY <1>1, <1>2, <1>3
  <2> HIDE DEF z
  <2> QED
    BY <1>1, <2>1
<1>7. o = [held |-> g, dropped |-> d, unpaid |-> u]
  BY DEF Offered
<1>8. CASE s = z
  <2>1. g[s] = p /\ Says(s, p) = p.dropped /\ p.dropped \in Nat
    BY <1>1, <1>2, <1>8, SaysNumber DEF Says
  <2>2. d[s] = h.dropped[s] + (n + k)
    BY <1>1, <1>2, <1>3, <1>8, Zenon
  <2>3. u[s] = h.unpaid[s] + n
    BY <1>1, <1>2, <1>8, Zenon
  <2>4. h.held[s].dropped = k /\ h.dropped[s] \in Nat /\ h.unpaid[s] \in Int
    BY <1>1, <1>2, <1>8
  <2> HIDE DEF g, d, u, n, k, z, o
  <2>5. d[s] + g[s].dropped - u[s] = h.dropped[s] + h.held[s].dropped - h.unpaid[s] + Says(s, p)
    BY <1>3, <2>1, <2>2, <2>3, <2>4
  <2>6. Owed(o, s) = Owed(h, s) + Says(s, p)
    BY <1>7, <2>5 DEF Owed
  <2>7. o \in Hands
    BY <1>4, <1>5, <1>6, <1>7 DEF Hands
  <2> QED
    BY <2>6, <2>7 DEF o
<1>9. CASE s # z
  <2>1. g[s] = h.held[s] /\ d[s] = h.dropped[s] /\ u[s] = h.unpaid[s] /\ Says(s, p) = 0
    BY <1>1, <1>9 DEF Says
  <2>2. h.held[s].dropped \in Nat /\ h.dropped[s] \in Nat /\ h.unpaid[s] \in Int
    BY <1>1, HeldNumber
  <2> HIDE DEF g, d, u, n, k, z, o
  <2>3. Owed(o, s) = Owed(h, s) + Says(s, p)
    BY <1>7, <2>1, <2>2 DEF Owed
  <2>4. o \in Hands
    BY <1>4, <1>5, <1>6, <1>7 DEF Hands
  <2> QED
    BY <2>3, <2>4 DEF o
<1> QED
  BY <1>8, <1>9

LEMMA OfferedAllSound ==
    ASSUME NEW h \in Hands, NEW q \in Seq(HonestPayloads), NEW s \in Streams
    PROVE  /\ OfferedAll(h, q) \in Hands
           /\ Owed(OfferedAll(h, q), s) = Owed(h, s) + Said(s, q)
<1>1. q \in Seq(Payloads)
  BY HonestIsPayload
<1>2. PICK f : Sums(s, q, f)
  BY <1>1, SaidSums
<1> DEFINE N == Len(q)
           S == [n \in 0..N |-> {x \in Hands : Owed(x, s) = Owed(h, s) + f[n]}]
<1>3. /\ N \in Nat /\ f[0] = 0 /\ Said(s, q) = f[N]
      /\ \A n \in 1..N : f[n] = f[n - 1] + Says(s, q[n])
      /\ \A n \in 0..N : f[n] \in Nat
  BY <1>2 DEF Sums
<1>4. ASSUME NEW x \in Hands PROVE Owed(x, s) \in Int
  <2>1. x.dropped[s] \in Nat /\ x.unpaid[s] \in Int /\ x.held \in OwnHeld
    BY DEF Hands
  <2>2. x.held[s].dropped \in Nat
    BY <2>1, HeldNumber
  <2> QED
    BY <2>1, <2>2 DEF Owed
<1>5. h \in S[0]
  BY <1>3, <1>4
<1>6. ASSUME NEW n \in 1..N, NEW x \in S[n - 1] PROVE Offered(x, q[n]) \in S[n]
  <2>1. n - 1 \in 0..N /\ n \in 0..N
    BY <1>3
  <2>2. x \in Hands /\ Owed(x, s) = Owed(h, s) + f[n - 1]
    BY <2>1
  <2>3. q[n] \in HonestPayloads
    BY Members
  <2> DEFINE p == q[n]
             y == Offered(x, p)
  <2>4. y \in Hands /\ Owed(y, s) = Owed(x, s) + Says(s, p)
    BY <2>2, <2>3, OfferedSound
  <2>5. f[n] = f[n - 1] + Says(s, p) /\ f[n - 1] \in Nat /\ Says(s, p) \in Nat
    BY <1>3, <2>1, <2>3, SaysNumber, HonestIsPayload
  <2> HIDE DEF p, y, N
  <2>6. Owed(y, s) = Owed(h, s) + f[n]
    BY <1>4, <2>2, <2>4, <2>5
  <2> QED
    BY <2>1, <2>4, <2>6 DEF y, p
<1>7. OfferedAll(h, q) \in S[N]
  <2> HIDE DEF S, N
  <2> QED
    BY <1>3, <1>5, <1>6, OfferedAllStays DEF N
<1>8. N \in 0..N
  BY <1>3
<1> HIDE DEF N
<1> QED
  BY <1>3, <1>7, <1>8

-----------------------------------------------------------------------------
(* The inductive invariant *)

TypeInv ==
    /\ caps \in Profiles /\ now \in 0..MaxTime /\ polled \in None..now
    /\ capacity \in Links \cup {Ceiling} /\ imu_hz \in DOMAIN Period \cup {0}
    /\ next_imu \in Nat /\ next_flush \in Nat
    /\ requests \in 0..MaxControl /\ losses \in 0..MaxLoss

BoolInv == up \in BOOLEAN /\ subs \in BOOLEAN

\* What is pending was seen by the last poll, and what left is honest.
BufferInv ==
    /\ CanBatch(can, polled) /\ ImuBatch(imu, next_imu)
    /\ dropped \in [Streams -> Nat] /\ unpaid \in [Streams -> Int]
    /\ deferred \in Seq(HonestPayloads) /\ held \in OwnHeld

\* The timer fires before a pending record is a flush period old, and no later than one
\* after the last poll.
TimerInv ==
    /\ next_flush <= polled + FlushEvery \/ next_flush = 0
    /\ Timed(can, next_flush)

Inv == TypeInv /\ BufferInv /\ TimerInv /\ LossExact

LossAt(s) ==
    /\ Unreported(s) <= unpaid[s]
    /\ ~clamped => Unreported(s) = unpaid[s]

LEMMA LossByStream == LossExact <=> (up => \A s \in Streams : LossAt(s))
  BY Zenon DEF LossExact, LossAt

-----------------------------------------------------------------------------
(* A poll *)

\* What was to be reported of s before a poll, and what it skips.
Before(s)  == dropped[s] + Said(s, deferred)
SkippedOf(s) == IF s = "imu" /\ imu_hz # 0 THEN Skipped ELSE 0

LEMMA BuffersSound ==
    ASSUME TypeInv, BufferInv
    PROVE  /\ Sound(Buffers, polled) /\ Balance(Buffers.dropped, Buffers.out, [s \in Streams |-> Before(s)])
           /\ Buffers.can = can /\ Buffers.imu = imu /\ Buffers.next = next_imu
           /\ Buffers.dropped = dropped /\ Buffers.out = deferred
<1>1. /\ CanBatch(can, polled) /\ ImuBatch(imu, next_imu) /\ next_imu \in Nat
      /\ dropped \in [Streams -> Nat] /\ deferred \in Seq(HonestPayloads)
      /\ can \in Batches /\ imu \in Batches
  BY DEF TypeInv, BufferInv, CanBatch, ImuBatch
<1>2. /\ Buffers.can = can /\ Buffers.imu = imu /\ Buffers.next = next_imu
      /\ Buffers.dropped = dropped /\ Buffers.out = deferred
  BY DEF Buffers
<1>3. Buffers \in Works
  BY <1>1, Zenon DEF Buffers, Works
<1>4. Sound(Buffers, polled)
  BY <1>1, <1>2, <1>3 DEF Sound
<1>5. ASSUME NEW s \in Streams PROVE Before(s) \in Nat
  <2>1. Said(s, deferred) \in Nat /\ dropped[s] \in Nat
    BY <1>1, HonestIsPayload, SaidNumber
  <2> QED
    BY <2>1 DEF Before
<1>6. Balance(dropped, deferred, [s \in Streams |-> Before(s)])
  <2>1. ASSUME NEW s \in Streams
        PROVE  /\ dropped[s] + Said(s, deferred) <= [z \in Streams |-> Before(z)][s]
               /\ dropped[s] + Said(s, deferred) = [z \in Streams |-> Before(z)][s]
    BY <1>5 DEF Before
  <2> QED
    BY <2>1 DEF Balance
<1> QED
  BY <1>2, <1>4, <1>6

LEMMA SkippedNumber ==
    ASSUME TypeInv, imu_hz # 0
    PROVE  Skipped \in Nat
<1>1. imu_hz \in DOMAIN Period /\ now \in Nat /\ next_imu \in Nat
  BY DEF TypeInv
<1>2. Period[imu_hz] \in Nat \ {0} /\ capacity.imu \in Nat
  BY <1>1, PeriodAssumption, CapacityAssumption DEF TypeInv
<1>3. Behind \in Nat
  BY <1>1, <1>2 DEF Behind
<1> QED
  BY <1>2, <1>3 DEF Skipped, Larger

LEMMA ArrivalsAscend ==
    ASSUME TypeInv, NEW frames \in Arrivals \cup {<<>>}
    PROVE  Ascending(frames, polled)
<1>1. now \in 0..MaxTime /\ polled \in Int /\ -1 <= polled /\ MaxTime \in Nat
  BY StreamBounds DEF TypeInv, None
<1>2. CASE frames = <<>>
  BY <1>2 DEF Ascending
<1>3. CASE frames \in Arrivals
  <2> DEFINE A == {t \in 0..now : polled < t /\ now - 1 <= t}
  <2>1. \A t \in A : t \in 0..MaxTime /\ polled <= t /\ t <= now
    BY <1>1
  <2> HIDE DEF A
  <2>2. PICK n \in 0..Busy : frames \in [1..n -> A]
    BY <1>3 DEF Arrivals, A
  <2>3. \A m \in DOMAIN frames : m > 1 => frames[m - 1] <= frames[m]
    BY <1>3 DEF Arrivals
  <2>4. n \in Nat /\ DOMAIN frames = 1..n /\ \A m \in 1..n : frames[m] \in A
    BY <2>2, StreamBounds
  <2>5. frames \in [1..n -> 0..MaxTime]
    BY <2>1, <2>2
  <2>6. frames \in Seq(0..MaxTime) /\ Len(frames) = n
    BY <2>4, <2>5, IsSequence
  <2>7. ASSUME NEW m \in 1..Len(frames) PROVE polled <= frames[m] /\ frames[m] <= now
    <3>1. frames[m] \in A
      BY <2>4, <2>6
    <3> QED
      BY <2>1, <3>1, Zenon
  <2>8. ASSUME NEW m \in 2..Len(frames) PROVE frames[m - 1] <= frames[m]
    <3>1. m \in DOMAIN frames /\ m > 1
      BY <2>4, <2>6
    <3> QED
      BY <2>3, <3>1
  <2> QED
    BY <2>6, <2>7, <2>8 DEF Ascending
<1> QED
  BY <1>2, <1>3

LEMMA PolledSound ==
    ASSUME TypeInv, BufferInv, TimerInv, polled < now,
           NEW frames, Ascending(frames, polled)
    PROVE  LET w == Polled(frames)
           IN  /\ Sound(w, now) /\ Timed(w.can, next_flush)
               /\ Balance(w.dropped, w.out, [s \in Streams |-> Before(s) + SkippedOf(s)])
<1> DEFINE c == [s \in Streams |-> Before(s)]
           d == [s \in Streams |-> Before(s) + SkippedOf(s)]
           e == [c EXCEPT !["imu"] = @ + IF imu_hz = 0 THEN 0 ELSE Skipped]
           x == ImuPart(Buffers)
           y == Accepted(x, frames)
<1>1. /\ Sound(Buffers, polled) /\ Balance(Buffers.dropped, Buffers.out, c) /\ Buffers.can = can
  BY BuffersSound
<1>2. /\ now \in 0..MaxTime /\ now \in Nat /\ polled \in Int /\ MaxTime \in Nat
      /\ next_flush \in Nat /\ imu_hz \in DOMAIN Period \cup {0}
  BY StreamBounds DEF TypeInv, None
<1>3. imu_hz # 0 => Skipped \in Nat
  BY SkippedNumber
<1>4. \A s \in Streams : Before(s) \in Int /\ SkippedOf(s) \in Int
  <2> SUFFICES ASSUME NEW s \in Streams PROVE Before(s) \in Int /\ SkippedOf(s) \in Int
    OBVIOUS
  <2>1. deferred \in Seq(Payloads) /\ dropped[s] \in Nat
    BY HonestIsPayload DEF BufferInv
  <2>2. Said(s, deferred) \in Nat
    BY <2>1, SaidNumber
  <2>3. Before(s) \in Int
    BY <2>1, <2>2 DEF Before
  <2>4. SkippedOf(s) \in Int
    BY <1>3 DEF SkippedOf
  <2> QED
    BY <2>3, <2>4
<1>5. c \in [Streams -> Int] /\ d \in [Streams -> Int]
  BY <1>4
<1>6. e = d
  <2>1. ASSUME NEW s \in Streams PROVE e[s] = d[s]
    <3>1. s = "imu" => e[s] = Before(s) + IF imu_hz = 0 THEN 0 ELSE Skipped
      OBVIOUS
    <3>2. s # "imu" => e[s] = Before(s)
      OBVIOUS
    <3>3. d[s] = Before(s) + SkippedOf(s)
      OBVIOUS
    <3> HIDE DEF e, d
    <3>4. SkippedOf(s) = IF s = "imu" /\ imu_hz # 0 THEN Skipped ELSE 0
      BY DEF SkippedOf
    <3> QED
      BY <1>4, <3>1, <3>2, <3>3, <3>4
  <2>2. e = [s \in Streams |-> e[s]] /\ d = [s \in Streams |-> d[s]]
    OBVIOUS
  <2> HIDE DEF e, d
  <2> QED
    BY <2>1, <2>2
<1> HIDE DEF c, d
<1>7. Sound(x, polled) /\ x.can = can /\ Balance(x.dropped, x.out, d)
  <2>1. /\ Sound(x, polled) /\ x.can = Buffers.can /\ Balance(x.dropped, x.out, e)
    BY <1>1, <1>2, <1>3, <1>5, ImuSound
  <2> HIDE DEF e, x
  <2> QED
    BY <1>1, <1>6, <2>1
<1>8. Timed(can, next_flush) /\ (next_flush <= polled + FlushEvery \/ next_flush = 0)
  BY DEF TimerInv
<1> HIDE DEF x
<1>9. Sound(y, now) /\ Timed(y.can, next_flush) /\ Balance(y.dropped, y.out, d)
  <2>1. polled <= now
    BY <1>2
  <2> QED
    BY <1>2, <1>5, <1>7, <1>8, <2>1, AcceptedSound
<1>10. Polled(frames) = y
  BY Zenon DEF Polled, Buffers, x
<1> HIDE DEF y
<1> QED
  BY <1>9, <1>10 DEF d

\* What is to be reported of s and was not lost, after a poll and before it.
Due(s) == dropped'[s] + held'[s].dropped - unpaid'[s]
Was(s) == Unreported(s) - unpaid[s]

\* The effect of a poll, by stream: what the buffers hold, and what was not yet reported.
LEMMA PollLeaves ==
    ASSUME TypeInv, BufferInv, TimerInv, Poll
    PROVE  /\ CanBatch(can', now) /\ ImuBatch(imu', next_imu') /\ next_imu' \in Nat
           /\ dropped' \in [Streams -> Nat] /\ unpaid' \in [Streams -> Int]
           /\ held' \in OwnHeld /\ deferred' = <<>>
           /\ Timed(can', next_flush) /\ (TimerDue => can'.times = <<>>)
           /\ \A s \in Streams : Due(s) <= Was(s) /\ (~clamped' => Due(s) = Was(s))
<1>1. PICK frames \in IF subs THEN Arrivals ELSE {<<>>} :
         LET w == Polled(frames)
             f == IF TimerDue THEN Flush(w, "can") ELSE w
             h == OfferedAll(
                      [held |-> held, dropped |-> f.dropped,
                       unpaid |-> [unpaid EXCEPT !.imu = @ + IF imu_hz = 0 THEN 0 ELSE Skipped]],
                      f.out)
         IN  /\ can' = f.can /\ imu' = f.imu /\ next_imu' = f.next
             /\ held' = h.held /\ dropped' = h.dropped /\ unpaid' = h.unpaid
             /\ clamped' = (clamped \/ \E n \in DOMAIN f.out : f.out[n].dropped = DropMax)
  BY Zenon DEF Poll
<1>2. polled < now /\ deferred' = <<>>
  BY DEF Poll
<1>3. frames \in Arrivals \cup {<<>>}
  BY <1>1
<1> DEFINE d == [s \in Streams |-> Before(s) + SkippedOf(s)]
           w == Polled(frames)
           f == IF TimerDue THEN Flush(w, "can") ELSE w
           u == [unpaid EXCEPT !.imu = @ + IF imu_hz = 0 THEN 0 ELSE Skipped]
           b == [held |-> held, dropped |-> f.dropped, unpaid |-> u]
           h == OfferedAll(b, f.out)
<1>4. Sound(w, now) /\ Timed(w.can, next_flush) /\ Balance(w.dropped, w.out, d)
  BY <1>2, <1>3, ArrivalsAscend, PolledSound
<1>5. \A s \in Streams : Before(s) \in Nat /\ SkippedOf(s) \in Nat
  <2> SUFFICES ASSUME NEW s \in Streams PROVE Before(s) \in Nat /\ SkippedOf(s) \in Nat
    OBVIOUS
  <2>1. deferred \in Seq(Payloads) /\ dropped[s] \in Nat
    BY HonestIsPayload DEF BufferInv
  <2>2. Said(s, deferred) \in Nat
    BY <2>1, SaidNumber
  <2>3. Before(s) \in Nat
    BY <2>1, <2>2 DEF Before
  <2>4. SkippedOf(s) \in Nat
    BY SkippedNumber DEF SkippedOf
  <2> QED
    BY <2>3, <2>4
<1>6. d \in [Streams -> Int] /\ "can" \in Streams /\ imu_hz \in DOMAIN Period \cup {0}
  BY <1>5 DEF Streams, TypeInv
<1> HIDE DEF w, d
<1>7. /\ Sound(f, now) /\ Timed(f.can, next_flush) /\ Balance(f.dropped, f.out, d)
      /\ TimerDue => f.can.times = <<>>
  <2>1. CASE TimerDue
    <3> DEFINE g == Flush(w, "can")
    <3>1. Sound(g, now) /\ g["can"].times = <<>>
      BY <1>4, <1>6, FlushSound
    <3>2. Balance(g.dropped, g.out, d)
      BY <1>4, <1>6, FlushBalances
    <3>3. g.can.times = <<>> /\ Len(<<>>) = 0
      BY <3>1
    <3>4. Timed(g.can, next_flush)
      BY <3>3 DEF Timed
    <3>5. f = g
      BY <2>1
    <3> HIDE DEF g, f
    <3> QED
      BY <3>1, <3>2, <3>3, <3>4, <3>5
  <2>2. CASE ~TimerDue
    <3>1. f = w
      BY <2>2
    <3> QED
      BY <1>4, <2>2, <3>1
  <2> QED
    BY <2>1, <2>2
<1> HIDE DEF f
<1>8. f \in Works /\ f.dropped \in [Streams -> Nat] /\ f.out \in Seq(HonestPayloads)
      /\ f.next \in Nat /\ CanBatch(f.can, now) /\ ImuBatch(f.imu, f.next)
  BY <1>7 DEF Sound, Works
<1>9. held \in OwnHeld /\ unpaid \in [Streams -> Int] /\ dropped \in [Streams -> Nat]
  BY DEF BufferInv
<1>10. /\ u \in [Streams -> Int]
       /\ \A s \in Streams : u[s] = unpaid[s] + SkippedOf(s)
  <2>1. imu_hz # 0 => Skipped \in Nat
    BY SkippedNumber
  <2>2. ASSUME NEW s \in Streams PROVE u[s] = unpaid[s] + SkippedOf(s) /\ u[s] \in Int
    <3>1. s = "imu" => u[s] = unpaid[s] + IF imu_hz = 0 THEN 0 ELSE Skipped
      BY <1>9
    <3>2. s # "imu" => u[s] = unpaid[s]
      BY <1>9
    <3>3. SkippedOf(s) = IF s = "imu" /\ imu_hz # 0 THEN Skipped ELSE 0
      BY DEF SkippedOf
    <3>4. unpaid[s] \in Int
      BY <1>9
    <3> HIDE DEF u
    <3>5. CASE s = "imu"
      BY <2>1, <3>1, <3>3, <3>4, <3>5
    <3>6. CASE s # "imu"
      BY <3>2, <3>3, <3>4, <3>6
    <3> QED
      BY <3>5, <3>6
  <2>3. u = [s \in Streams |-> u[s]]
    BY <1>9
  <2> HIDE DEF u
  <2> QED
    BY <2>2, <2>3
<1> HIDE DEF u
<1>11. b \in Hands /\ b.held = held /\ b.dropped = f.dropped /\ b.unpaid = u
  BY <1>8, <1>9, <1>10 DEF Hands
<1> HIDE DEF b
<1>12. ASSUME NEW s \in Streams
       PROVE  h \in Hands /\ Owed(h, s) = Owed(b, s) + Said(s, f.out)
  BY <1>8, <1>11, OfferedAllSound
<1> HIDE DEF h
<1>13. h.held \in OwnHeld /\ h.dropped \in [Streams -> Nat] /\ h.unpaid \in [Streams -> Int]
  BY <1>6, <1>12 DEF Hands
<1>14. /\ can' = f.can /\ imu' = f.imu /\ next_imu' = f.next
       /\ held' = h.held /\ dropped' = h.dropped /\ unpaid' = h.unpaid
  BY <1>1, Zenon DEF w, f, u, b, h
<1>15. ~clamped' => ~Full(f.out)
  BY <1>1, Zenon DEF w, f, Full
<1>16. ASSUME NEW s \in Streams
       PROVE  Due(s) <= Was(s) /\ (~clamped' => Due(s) = Was(s))
  <2> DEFINE due == Due(s)
             was == Was(s)
  <2>1. due = Owed(h, s)
    BY <1>14 DEF Owed, Due
  <2>2. Owed(b, s) = f.dropped[s] + held[s].dropped - (unpaid[s] + SkippedOf(s))
    BY <1>10, <1>11 DEF Owed
  <2>3. /\ held[s].dropped \in Nat /\ unpaid[s] \in Int /\ SkippedOf(s) \in Nat
        /\ f.dropped[s] \in Nat /\ Before(s) \in Nat /\ Said(s, f.out) \in Nat
    BY <1>5, <1>8, <1>9, HeldNumber, HonestIsPayload, SaidNumber
  <2>4. /\ f.dropped[s] + Said(s, f.out) <= d[s]
        /\ ~Full(f.out) => f.dropped[s] + Said(s, f.out) = d[s]
    BY <1>7 DEF Balance
  <2>5. d[s] = Before(s) + SkippedOf(s)
    BY DEF d
  <2>6. /\ Unreported(s) = dropped[s] + held[s].dropped + Said(s, deferred)
        /\ Before(s) = dropped[s] + Said(s, deferred)
        /\ dropped[s] \in Nat
    BY <1>9 DEF Unreported, Before
  <2>7. Said(s, deferred) \in Nat
    BY HonestIsPayload, SaidNumber DEF BufferInv
  <2>8. due = f.dropped[s] + Said(s, f.out) + held[s].dropped - unpaid[s] - SkippedOf(s)
    BY <1>12, <2>1, <2>2, <2>3
  <2>9. was = Before(s) + held[s].dropped - unpaid[s]
    BY <2>3, <2>6, <2>7 DEF Was
  <2> HIDE DEF due, was
  <2>10. due <= was
    BY <2>3, <2>4, <2>5, <2>8, <2>9
  <2>11. ~Full(f.out) => due = was
    BY <2>3, <2>4, <2>5, <2>8, <2>9
  <2>12. ~clamped' => due = was
    BY <1>15, <2>11, Zenon
  <2> QED
    BY <2>10, <2>12, Zenon DEF due, was
<1> QED
  BY <1>2, <1>7, <1>8, <1>13, <1>14, <1>16, Zenon

-----------------------------------------------------------------------------
(* Every step *)

LEMMA InitInv == Init => Inv /\ BoolInv
<1> SUFFICES ASSUME Init PROVE Inv /\ BoolInv
  OBVIOUS
<1>1. TypeInv
  BY StreamBounds DEF Init, TypeInv, None
<1>2. BufferInv
  <2>1. CanBatch(can, polled) /\ ImuBatch(imu, next_imu)
    BY EmptyBatch DEF Init
  <2>2. dropped \in [Streams -> Nat] /\ unpaid \in [Streams -> Int]
    BY DEF Init
  <2>3. deferred \in Seq(HonestPayloads)
    BY DEF Init
  <2>4. held \in OwnHeld
    BY DEF Init, OwnHeld
  <2> QED
    BY <2>1, <2>2, <2>3, <2>4 DEF BufferInv
<1>3. TimerInv
  <2>1. can.times = <<>> /\ Len(<<>>) = 0
    BY DEF Init, Empty
  <2>2. Timed(can, next_flush)
    BY <2>1 DEF Timed
  <2> QED
    BY <2>2 DEF Init, TimerInv
<1>4. LossExact
  <2>1. ~up
    BY Zenon DEF Init
  <2> QED
    BY <2>1, Zenon DEF LossExact
<1>5. BoolInv
  BY Zenon DEF Init, BoolInv
<1> QED
  BY <1>1, <1>2, <1>3, <1>4, <1>5 DEF Inv

\* A step that leaves the buffers and the transport alone.
LEMMA NothingMoves ==
    ASSUME Inv, UNCHANGED <<polled, imu_hz, buffers, held, unpaid, clamped>>,
           up' => up
    PROVE  BufferInv' /\ TimerInv' /\ LossExact'
<1>1. /\ polled' = polled /\ imu_hz' = imu_hz /\ can' = can /\ imu' = imu
      /\ next_imu' = next_imu /\ next_flush' = next_flush /\ deferred' = deferred
      /\ dropped' = dropped /\ held' = held /\ unpaid' = unpaid /\ clamped' = clamped
  BY DEF buffers
<1>2. BufferInv'
  BY <1>1, Zenon DEF Inv, BufferInv, CanBatch, ImuBatch
<1>3. TimerInv'
  BY <1>1, Zenon DEF Inv, TimerInv, Timed
<1>4. LossExact'
  <2> SUFFICES ASSUME up', NEW s \in Streams PROVE LossAt(s)'
    BY Zenon DEF LossExact, LossAt
  <2>1. Unreported(s) <= unpaid[s] /\ (~clamped => Unreported(s) = unpaid[s])
    BY Zenon DEF Inv, LossExact
  <2>2. Unreported(s)' = Unreported(s) /\ unpaid'[s] = unpaid[s]
    BY <1>1 DEF Unreported
  <2>3. Unreported(s)' <= unpaid'[s]
    BY <2>1, <2>2
  <2>4. ASSUME ~clamped' PROVE Unreported(s)' = unpaid'[s]
    <3>1. ~clamped
      <4>1. clamped' = clamped
        BY <1>1
      <4> QED
        BY <2>4, <4>1
    <3> QED
      BY <2>1, <2>2, <3>1, Zenon
  <2> QED
    BY <2>3, <2>4, Zenon DEF LossAt
<1> QED
  BY <1>2, <1>3, <1>4

LEMMA PollKeeps ==
    ASSUME Inv, Poll
    PROVE  TypeInv' /\ BufferInv' /\ TimerInv' /\ LossExact'
<1>0. TypeInv /\ BufferInv /\ TimerInv /\ LossExact
  BY DEF Inv
<1>1. /\ CanBatch(can', now) /\ ImuBatch(imu', next_imu') /\ next_imu' \in Nat
      /\ dropped' \in [Streams -> Nat] /\ unpaid' \in [Streams -> Int]
      /\ held' \in OwnHeld /\ deferred' = <<>>
      /\ Timed(can', next_flush) /\ (TimerDue => can'.times = <<>>)
      /\ \A s \in Streams :
            /\ Due(s) <= Was(s)
            /\ ~clamped' => Due(s) = Was(s)
  BY <1>0, PollLeaves, Zenon
<1>2. /\ polled' = now /\ next_flush' = NextFlush /\ clamped' = (clamped \/ clamped')
      /\ UNCHANGED <<caps, now, up, capacity, imu_hz, requests, losses>>
  BY Zenon DEF Poll, counters
<1>3. /\ now \in Nat /\ next_flush \in Nat /\ polled \in Int /\ polled < now
      /\ FlushEvery \in Nat
  BY <1>0, StreamBounds DEF TypeInv, Poll, None
<1>4. next_flush' \in Nat
  BY <1>2, <1>3 DEF NextFlush
<1>5. now \in None..now
  BY <1>3 DEF None
<1>6. TypeInv'
  BY <1>0, <1>1, <1>2, <1>4, <1>5 DEF TypeInv
<1>7. ImuBatch(imu, next_imu)'
  BY <1>1, <1>2, Zenon DEF ImuBatch
<1>8. BufferInv'
  <2>1. CanBatch(can, polled)'
    BY <1>1, <1>2, Zenon DEF CanBatch
  <2>2. deferred' \in Seq(HonestPayloads)
    BY <1>1
  <2> QED
    BY <1>1, <1>7, <2>1, <2>2, Zenon DEF BufferInv
<1>9. TimerInv'
  <2>1. CASE TimerDue
    <3>1. next_flush' = now + FlushEvery
      BY <1>2, <2>1 DEF NextFlush
    <3>2. Len(can'.times) = 0
      BY <1>1, <2>1
    <3>3. Timed(can, next_flush)'
      BY <3>2 DEF Timed
    <3>4. next_flush' <= polled' + FlushEvery
      BY <1>2, <1>3, <3>1
    <3> QED
      BY <3>3, <3>4 DEF TimerInv
  <2>2. CASE ~TimerDue
    <3>1. next_flush' = next_flush
      BY <1>2, <2>2 DEF NextFlush
    <3>2. next_flush <= polled + FlushEvery \/ next_flush = 0
      BY <1>0 DEF TimerInv
    <3>3. next_flush' <= polled' + FlushEvery \/ next_flush' = 0
      BY <1>2, <1>3, <3>1, <3>2
    <3>4. Timed(can, next_flush)'
      BY <1>1, <3>1 DEF Timed
    <3> QED
      BY <3>3, <3>4 DEF TimerInv
  <2> QED
    BY <2>1, <2>2
<1>10. LossExact'
  <2> SUFFICES ASSUME up', NEW s \in Streams
               PROVE  LossAt(s)'
    BY Zenon DEF LossExact, LossAt
  <2>1. up
    BY <1>2, Zenon
  <2>2. Unreported(s) <= unpaid[s] /\ (~clamped => Unreported(s) = unpaid[s])
    BY <1>0, <2>1, Zenon DEF LossExact
  <2>3. ~clamped' => ~clamped
    BY <1>2, Zenon
  <2>4. Due(s) <= Was(s) /\ (~clamped' => Due(s) = Was(s))
    BY <1>1, Zenon
  <2>5. Unreported(s) \in Int /\ unpaid[s] \in Int
    <3>1. /\ dropped[s] \in Nat /\ held[s].dropped \in Nat /\ unpaid[s] \in Int
          /\ Said(s, deferred) \in Nat
      BY <1>0, HeldNumber, HonestIsPayload, SaidNumber DEF BufferInv
    <3> QED
      BY <3>1 DEF Unreported
  <2>6. dropped'[s] \in Nat /\ held'[s].dropped \in Nat /\ unpaid'[s] \in Int
    BY <1>1, HeldNumber
  <2>7. Unreported(s)' = dropped'[s] + held'[s].dropped
    <3>1. Said(s, deferred') = 0
      BY <1>1, SaidNone
    <3>2. Unreported(s)' = dropped'[s] + held'[s].dropped + Said(s, deferred')
      BY DEF Unreported
    <3> QED
      BY <2>6, <3>1, <3>2
  <2>8. Due(s) = Unreported(s)' - unpaid'[s]
    BY <2>6, <2>7 DEF Due
  <2>9. Was(s) = Unreported(s) - unpaid[s]
    BY DEF Was
  <2>10. Unreported(s)' \in Int
    BY <2>6, <2>7
  <2>11. Unreported(s)' <= unpaid'[s]
    BY <2>2, <2>4, <2>5, <2>6, <2>8, <2>9, <2>10
  <2>12. ASSUME ~clamped' PROVE Unreported(s)' = unpaid'[s]
    <3>1. Unreported(s) = unpaid[s] /\ Due(s) = Was(s)
      BY <2>2, <2>3, <2>4, <2>12, Zenon
    <3> QED
      BY <2>5, <2>6, <2>8, <2>9, <2>10, <3>1
  <2> QED
    BY <2>11, <2>12, Zenon DEF LossAt
<1> QED
  BY <1>6, <1>8, <1>9, <1>10

\* The sums of LossExact are of numbers.
LEMMA LossNumbers ==
    ASSUME BufferInv, NEW s \in Streams
    PROVE  /\ dropped[s] \in Nat /\ held[s].dropped \in Nat /\ unpaid[s] \in Int
           /\ Said(s, deferred) \in Nat /\ DropMax \in Nat
  BY HeldNumber, HonestIsPayload, SaidNumber, StreamBounds DEF BufferInv

LEMMA TakeKeeps ==
    ASSUME Inv, NEW z \in Streams, Take(z)
    PROVE  BufferInv' /\ TimerInv' /\ LossExact'
<1>0. BufferInv /\ TimerInv /\ LossExact
  BY DEF Inv
<1>1. /\ held' = [held EXCEPT ![z] = Nothing]
      /\ unpaid' = [unpaid EXCEPT ![z] = @ - held[z].dropped]
      /\ polled' = polled /\ imu_hz' = imu_hz /\ can' = can /\ imu' = imu
      /\ next_imu' = next_imu /\ next_flush' = next_flush /\ deferred' = deferred
      /\ dropped' = dropped /\ clamped' = clamped
  BY DEF Take, buffers
<1>2. up /\ up' = up
  BY Zenon DEF Take
<1>3. held \in OwnHeld /\ unpaid \in [Streams -> Int] /\ held[z].dropped \in Nat
  BY <1>0, LossNumbers DEF BufferInv
<1>4. held' \in OwnHeld
  BY <1>1, <1>3 DEF OwnHeld
<1>5. unpaid' \in [Streams -> Int]
  BY <1>1, <1>3
<1>6. BufferInv'
  BY <1>0, <1>1, <1>4, <1>5, Zenon DEF BufferInv, CanBatch, ImuBatch
<1>7. TimerInv'
  BY <1>0, <1>1, Zenon DEF TimerInv, Timed
<1>8. ASSUME NEW s \in Streams PROVE LossAt(s)'
  <2>1. Unreported(s) <= unpaid[s] /\ (~clamped => Unreported(s) = unpaid[s])
    BY <1>0, <1>2, Zenon DEF LossExact
  <2>2. /\ dropped[s] \in Nat /\ held[s].dropped \in Nat /\ unpaid[s] \in Int
        /\ Said(s, deferred) \in Nat
    BY <1>0, LossNumbers
  <2>3. Unreported(s)' = dropped[s] + held'[s].dropped + Said(s, deferred)
    BY <1>1 DEF Unreported
  <2>4. Unreported(s) = dropped[s] + held[s].dropped + Said(s, deferred)
    BY DEF Unreported
  <2>5. s = z => held'[s].dropped = 0 /\ unpaid'[s] = unpaid[s] - held[s].dropped
    BY <1>1, <1>3 DEF OwnHeld, Nothing
  <2>6. s # z => held'[s].dropped = held[s].dropped /\ unpaid'[s] = unpaid[s]
    BY <1>1, <1>3 DEF OwnHeld
  <2>7. /\ Unreported(s)' <= unpaid'[s]
        /\ Unreported(s) = unpaid[s] => Unreported(s)' = unpaid'[s]
    BY <2>1, <2>2, <2>3, <2>4, <2>5, <2>6
  <2> QED
    BY <1>1, <2>1, <2>7, Zenon DEF LossAt
<1>9. LossExact'
  BY <1>8, Zenon DEF LossExact, LossAt
<1> QED
  BY <1>6, <1>7, <1>9

LEMMA SimulateLossKeeps ==
    ASSUME Inv, NEW z \in Streams, SimulateLoss(z)
    PROVE  BufferInv' /\ TimerInv' /\ LossExact'
<1>0. BufferInv /\ TimerInv /\ LossExact
  BY DEF Inv
<1>1. /\ dropped' = [dropped EXCEPT ![z] = @ + 1]
      /\ unpaid' = [unpaid EXCEPT ![z] = @ + 1]
      /\ polled' = polled /\ imu_hz' = imu_hz /\ can' = can /\ imu' = imu
      /\ next_imu' = next_imu /\ next_flush' = next_flush /\ deferred' = deferred
      /\ held' = held /\ clamped' = clamped
  BY DEF SimulateLoss
<1>2. up
  BY Zenon DEF SimulateLoss
<1>3. dropped \in [Streams -> Nat] /\ unpaid \in [Streams -> Int]
  BY <1>0 DEF BufferInv
<1>4. dropped' \in [Streams -> Nat] /\ unpaid' \in [Streams -> Int]
  BY <1>1, <1>3
<1>6. BufferInv'
  BY <1>0, <1>1, <1>4, Zenon DEF BufferInv, CanBatch, ImuBatch
<1>7. TimerInv'
  BY <1>0, <1>1, Zenon DEF TimerInv, Timed
<1>8. ASSUME NEW s \in Streams PROVE LossAt(s)'
  <2>1. Unreported(s) <= unpaid[s] /\ (~clamped => Unreported(s) = unpaid[s])
    BY <1>0, <1>2, Zenon DEF LossExact
  <2>2. /\ dropped[s] \in Nat /\ held[s].dropped \in Nat /\ unpaid[s] \in Int
        /\ Said(s, deferred) \in Nat
    BY <1>0, LossNumbers
  <2>3. Unreported(s)' = dropped'[s] + held[s].dropped + Said(s, deferred)
    BY <1>1 DEF Unreported
  <2>4. Unreported(s) = dropped[s] + held[s].dropped + Said(s, deferred)
    BY DEF Unreported
  <2>5. s = z => dropped'[s] = dropped[s] + 1 /\ unpaid'[s] = unpaid[s] + 1
    BY <1>1, <1>3
  <2>6. s # z => dropped'[s] = dropped[s] /\ unpaid'[s] = unpaid[s]
    BY <1>1, <1>3
  <2>7. /\ Unreported(s)' <= unpaid'[s]
        /\ Unreported(s) = unpaid[s] => Unreported(s)' = unpaid'[s]
    BY <2>1, <2>2, <2>3, <2>4, <2>5, <2>6
  <2> QED
    BY <1>1, <2>1, <2>7, Zenon DEF LossAt
<1>9. LossExact'
  BY <1>8, Zenon DEF LossExact, LossAt
<1> QED
  BY <1>6, <1>7, <1>9

LEMMA CanResetKeeps ==
    ASSUME Inv, CanReset
    PROVE  BufferInv' /\ TimerInv' /\ LossExact'
<1>0. BufferInv /\ TimerInv /\ LossExact
  BY DEF Inv
<1>1. /\ can' = Empty /\ dropped' = ResetDropped
      /\ unpaid' = [unpaid EXCEPT !["can"] = @ + Len(can.times)]
      /\ polled' = polled /\ imu_hz' = imu_hz /\ imu' = imu
      /\ next_imu' = next_imu /\ next_flush' = next_flush /\ deferred' = deferred
      /\ held' = held
  BY DEF CanReset
<1>2. up
  BY Zenon DEF CanReset, Request
<1>3. ~clamped' => ~clamped /\ ResetDropped["can"] # DropMax
  BY Zenon DEF CanReset
<1>4. dropped \in [Streams -> Nat] /\ unpaid \in [Streams -> Int] /\ can.times \in Seq(0..MaxTime)
  BY <1>0 DEF BufferInv, CanBatch, Batches
<1> DEFINE n == Len(can.times)
<1>5. n \in Nat /\ "can" \in Streams /\ DropMax \in Nat
  BY <1>4, StreamBounds DEF Streams
<1>6. ResetDropped = [dropped EXCEPT !["can"] = Smaller(DropMax, @ + n)]
  BY DEF ResetDropped
<1> HIDE DEF n
<1>7. /\ dropped' = [dropped EXCEPT !["can"] = Smaller(DropMax, @ + n)]
      /\ unpaid' = [unpaid EXCEPT !["can"] = @ + n]
  BY <1>1, <1>6 DEF n
<1>8. Smaller(DropMax, dropped["can"] + n) \in Nat
  BY <1>4, <1>5 DEF Smaller
<1>9. dropped' \in [Streams -> Nat]
  BY <1>4, <1>7, <1>8
<1>10. unpaid' \in [Streams -> Int]
  BY <1>4, <1>5, <1>7
<1>11. BufferInv'
  <2>1. CanBatch(can', polled')
    BY <1>1, EmptyBatch
  <2>2. ImuBatch(imu, next_imu)'
    BY <1>0, <1>1, Zenon DEF BufferInv, ImuBatch
  <2>3. deferred' \in Seq(HonestPayloads) /\ held' \in OwnHeld
    BY <1>0, <1>1 DEF BufferInv
  <2> QED
    BY <1>9, <1>10, <2>1, <2>2, <2>3, Zenon DEF BufferInv
<1>12. TimerInv'
  <2>1. Len(can'.times) = 0
    BY <1>1 DEF Empty
  <2>2. Timed(can, next_flush)'
    BY <2>1 DEF Timed
  <2> QED
    BY <1>0, <1>1, <2>2 DEF TimerInv
<1>13. ASSUME NEW s \in Streams PROVE LossAt(s)'
  <2>1. Unreported(s) <= unpaid[s] /\ (~clamped => Unreported(s) = unpaid[s])
    BY <1>0, <1>2, Zenon DEF LossExact
  <2>2. /\ dropped[s] \in Nat /\ held[s].dropped \in Nat /\ unpaid[s] \in Int
        /\ Said(s, deferred) \in Nat
    BY <1>0, LossNumbers
  <2>3. Unreported(s)' = dropped'[s] + held[s].dropped + Said(s, deferred)
    BY <1>1 DEF Unreported
  <2>4. Unreported(s) = dropped[s] + held[s].dropped + Said(s, deferred)
    BY DEF Unreported
  <2>5. CASE s = "can"
    <3> DEFINE k == dropped[s] + n
    <3>1. dropped'[s] = Smaller(DropMax, k) /\ unpaid'[s] = unpaid[s] + n
      BY <1>4, <1>7, <2>5
    <3>2. ~clamped' => Smaller(DropMax, k) # DropMax
      BY <1>1, <1>3, <2>5, <3>1, Zenon
    <3>3. k \in Nat /\ k = dropped[s] + n
      BY <1>5, <2>2
    <3> HIDE DEF k
    <3>4. Smaller(DropMax, k) <= k /\ (Smaller(DropMax, k) # DropMax => Smaller(DropMax, k) = k)
          /\ Smaller(DropMax, k) \in Nat
      BY <1>5, <3>3 DEF Smaller
    <3>5. Unreported(s)' <= unpaid'[s]
      BY <1>5, <2>1, <2>2, <2>3, <2>4, <3>1, <3>3, <3>4
    <3>6. Unreported(s) = unpaid[s] /\ Smaller(DropMax, k) = k => Unreported(s)' = unpaid'[s]
      BY <1>5, <2>2, <2>3, <2>4, <3>1, <3>3, <3>4
    <3> QED
      BY <1>3, <2>1, <3>2, <3>4, <3>5, <3>6, Zenon DEF LossAt
  <2>6. CASE s # "can"
    <3>1. dropped'[s] = dropped[s] /\ unpaid'[s] = unpaid[s]
      BY <1>4, <1>7, <2>6
    <3>2. Unreported(s)' = Unreported(s)
      BY <2>3, <2>4, <3>1
    <3> QED
      BY <1>3, <2>1, <3>1, <3>2, Zenon DEF LossAt
  <2> QED
    BY <2>5, <2>6
<1>14. LossExact'
  BY <1>13, Zenon DEF LossExact, LossAt
<1> QED
  BY <1>11, <1>12, <1>14

\* A batch that a request defers is reported like any other.
LEMMA DeferringSound ==
    ASSUME TypeInv, BufferInv, LossExact, up, NEW z \in Streams, NEW w0, Deferring(w0, z),
           held' = held, unpaid' = unpaid,
           NEW last, Sound(w0, last), w0.imu = imu, w0.next = next_imu,
           Balance(w0.dropped, w0.out, [s \in Streams |-> Before(s)])
    PROVE  /\ dropped' \in [Streams -> Nat] /\ deferred' \in Seq(HonestPayloads)
           /\ CanBatch(can', last) /\ ImuBatch(imu', next_imu)
           /\ z = "can" => can'.times = <<>> /\ imu' = imu
           /\ z = "imu" => imu'.times = <<>> /\ can' = w0.can
           /\ \A s \in Streams : LossAt(s)'
<1> DEFINE w == Flush(w0, z)
           c == [s \in Streams |-> Before(s)]
<1>1. /\ deferred' = w.out /\ dropped' = w.dropped /\ can' = w.can /\ imu' = w.imu
      /\ clamped' = (clamped \/ \E n \in DOMAIN w.out : w.out[n].dropped = DropMax)
  BY Zenon DEF Deferring
<1>2. Sound(w0, last) /\ Balance(w0.dropped, w0.out, c)
  OBVIOUS
<1>3. \A s \in Streams : Before(s) \in Nat /\ Said(s, deferred) \in Nat /\ dropped[s] \in Nat
  <2> SUFFICES ASSUME NEW s \in Streams
               PROVE Before(s) \in Nat /\ Said(s, deferred) \in Nat /\ dropped[s] \in Nat
    OBVIOUS
  <2>1. deferred \in Seq(Payloads) /\ dropped[s] \in Nat
    BY HonestIsPayload DEF BufferInv
  <2>2. Said(s, deferred) \in Nat
    BY <2>1, SaidNumber
  <2> QED
    BY <2>1, <2>2 DEF Before
<1>4. c \in [Streams -> Int] /\ imu_hz \in DOMAIN Period \cup {0}
  BY <1>3 DEF TypeInv
<1> HIDE DEF c
<1>5. /\ Sound(w, last) /\ w[z].times = <<>> /\ w.next = next_imu
      /\ z = "can" => w.imu = imu
      /\ z = "imu" => w.can = w0.can
  BY <1>2, <1>4, FlushSound, Zenon
<1>6. Balance(w.dropped, w.out, c)
  BY <1>2, <1>4, FlushBalances
<1>7. ~clamped' => ~clamped /\ ~Full(w.out)
  BY <1>1, Zenon DEF Full
<1> HIDE DEF w
<1>8. /\ w \in Works /\ w.dropped \in [Streams -> Nat] /\ w.out \in Seq(HonestPayloads)
      /\ CanBatch(w.can, last) /\ ImuBatch(w.imu, next_imu)
  BY <1>5 DEF Sound, Works
<1>9. ASSUME NEW s \in Streams PROVE LossAt(s)'
  <2>1. Unreported(s) <= unpaid[s] /\ (~clamped => Unreported(s) = unpaid[s])
    BY Zenon DEF LossExact
  <2>2. /\ w.dropped[s] + Said(s, w.out) <= c[s]
        /\ ~Full(w.out) => w.dropped[s] + Said(s, w.out) = c[s]
    BY <1>6 DEF Balance
  <2>3. c[s] = dropped[s] + Said(s, deferred)
    BY DEF c, Before
  <2>4. /\ w.dropped[s] \in Nat /\ Said(s, w.out) \in Nat /\ dropped[s] \in Nat
        /\ Said(s, deferred) \in Nat /\ held[s].dropped \in Nat /\ unpaid[s] \in Int
    BY <1>3, <1>8, LossNumbers, HonestIsPayload, SaidNumber
  <2>5. Unreported(s)' = w.dropped[s] + held[s].dropped + Said(s, w.out)
    BY <1>1 DEF Unreported
  <2>6. Unreported(s) = dropped[s] + held[s].dropped + Said(s, deferred)
    BY DEF Unreported
  <2>7. Unreported(s)' <= unpaid'[s]
    BY <2>1, <2>2, <2>3, <2>4, <2>5, <2>6
  <2>8. Unreported(s) = unpaid[s] /\ ~Full(w.out) => Unreported(s)' = unpaid'[s]
    BY <2>2, <2>3, <2>4, <2>5, <2>6
  <2> QED
    BY <1>7, <2>1, <2>7, <2>8, Zenon DEF LossAt
<1>10. z = "can" => can'.times = <<>> /\ imu' = imu
  BY <1>1, <1>5
<1>11. z = "imu" => imu'.times = <<>> /\ can' = w0.can
  BY <1>1, <1>5
<1>12. /\ dropped' \in [Streams -> Nat] /\ deferred' \in Seq(HonestPayloads)
       /\ CanBatch(can', last) /\ ImuBatch(imu', next_imu)
  BY <1>1, <1>8
<1> QED
  BY <1>9, <1>10, <1>11, <1>12

LEMMA StopPollingKeeps ==
    ASSUME Inv, StopPolling
    PROVE  BufferInv' /\ TimerInv' /\ LossExact'
<1>0. TypeInv /\ BufferInv /\ TimerInv /\ LossExact
  BY DEF Inv
<1>1. /\ polled' = polled /\ imu_hz' = imu_hz /\ next_imu' = next_imu
      /\ next_flush' = next_flush /\ held' = held /\ unpaid' = unpaid
  BY DEF StopPolling
<1>2. /\ up /\ "can" \in Streams
      /\ \E frames \in IF subs THEN Arrivals ELSE {<<>>} :
            Deferring(Accepted(Buffers, frames), "can")
  BY Zenon DEF StopPolling, Request, Streams
<1> DEFINE c == [s \in Streams |-> Before(s)]
<1>3. PICK frames \in Arrivals \cup {<<>>} : Deferring(Accepted(Buffers, frames), "can")
  BY <1>2
<1> DEFINE w == Accepted(Buffers, frames)
<1>4. /\ Sound(Buffers, polled) /\ Balance(Buffers.dropped, Buffers.out, c)
      /\ Buffers.can = can /\ Buffers.imu = imu /\ Buffers.next = next_imu
  BY <1>0, BuffersSound
<1>5. /\ now \in Nat /\ polled \in Int /\ polled <= now /\ next_flush \in Nat
      /\ imu_hz \in DOMAIN Period \cup {0} /\ Ascending(frames, polled)
  BY <1>0, ArrivalsAscend, StreamBounds DEF TypeInv, None
<1>6. c \in [Streams -> Int]
  <2> SUFFICES ASSUME NEW s \in Streams PROVE Before(s) \in Int
    OBVIOUS
  <2>1. deferred \in Seq(Payloads) /\ dropped[s] \in Nat
    BY <1>0, HonestIsPayload DEF BufferInv
  <2>2. Said(s, deferred) \in Nat
    BY <2>1, SaidNumber
  <2> QED
    BY <2>1, <2>2 DEF Before
<1>7. Timed(can, next_flush) /\ (next_flush <= polled + FlushEvery \/ next_flush = 0)
  BY <1>0 DEF TimerInv
<1> HIDE DEF c, w
<1>8. /\ Sound(w, now) /\ Balance(w.dropped, w.out, c)
      /\ w.imu = imu /\ w.next = next_imu
  BY <1>4, <1>5, <1>6, <1>7, AcceptedSound DEF w
<1>9. /\ dropped' \in [Streams -> Nat] /\ deferred' \in Seq(HonestPayloads)
      /\ CanBatch(can', now) /\ ImuBatch(imu', next_imu)
      /\ can'.times = <<>> /\ imu' = imu
      /\ \A s \in Streams : LossAt(s)'
  BY <1>0, <1>1, <1>2, <1>3, <1>8, DeferringSound DEF w, c
<1>10. BufferInv'
  <2>1. CanBatch(can', polled)
    BY <1>9, StreamBounds DEF CanBatch
  <2>2. CanBatch(can, polled)'
    BY <1>1, <2>1, Zenon DEF CanBatch
  <2>3. ImuBatch(imu, next_imu)'
    BY <1>1, <1>9, Zenon DEF ImuBatch
  <2>4. held' \in OwnHeld /\ unpaid' \in [Streams -> Int]
    BY <1>0, <1>1 DEF BufferInv
  <2> QED
    BY <1>9, <2>2, <2>3, <2>4, Zenon DEF BufferInv
<1>11. TimerInv'
  <2>1. Len(can'.times) = 0
    BY <1>9
  <2>2. Timed(can, next_flush)'
    BY <2>1 DEF Timed
  <2> QED
    BY <1>0, <1>1, <2>2 DEF TimerInv
<1>12. LossExact'
  BY <1>9, Zenon DEF LossExact, LossAt
<1> QED
  BY <1>10, <1>11, <1>12

LEMMA ImuSetRateKeeps ==
    ASSUME Inv, NEW hz \in DOMAIN Period \cup {0}, ImuSetRate(hz)
    PROVE  BufferInv' /\ TimerInv' /\ LossExact'
<1>0. TypeInv /\ BufferInv /\ TimerInv /\ LossExact
  BY DEF Inv
<1>1. /\ polled' = polled /\ next_flush' = next_flush /\ held' = held /\ unpaid' = unpaid
  BY DEF ImuSetRate
<1>2. up /\ Deferring(Buffers, "imu") /\ "imu" \in Streams
  BY Zenon DEF ImuSetRate, RateFlush, Request, Streams
<1>3. /\ dropped' \in [Streams -> Nat] /\ deferred' \in Seq(HonestPayloads)
      /\ CanBatch(can', polled) /\ ImuBatch(imu', next_imu)
      /\ imu'.times = <<>> /\ can' = can
      /\ \A s \in Streams : LossAt(s)'
  <2>1. /\ Sound(Buffers, polled) /\ Buffers.can = can
        /\ Buffers.imu = imu /\ Buffers.next = next_imu
        /\ Balance(Buffers.dropped, Buffers.out, [s \in Streams |-> Before(s)])
    BY <1>0, BuffersSound
  <2> QED
    BY <1>0, <1>1, <1>2, <2>1, DeferringSound
<1>4. BufferInv'
  <2>1. CanBatch(can, polled)'
    BY <1>1, <1>3, Zenon DEF CanBatch
  <2>2. imu' \in Batches /\ imu'.t0 = IF imu'.times = <<>> THEN None ELSE imu'.times[1]
    BY <1>3 DEF ImuBatch
  <2>3. ImuBatch(imu, next_imu)'
    BY <1>3, <2>2, Zenon DEF ImuBatch
  <2>4. held' \in OwnHeld /\ unpaid' \in [Streams -> Int]
    BY <1>0, <1>1 DEF BufferInv
  <2> QED
    BY <1>3, <2>1, <2>3, <2>4, Zenon DEF BufferInv
<1>5. TimerInv'
  BY <1>0, <1>1, <1>3, Zenon DEF TimerInv, Timed
<1>6. LossExact'
  BY <1>3, Zenon DEF LossExact, LossAt
<1> QED
  BY <1>4, <1>5, <1>6

LEMMA OnConnectKeeps ==
    ASSUME Inv, OnConnect
    PROVE  BufferInv' /\ TimerInv' /\ LossExact'
<1>0. BufferInv /\ TimerInv
  BY DEF Inv
<1>1. /\ polled' = polled /\ next_flush' = next_flush
      /\ can' = Empty /\ imu' = Empty /\ deferred' = <<>>
      /\ dropped' = [s \in Streams |-> 0] /\ unpaid' = [s \in Streams |-> 0]
      /\ held' = [s \in Streams |-> Nothing]
  BY DEF OnConnect
<1>2. Empty \in Batches /\ Empty.times = <<>> /\ Empty.t0 = None
  BY EmptyBatch DEF Empty
<1>3. BufferInv'
  <2>1. CanBatch(can', polled')
    BY <1>1, EmptyBatch
  <2>2. ImuBatch(imu, next_imu)'
    BY <1>1, <1>2 DEF ImuBatch
  <2>3. dropped' \in [Streams -> Nat] /\ unpaid' \in [Streams -> Int]
    BY <1>1
  <2>4. deferred' \in Seq(HonestPayloads)
    BY <1>1
  <2>5. held' \in OwnHeld
    BY <1>1 DEF OwnHeld
  <2> QED
    BY <2>1, <2>2, <2>3, <2>4, <2>5, Zenon DEF BufferInv
<1>4. TimerInv'
  <2>1. Len(can'.times) = 0
    BY <1>1, <1>2
  <2>2. Timed(can, next_flush)'
    BY <2>1 DEF Timed
  <2> QED
    BY <1>0, <1>1, <2>2 DEF TimerInv
<1>5. ASSUME NEW s \in Streams PROVE LossAt(s)'
  <2>1. dropped'[s] = 0 /\ held'[s].dropped = 0 /\ unpaid'[s] = 0
    BY <1>1 DEF Nothing
  <2>2. Said(s, deferred') = 0
    BY <1>1, SaidNone
  <2>3. Unreported(s)' = dropped'[s] + held'[s].dropped + Said(s, deferred')
    BY DEF Unreported
  <2>4. Unreported(s)' = unpaid'[s] /\ Unreported(s)' <= unpaid'[s]
    BY <2>1, <2>2, <2>3
  <2> QED
    BY <2>4, Zenon DEF LossAt
<1>6. LossExact'
  BY <1>5, Zenon DEF LossExact, LossAt
<1> QED
  BY <1>3, <1>4, <1>6

LEMMA OnDisconnectKeeps ==
    ASSUME Inv, OnDisconnect
    PROVE  BufferInv' /\ TimerInv' /\ LossExact'
<1>0. BufferInv /\ TimerInv
  BY DEF Inv
<1>1. /\ polled' = polled /\ next_flush' = next_flush /\ imu_hz' = imu_hz
      /\ imu' = imu /\ next_imu' = next_imu /\ deferred' = deferred /\ dropped' = dropped
      /\ unpaid' = unpaid /\ can' = Empty
      /\ held' = [s \in Streams |-> Nothing]
  BY DEF OnDisconnect, history
<1>2. BufferInv'
  <2>1. CanBatch(can', polled')
    BY <1>1, EmptyBatch
  <2>2. ImuBatch(imu, next_imu)'
    BY <1>0, <1>1, Zenon DEF BufferInv, ImuBatch
  <2>3. held' \in OwnHeld
    BY <1>1 DEF OwnHeld
  <2>4. /\ dropped' \in [Streams -> Nat] /\ unpaid' \in [Streams -> Int]
        /\ deferred' \in Seq(HonestPayloads)
    BY <1>0, <1>1 DEF BufferInv
  <2> QED
    BY <2>1, <2>2, <2>3, <2>4, Zenon DEF BufferInv
<1>3. TimerInv'
  <2>1. Len(can'.times) = 0
    BY <1>1 DEF Empty
  <2>2. Timed(can, next_flush)'
    BY <2>1 DEF Timed
  <2> QED
    BY <1>0, <1>1, <2>2 DEF TimerInv
<1>4. ~up'
  BY Zenon DEF OnDisconnect
<1>5. LossExact'
  BY <1>4, Zenon DEF LossExact
<1> QED
  BY <1>2, <1>3, <1>5

\* Steps that leave the buffers alone.
LEMMA OthersKeep ==
    ASSUME Inv, \/ Tick \/ Arm \/ Unsubscribe \/ NegotiatedMtu \/ UNCHANGED vars
    PROVE  BufferInv' /\ TimerInv' /\ LossExact'
<1>1. UNCHANGED <<polled, imu_hz, buffers, held, unpaid, clamped>>
  BY DEF Tick, Arm, Unsubscribe, NegotiatedMtu, vars, history
<1>2. up' => up
  BY Zenon DEF Tick, Arm, Unsubscribe, NegotiatedMtu, Request, vars
<1> QED
  BY <1>1, <1>2, NothingMoves

LEMMA TypeKept ==
    ASSUME Inv, [Next]_vars
    PROVE  TypeInv'
<1>0. TypeInv
  BY DEF Inv
<1>1. CASE Poll
  BY <1>1, PollKeeps
<1>2. CASE Tick
  <2>1. now' \in 0..MaxTime /\ polled' \in None..now'
    BY <1>0, <1>2, StreamBounds DEF Tick, TypeInv, None
  <2>2. UNCHANGED <<caps, capacity, imu_hz, next_imu, next_flush, requests, losses>>
    BY <1>2 DEF Tick, buffers, counters
  <2> QED
    BY <1>0, <2>1, <2>2 DEF TypeInv
<1>3. CASE CanReset \/ StopPolling \/ Unsubscribe
  <2>0. requests < MaxControl /\ requests' = requests + 1
    BY <1>3, Zenon DEF CanReset, StopPolling, Unsubscribe, Request
  <2>1. requests' \in 0..MaxControl
    BY <1>0, <2>0, StreamBounds DEF TypeInv
  <2>2. UNCHANGED <<caps, now, polled, capacity, imu_hz, next_imu, next_flush, losses>>
    BY <1>3 DEF CanReset, StopPolling, Unsubscribe, buffers
  <2> QED
    BY <1>0, <2>1, <2>2 DEF TypeInv
<1>4. CASE Arm \/ OnConnect \/ UNCHANGED vars \/ \E s \in Streams : Take(s)
  <2>1. UNCHANGED <<caps, now, polled, capacity, imu_hz, next_imu, next_flush, requests, losses>>
    BY <1>4 DEF Arm, OnConnect, Take, vars, buffers, counters
  <2> QED
    BY <1>0, <2>1 DEF TypeInv
<1>5. ASSUME NEW hz \in DOMAIN Period \cup {0}, ImuSetRate(hz) PROVE TypeInv'
  <2>1. requests' \in 0..MaxControl
    BY <1>0, <1>5, StreamBounds DEF ImuSetRate, Request, TypeInv
  <2>2. /\ UNCHANGED <<caps, now, polled, capacity, next_flush, losses>>
        /\ imu_hz' = hz /\ next_imu' = now
    BY <1>5 DEF ImuSetRate
  <2> QED
    BY <1>0, <2>1, <2>2 DEF TypeInv
<1>6. CASE NegotiatedMtu \/ OnDisconnect
  <2>1. capacity' \in Links \cup {Ceiling}
    BY <1>6 DEF NegotiatedMtu, OnDisconnect
  <2>2. UNCHANGED <<caps, now, polled, imu_hz, next_imu, next_flush, requests, losses>>
    BY <1>6 DEF NegotiatedMtu, OnDisconnect, buffers, counters
  <2> QED
    BY <1>0, <2>1, <2>2 DEF TypeInv
<1>7. CASE \E s \in Streams : SimulateLoss(s)
  <2>1. losses' \in 0..MaxLoss
    BY <1>0, <1>7, StreamBounds DEF SimulateLoss, TypeInv
  <2>2. UNCHANGED <<caps, now, polled, capacity, imu_hz, next_imu, next_flush, requests>>
    BY <1>7 DEF SimulateLoss
  <2> QED
    BY <1>0, <2>1, <2>2 DEF TypeInv
<1> QED
  BY <1>1, <1>2, <1>3, <1>4, <1>5, <1>6, <1>7, Zenon DEF Next

LEMMA BoolKept ==
    ASSUME BoolInv, [Next]_vars
    PROVE  BoolInv'
<1>1. CASE Poll
  BY <1>1, Zenon DEF BoolInv, Poll
<1>2. CASE Tick
  BY <1>2, Zenon DEF BoolInv, Tick
<1>3. CASE CanReset
  BY <1>3, Zenon DEF BoolInv, CanReset
<1>4. CASE Arm
  BY <1>4, Zenon DEF BoolInv, Arm
<1>5. CASE StopPolling
  BY <1>5, Zenon DEF BoolInv, StopPolling
<1>6. CASE Unsubscribe
  BY <1>6, Zenon DEF BoolInv, Unsubscribe
<1>7. ASSUME NEW hz \in DOMAIN Period \cup {0}, ImuSetRate(hz) PROVE BoolInv'
  BY <1>7, Zenon DEF BoolInv, ImuSetRate
<1>8. CASE NegotiatedMtu
  BY <1>8, Zenon DEF BoolInv, NegotiatedMtu
<1>9. CASE OnConnect
  BY <1>9, Zenon DEF BoolInv, OnConnect
<1>10. CASE OnDisconnect
  BY <1>10, Zenon DEF BoolInv, OnDisconnect
<1>11. ASSUME NEW s \in Streams, Take(s) PROVE BoolInv'
  BY <1>11, Zenon DEF BoolInv, Take
<1>12. ASSUME NEW s \in Streams, SimulateLoss(s) PROVE BoolInv'
  BY <1>12, Zenon DEF BoolInv, SimulateLoss
<1>13. CASE UNCHANGED vars
  BY <1>13, Zenon DEF BoolInv, vars
<1> QED
  BY <1>1, <1>2, <1>3, <1>4, <1>5, <1>6, <1>7, <1>8, <1>9, <1>10, <1>11, <1>12, <1>13,
     Zenon DEF Next

LEMMA InvKept ==
    ASSUME Inv, [Next]_vars
    PROVE  Inv'
<1>1. TypeInv'
  BY TypeKept
<1>2. BufferInv' /\ TimerInv' /\ LossExact'
  <2>1. CASE Poll
    BY <2>1, PollKeeps
  <2>2. CASE CanReset
    BY <2>2, CanResetKeeps
  <2>3. CASE StopPolling
    BY <2>3, StopPollingKeeps
  <2>4. ASSUME NEW hz \in DOMAIN Period \cup {0}, ImuSetRate(hz)
        PROVE  BufferInv' /\ TimerInv' /\ LossExact'
    BY <2>4, ImuSetRateKeeps
  <2>5. CASE OnConnect
    BY <2>5, OnConnectKeeps
  <2>6. CASE OnDisconnect
    BY <2>6, OnDisconnectKeeps
  <2>7. ASSUME NEW s \in Streams, Take(s) PROVE BufferInv' /\ TimerInv' /\ LossExact'
    BY <2>7, TakeKeeps
  <2>8. ASSUME NEW s \in Streams, SimulateLoss(s) PROVE BufferInv' /\ TimerInv' /\ LossExact'
    BY <2>8, SimulateLossKeeps
  <2>9. CASE \/ Tick \/ Arm \/ Unsubscribe \/ NegotiatedMtu \/ UNCHANGED vars
    BY <2>9, OthersKeep
  <2> QED
    BY <2>1, <2>2, <2>3, <2>4, <2>5, <2>6, <2>7, <2>8, <2>9, Zenon DEF Next
<1> QED
  BY <1>1, <1>2 DEF Inv

-----------------------------------------------------------------------------
(* Theorems *)

LEMMA InvariantHolds == Spec => [](Inv /\ BoolInv)
<1>1. Inv /\ BoolInv /\ [Next]_vars => Inv' /\ BoolInv'
  BY InvKept, BoolKept
<1> QED
  BY InitInv, <1>1, PTL DEF Spec

LEMMA PendingHonest ==
    ASSUME BufferInv, NEW p \in Pending
    PROVE  p \in HonestPayloads
<1>1. p # Nothing /\ (p \in {held[s] : s \in Streams} \/ p \in ToSet(deferred))
  BY DEF Pending
<1>2. CASE p \in {held[s] : s \in Streams}
  BY <1>1, <1>2 DEF BufferInv, OwnHeld
<1>3. CASE p \in ToSet(deferred)
  <2>1. PICK n \in DOMAIN deferred : p = deferred[n]
    BY <1>3 DEF ToSet
  <2> QED
    BY <2>1 DEF BufferInv
<1> QED
  BY <1>1, <1>2, <1>3

\* Every variable keeps its type; a batch has a base as long as it has records; what is
\* pending is of a stream and its report fits sixteen bits.
THEOREM TypeCorrect == Spec => []TypeOK
<1>1. ASSUME Inv, BoolInv PROVE TypeOK
  <2>1. TypeInv /\ BufferInv
    BY <1>1 DEF Inv
  <2>2. can \in Batches /\ imu \in Batches /\ dropped \in [Streams -> Nat]
    BY <2>1 DEF BufferInv, CanBatch, ImuBatch
  <2>3. (can.t0 = None) <=> (can.times = <<>>)
    <3>1. can.times # <<>> => can.times[1] \in 0..MaxTime
      BY <2>2, Nonempty DEF Batches
    <3>2. can.t0 = IF can.times = <<>> THEN None ELSE can.times[1]
      BY <2>1 DEF BufferInv, CanBatch
    <3> QED
      BY <3>1, <3>2 DEF None
  <2>4. (imu.t0 = None) <=> (imu.times = <<>>)
    <3>1. imu.times # <<>> => imu.times[1] \in 0..MaxTime
      BY <2>2, Nonempty DEF Batches
    <3>2. imu.t0 = IF imu.times = <<>> THEN None ELSE imu.times[1]
      BY <2>1 DEF BufferInv, ImuBatch
    <3> QED
      BY <3>1, <3>2 DEF None
  <2>5. \A p \in Pending : p.stream \in Streams /\ p.dropped \in 0..DropMax
    BY <2>1, PendingHonest DEF HonestPayloads, Payloads
  <2>6. up \in BOOLEAN /\ subs \in BOOLEAN
    BY <1>1, Zenon DEF BoolInv
  <2> QED
    BY <2>1, <2>2, <2>3, <2>4, <2>5, <2>6, Zenon DEF TypeOK, TypeInv
<1> QED
  BY <1>1, InvariantHolds, PTL

\* Whatever is pending for a client times its records by its own base: CAN records from the
\* base on, in order, inside the window; IMU samples evenly, unless a backlog was skipped
\* under them (_flush_can, _flush_imu, _advance_imu).
THEOREM BatchesAlwaysHonest == Spec => []BatchesHonest
<1>1. ASSUME Inv PROVE BatchesHonest
  <2>1. \A p \in Pending : Honest(p)
    BY <1>1, PendingHonest DEF Inv, HonestPayloads
  <2> QED
    BY <2>1, Zenon DEF BatchesHonest, Honest
<1> QED
  BY <1>1, InvariantHolds, PTL

\* Between two connections nothing is reported that was not lost, and nothing lost is
\* forgotten unless a report saturated (_take_dropped, record_refused, CAN_RESET).
THEOREM LossAlwaysExact == Spec => []LossExact
<1>1. Inv => LossExact
  BY DEF Inv
<1> QED
  BY <1>1, InvariantHolds, PTL

\* While the stream can be delivered, a poll leaves no record a whole flush period old: the
\* timer catches what no other flush does (poll).
THEOREM RecordsLeave == Spec => RecordsLeaveInTime
<1>1. ASSUME Inv, [Next]_vars
      PROVE  Poll /\ subs /\ held["can"] = Nothing =>
                \A n \in DOMAIN can'.times : now - can'.times[n] < FlushEvery
  <2> SUFFICES ASSUME Poll, subs, held["can"] = Nothing, NEW n \in DOMAIN can'.times
               PROVE  now - can'.times[n] < FlushEvery
    OBVIOUS
  <2>1. /\ CanBatch(can', now) /\ Timed(can', next_flush)
        /\ TimerDue => can'.times = <<>>
    BY <1>1, PollLeaves DEF Inv
  <2>2. can'.times \in Seq(0..MaxTime)
    BY <2>1 DEF CanBatch, Batches
  <2>3. n \in 1..Len(can'.times) /\ can'.times[n] \in 0..MaxTime /\ can'.times # <<>>
    <3> DEFINE q == can'.times
    <3>1. q \in Seq(0..MaxTime) /\ n \in DOMAIN q
      BY <2>2
    <3> HIDE DEF q
    <3>2. DOMAIN q = 1..Len(q) /\ q # <<>>
      BY <3>1
    <3>3. q[n] \in 0..MaxTime
      BY <3>1, <3>2, Members
    <3> QED
      BY <3>1, <3>2, <3>3 DEF q
  <2>4. ~(now >= next_flush)
    <3>1. ~TimerDue
      BY <2>1, <2>3
    <3> QED
      BY <3>1, Zenon DEF TimerDue
  <2>5. next_flush <= can'.times[n] + FlushEvery
    BY <2>1, <2>3 DEF Timed
  <2>6. now \in Nat /\ next_flush \in Nat /\ FlushEvery \in Nat
    BY <1>1, StreamBounds DEF Inv, TypeInv
  <2> QED
    BY <2>3, <2>4, <2>5, <2>6
<1> QED
  BY <1>1, InvariantHolds, PTL DEF Spec, RecordsLeaveInTime
=============================================================================

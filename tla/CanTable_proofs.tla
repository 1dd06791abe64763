--------------------------- MODULE CanTable_proofs ---------------------------
(***************************************************************************)
(* Proofs about the subscription table and the admission of CanTable, for  *)
(* every set of identifiers, masks, rules and slots: the table keeps to    *)
(* its slots, and it implements CanGate.                                   *)
(*                                                                         *)
(* The argument: order numbers are distinct, so that whatever matches an   *)
(* identifier has one governor, the same one before and after any frame of *)
(* a poll.  A poll therefore leaves what a closed form says (Passed), in   *)
(* which the order of its frames and their repetition do not matter.       *)
(***************************************************************************)
EXTENDS CanTable, WellFoundedInduction, FiniteSetTheorems, TLAPS

-----------------------------------------------------------------------------
(* The governing subscription *)

\* A nonempty set of naturals has a least element.
LEMMA LeastOf ==
    ASSUME NEW S \in SUBSET Nat, S # {}
    PROVE  \E t \in S : \A u \in S : t <= u
<1>1. PICK m \in S : \A u \in S : <<u, m>> \notin OpToRel(<, Nat)
  BY WFMin, NatLessThanWellFounded, Zenon
<1>2. \A u \in S : ~(u < m)
  BY <1>1, Zenon DEF OpToRel
<1> QED
  BY <1>2

\* One with a bound has a greatest element.
LEMMA GreatestOf ==
    ASSUME NEW S \in SUBSET Nat, S # {}, NEW b \in Nat, \A u \in S : u <= b
    PROVE  \E t \in S : \A u \in S : u <= t
<1> DEFINE Below == {b - u : u \in S}
<1>1. Below \in SUBSET Nat /\ Below # {}
  <2>1. \A u \in S : b - u \in Nat
    OBVIOUS
  <2> QED
    BY <2>1
<1>2. PICK d \in Below : \A e \in Below : d <= e
  <2> HIDE DEF Below
  <2> QED
    BY <1>1, LeastOf
<1>3. PICK t \in S : d = b - t
  OBVIOUS
<1>4. \A u \in S : u <= t
  BY <1>2, <1>3
<1> QED
  BY <1>4

LEMMA MasksAreFinite ==
    ASSUME NEW k \in Keys
    PROVE  Specific(k) \in Nat /\ Specific(k) <= Cardinality(MatchBits)
<1>1. k.mask \in SUBSET MatchBits
  BY DEF Keys, Identity
<1> QED
  BY <1>1, FS_Subset, FS_CardinalityType, BusAssumption DEF Specific

\* Entries are of keys, and no two have the same order number.
Ordered(tbl) ==
    /\ DOMAIN tbl \subseteq Keys
    /\ \A k \in DOMAIN tbl : tbl[k].order \in Nat
    /\ \A k, j \in DOMAIN tbl : tbl[k].order = tbl[j].order => k = j

\* Whatever matches an identifier has exactly one governor.
LEMMA OneGoverns ==
    ASSUME NEW tbl, Ordered(tbl), NEW i, Matching(tbl, i) # {}
    PROVE  /\ Governing(tbl, i) \in Matching(tbl, i)
           /\ \A j \in Matching(tbl, i) : Before(tbl, Governing(tbl, i), j)
           /\ \A k \in Matching(tbl, i) :
                 (\A j \in Matching(tbl, i) : Before(tbl, k, j)) => k = Governing(tbl, i)
<1> DEFINE M == Matching(tbl, i)
           Bits == {Specific(k) : k \in M}
<1>1. \A k \in M : /\ k \in DOMAIN tbl /\ tbl[k].order \in Nat
                   /\ Specific(k) \in Nat /\ Specific(k) <= Cardinality(MatchBits)
  BY MasksAreFinite DEF Matching, Ordered
<1>2. PICK g \in Bits : \A u \in Bits : u <= g
  <2>1. Bits \in SUBSET Nat /\ Bits # {} /\ \A u \in Bits : u <= Cardinality(MatchBits)
    BY <1>1
  <2>2. Cardinality(MatchBits) \in Nat
    BY FS_CardinalityType, BusAssumption
  <2> HIDE DEF Bits
  <2> QED
    BY <2>1, <2>2, GreatestOf
<1> DEFINE Orders == {tbl[k].order : k \in {j \in M : Specific(j) = g}}
<1>3. PICK o \in Orders : \A u \in Orders : o <= u
  <2>1. Orders \in SUBSET Nat /\ Orders # {}
    BY <1>1, <1>2
  <2> HIDE DEF Orders
  <2> QED
    BY <2>1, LeastOf
<1>4. PICK k \in M : Specific(k) = g /\ tbl[k].order = o
  BY <1>3
<1>5. \A j \in M : Before(tbl, k, j)
  <2> SUFFICES ASSUME NEW j \in M PROVE Before(tbl, k, j)
    OBVIOUS
  <2>1. Specific(j) <= g
    BY <1>2
  <2>2. Specific(j) = g => o <= tbl[j].order
    BY <1>3
  <2> QED
    BY <1>1, <1>4, <2>1, <2>2 DEF Before
<1>6. /\ Governing(tbl, i) \in M
      /\ \A j \in M : Before(tbl, Governing(tbl, i), j)
  BY <1>5 DEF Governing
<1>7. ASSUME NEW h \in M, \A j \in M : Before(tbl, h, j) PROVE h = Governing(tbl, i)
  <2> DEFINE v == Governing(tbl, i)
  <2>1. v \in M /\ Before(tbl, v, h) /\ Before(tbl, h, v)
    BY <1>6, <1>7
  <2> HIDE DEF v
  <2>2. tbl[h].order = tbl[v].order
    BY <1>1, <2>1 DEF Before
  <2> QED
    BY <1>1, <2>1, <2>2 DEF Ordered, v
<1> QED
  BY <1>6, <1>7

\* A table with the same entries in the same order has the same governors.
LEMMA SameGovernor ==
    ASSUME NEW tbl, Ordered(tbl), NEW t, DOMAIN t = DOMAIN tbl,
           \A k \in DOMAIN tbl : t[k].order = tbl[k].order, NEW i
    PROVE  /\ Matching(t, i) = Matching(tbl, i)
           /\ Matching(tbl, i) # {} => Governing(t, i) = Governing(tbl, i)
<1>1. Matching(t, i) = Matching(tbl, i)
  BY DEF Matching
<1>2. Ordered(t)
  BY DEF Ordered
<1>3. ASSUME Matching(tbl, i) # {} PROVE Governing(t, i) = Governing(tbl, i)
  <2> DEFINE v == Governing(t, i)
  <2>1. v \in Matching(tbl, i) /\ \A j \in Matching(tbl, i) : Before(t, v, j)
    BY <1>1, <1>2, <1>3, OneGoverns
  <2> HIDE DEF v
  <2>2. \A j \in Matching(tbl, i) : Before(tbl, v, j)
    BY <2>1 DEF Before, Matching
  <2>3. v = Governing(tbl, i)
    BY <1>3, <2>1, <2>2, OneGoverns
  <2> QED
    BY <2>3 DEF v
<1> QED
  BY <1>1, <1>3

-----------------------------------------------------------------------------
(* The inductive invariant *)

Marks   == [last : Nat, seen : BOOLEAN, emitted_at : Nat]
Entries == [mode : {"every_frame", "periodic"}, arg : Nat, order : Nat, per_id : [Ids -> Marks]]

\* A function from keys to entries, the entries in the order of distinct numbers.
Tabular(tbl) ==
    /\ tbl = [k \in DOMAIN tbl |-> tbl[k]] /\ Ordered(tbl)
    /\ \A k \in DOMAIN tbl : tbl[k] \in Entries

\* The table is one, it is finite and fits the slots, its rules were requested, its numbers
\* handed out and its times behind the clock.
TypeInv ==
    /\ now \in 0..MaxTime /\ install_counter \in 0..MaxInstalls
    /\ Tabular(subscriptions) /\ IsFiniteSet(Installed) /\ Cardinality(Installed) <= Slots
    /\ \A k \in Installed :
           /\ [mode |-> subscriptions[k].mode, arg |-> subscriptions[k].arg] \in Rules
           /\ subscriptions[k].order \in 1..install_counter
           /\ \A i \in Ids : /\ subscriptions[k].per_id[i].last <= now
                             /\ subscriptions[k].per_id[i].emitted_at <= now
    /\ obd_rx \in Seq(ObdIds)
    /\ \A f \in out : f.id \in Ids

BoolInv == obd_poll \in BOOLEAN

-----------------------------------------------------------------------------
(* What the frames of a poll leave, in a closed form *)

Rules0(i) == Governing(subscriptions, i)

\* A frame of i reaches a subscription: something matches it and, if it is broadcast, the
\* generator finds it due.
Heeds(i) ==
    /\ Matching(subscriptions, i) # {}
    /\ i \in BusIds => now - subscriptions[Rules0(i)].per_id[i].last >= Every[i]

Marked(k, i) ==
    [last       |-> IF i \in BusIds THEN now ELSE subscriptions[k].per_id[i].last,
     seen       |-> TRUE,
     emitted_at |-> IF Emits(subscriptions[k], i) THEN now
                    ELSE subscriptions[k].per_id[i].emitted_at]

\* The entries, once frames of the identifiers D were on the bus, and what was forwarded.
PassedTable(D) ==
    [k \in Installed |->
        [mode |-> subscriptions[k].mode, arg |-> subscriptions[k].arg,
         order |-> subscriptions[k].order,
         per_id |-> [i \in Ids |-> IF i \in D /\ Heeds(i) /\ k = Rules0(i) THEN Marked(k, i)
                                  ELSE subscriptions[k].per_id[i]]]]
PassedOut(D) ==
    {[id |-> i, by |-> Rules0(i)] :
        i \in {j \in D : Heeds(j) /\ Emits(subscriptions[Rules0(j)], j)}}
    \cup {[id |-> i, by |-> Fallback] :
        i \in {j \in D \cap ObdIds : obd_poll /\ Matching(subscriptions, j) = {}}}
Passed(D) == [table |-> PassedTable(D), out |-> PassedOut(D)]

\* A table with the record of one identifier under one subscription replaced.
Mark(tbl, k, i, m) ==
    [j \in DOMAIN tbl |-> IF j # k THEN tbl[j]
        ELSE [mode |-> tbl[k].mode, arg |-> tbl[k].arg, order |-> tbl[k].order,
              per_id |-> [x \in Ids |-> IF x = i THEN m ELSE tbl[k].per_id[x]]]]

\* What _admit does to a table.
LEMMA AdmitMarks ==
    ASSUME now \in Nat, NEW tbl, Tabular(tbl), NEW o, NEW k \in DOMAIN tbl, NEW i \in Ids
    PROVE  Admit([table |-> tbl, out |-> o], k, i) =
             [table |-> Mark(tbl, k, i,
                          [last |-> tbl[k].per_id[i].last, seen |-> TRUE,
                           emitted_at |-> IF Emits(tbl[k], i) THEN now
                                          ELSE tbl[k].per_id[i].emitted_at]),
              out |-> IF Emits(tbl[k], i) THEN o \cup {[id |-> i, by |-> k]} ELSE o]
<1> DEFINE e == Emits(tbl[k], i)
           m == [last |-> tbl[k].per_id[i].last, seen |-> TRUE,
                 emitted_at |-> IF e THEN now ELSE tbl[k].per_id[i].emitted_at]
           p == [tbl[k].per_id EXCEPT ![i] = m]
           s == [tbl[k] EXCEPT !.per_id = p]
           t == [tbl EXCEPT ![k] = s]
<1>1. tbl[k] \in Entries /\ tbl[k].per_id \in [Ids -> Marks] /\ tbl[k].per_id[i] \in Marks
  BY DEF Tabular, Entries
<1>3. p = [x \in Ids |-> IF x = i THEN m ELSE tbl[k].per_id[x]]
  <2> HIDE DEF m
  <2> QED
    BY <1>1
<1>4. s = [mode |-> tbl[k].mode, arg |-> tbl[k].arg, order |-> tbl[k].order, per_id |-> p]
  <2> HIDE DEF p
  <2> QED
    BY <1>1 DEF Entries
<1>5. t = Mark(tbl, k, i, m)
  <2> HIDE DEF m
  <2>1. s = [mode |-> tbl[k].mode, arg |-> tbl[k].arg, order |-> tbl[k].order,
             per_id |-> [x \in Ids |-> IF x = i THEN m ELSE tbl[k].per_id[x]]]
    BY <1>3, <1>4
  <2>2. t = [j \in DOMAIN tbl |-> IF j # k THEN tbl[j] ELSE s]
    BY DEF Tabular
  <2> HIDE DEF s, t
  <2> QED
    BY <2>1, <2>2 DEF Mark
<1>6. Admit([table |-> tbl, out |-> o], k, i) =
        [table |-> t, out |-> IF e THEN o \cup {[id |-> i, by |-> k]} ELSE o]
  <2> DEFINE w == [table |-> tbl, out |-> o]
  <2>1. w.table = tbl /\ w.out = o
    OBVIOUS
  <2> HIDE DEF w
  <2>2. Admit(w, k, i) = [table |-> t, out |-> IF e THEN o \cup {[id |-> i, by |-> k]} ELSE o]
    BY <2>1, Zenon DEF Admit
  <2> QED
    BY <2>2 DEF w
<1> QED
  BY <1>5, <1>6

\* The closed form is a table, with the governors of the one it began with.
LEMMA PassedIsTable ==
    ASSUME TypeInv, NEW D
    PROVE  /\ Tabular(PassedTable(D)) /\ DOMAIN PassedTable(D) = Installed
           /\ \A k \in Installed : PassedTable(D)[k].order = subscriptions[k].order
<1> DEFINE T == PassedTable(D)
<1>1. DOMAIN T = Installed /\ T = [k \in Installed |-> T[k]]
  BY DEF PassedTable
<1>2. ASSUME NEW k \in Installed
      PROVE  T[k] \in Entries /\ T[k].order = subscriptions[k].order
  <2> DEFINE p == [i \in Ids |-> IF i \in D /\ Heeds(i) /\ k = Rules0(i) THEN Marked(k, i)
                                ELSE subscriptions[k].per_id[i]]
  <2>1. subscriptions[k] \in Entries /\ now \in Nat
    BY <1>2 DEF TypeInv, Tabular, Installed
  <2>2. ASSUME NEW i \in Ids PROVE p[i] \in Marks
    <3>1. subscriptions[k].per_id[i] \in Marks
      BY <2>1 DEF Entries
    <3>2. Marked(k, i) \in Marks
      BY <2>1, <3>1 DEF Marked, Marks
    <3> QED
      BY <3>1, <3>2
  <2>3. p \in [Ids -> Marks]
    BY <2>2
  <2>4. T[k] = [mode |-> subscriptions[k].mode, arg |-> subscriptions[k].arg,
                order |-> subscriptions[k].order, per_id |-> p]
    BY <1>2 DEF PassedTable
  <2> HIDE DEF p, T
  <2> QED
    BY <2>1, <2>3, <2>4 DEF Entries
<1>3. Ordered(subscriptions) /\ Installed = DOMAIN subscriptions
  BY DEF TypeInv, Tabular, Installed
<1>4. Ordered(T)
  BY <1>1, <1>2, <1>3 DEF Ordered
<1>5. Tabular(T)
  BY <1>1, <1>2, <1>4 DEF Tabular
<1> QED
  BY <1>1, <1>2, <1>5

LEMMA PassedGovernor ==
    ASSUME TypeInv, NEW D, NEW i
    PROVE  /\ Matching(PassedTable(D), i) = Matching(subscriptions, i)
           /\ Matching(subscriptions, i) # {} =>
                 /\ Governing(PassedTable(D), i) = Rules0(i) /\ Rules0(i) \in Installed
<1> DEFINE T == PassedTable(D)
<1>1. Ordered(subscriptions) /\ Installed = DOMAIN subscriptions
  BY DEF TypeInv, Tabular, Installed
<1>2. DOMAIN T = Installed /\ \A k \in DOMAIN subscriptions : T[k].order = subscriptions[k].order
  BY <1>1, PassedIsTable
<1>3. Matching(subscriptions, i) # {} => Rules0(i) \in Matching(subscriptions, i)
  BY <1>1, OneGoverns DEF Rules0
<1> HIDE DEF T
<1>4. /\ Matching(T, i) = Matching(subscriptions, i)
      /\ Matching(subscriptions, i) # {} => /\ Governing(T, i) = Rules0(i)
                                           /\ Rules0(i) \in Installed
  BY <1>1, <1>2, <1>3, SameGovernor DEF Rules0, Matching
<1> QED
  BY <1>4 DEF T

\* One more identifier in the closed form changes one record of its governor's.
LEMMA PassOne ==
    ASSUME TypeInv, NEW D, NEW i \in Ids
    PROVE  /\ Heeds(i) => PassedTable(D \cup {i}) =
                            Mark(PassedTable(D), Rules0(i), i, Marked(Rules0(i), i))
           /\ ~Heeds(i) => PassedTable(D \cup {i}) = PassedTable(D)
<1> DEFINE g == Rules0(i)
           T == PassedTable(D)
<1>1. CASE ~Heeds(i)
  <2>1. \A j \in Ids : j \in D \cup {i} /\ Heeds(j) <=> j \in D /\ Heeds(j)
    BY <1>1
  <2> QED
    BY <1>1, <2>1, Zenon DEF PassedTable
<1>2. CASE Heeds(i)
  <2> DEFINE U == Mark(T, g, i, Marked(g, i))
             V == PassedTable(D \cup {i})
  <2>1. DOMAIN U = Installed /\ DOMAIN V = Installed /\ DOMAIN T = Installed
    BY DEF Mark, PassedTable
  <2>2. ASSUME NEW k \in Installed PROVE U[k] = V[k]
    <3> DEFINE p == [j \in Ids |-> IF j \in D /\ Heeds(j) /\ k = Rules0(j) THEN Marked(k, j)
                                  ELSE subscriptions[k].per_id[j]]
               q == [j \in Ids |-> IF j \in D \cup {i} /\ Heeds(j) /\ k = Rules0(j)
                                  THEN Marked(k, j) ELSE subscriptions[k].per_id[j]]
               r == [x \in Ids |-> IF x = i THEN Marked(g, i) ELSE p[x]]
    <3>1. /\ T[k] = [mode |-> subscriptions[k].mode, arg |-> subscriptions[k].arg,
                     order |-> subscriptions[k].order, per_id |-> p]
          /\ V[k] = [mode |-> subscriptions[k].mode, arg |-> subscriptions[k].arg,
                     order |-> subscriptions[k].order, per_id |-> q]
      BY <2>2 DEF PassedTable
    <3>2. k # g => q = p
      BY <1>2, Zenon
    <3>3. k = g => q = r
      <4> SUFFICES ASSUME k = g PROVE \A j \in Ids : q[j] = r[j]
        OBVIOUS
      <4> QED
        BY <1>2
    <3>4. k # g => U[k] = T[k]
      BY <2>1, <2>2 DEF Mark
    <3>5. k = g => U[k] = [mode |-> T[k].mode, arg |-> T[k].arg, order |-> T[k].order,
                           per_id |-> [x \in Ids |-> IF x = i THEN Marked(g, i)
                                                    ELSE T[k].per_id[x]]]
      <4> HIDE DEF T
      <4> QED
        BY <2>1, <2>2, Zenon DEF Mark
    <3> HIDE DEF p, q, T, U, V
    <3> QED
      BY <3>1, <3>2, <3>3, <3>4, <3>5
  <2>3. U = [k \in Installed |-> U[k]] /\ V = [k \in Installed |-> V[k]]
    BY <2>1 DEF Mark, PassedTable
  <2> HIDE DEF U, V
  <2>4. U = V
    BY <2>2, <2>3
  <2> QED
    BY <1>2, <2>4 DEF U, V
<1> QED
  BY <1>1, <1>2

LEMMA OutOne ==
    ASSUME NEW D, NEW i
    PROVE  /\ Heeds(i) => PassedOut(D \cup {i}) =
                 IF Emits(subscriptions[Rules0(i)], i)
                   THEN PassedOut(D) \cup {[id |-> i, by |-> Rules0(i)]} ELSE PassedOut(D)
           /\ Matching(subscriptions, i) = {} => PassedOut(D \cup {i}) =
                 IF i \in ObdIds /\ obd_poll
                   THEN PassedOut(D) \cup {[id |-> i, by |-> Fallback]} ELSE PassedOut(D)
           /\ ~Heeds(i) /\ Matching(subscriptions, i) # {} =>
                 PassedOut(D \cup {i}) = PassedOut(D)
           /\ i \in D => PassedOut(D \cup {i}) = PassedOut(D)
<1> DEFINE Ruled(E) == {[id |-> j, by |-> Rules0(j)] :
                j \in {h \in E : Heeds(h) /\ Emits(subscriptions[Rules0(h)], h)}}
           Fell(E) == {[id |-> j, by |-> Fallback] :
                j \in {h \in E \cap ObdIds : obd_poll /\ Matching(subscriptions, h) = {}}}
<1>1. \A E : PassedOut(E) = Ruled(E) \cup Fell(E)
  BY DEF PassedOut
<1>2. Ruled(D \cup {i}) = IF Heeds(i) /\ Emits(subscriptions[Rules0(i)], i)
                            THEN Ruled(D) \cup {[id |-> i, by |-> Rules0(i)]} ELSE Ruled(D)
  OBVIOUS
<1>3. Fell(D \cup {i}) = IF i \in ObdIds /\ obd_poll /\ Matching(subscriptions, i) = {}
                           THEN Fell(D) \cup {[id |-> i, by |-> Fallback]} ELSE Fell(D)
  OBVIOUS
<1>4. Heeds(i) => Matching(subscriptions, i) # {}
  BY DEF Heeds
<1>5. i \in D => D \cup {i} = D
  OBVIOUS
<1> HIDE DEF Ruled, Fell
<1> QED
  BY <1>1, <1>2, <1>3, <1>4, <1>5, Zenon

LEMMA MarkIsTable ==
    ASSUME NEW t, Tabular(t), NEW k \in DOMAIN t, NEW i \in Ids, NEW m \in Marks
    PROVE  /\ Tabular(Mark(t, k, i, m)) /\ DOMAIN Mark(t, k, i, m) = DOMAIN t
           /\ Mark(t, k, i, m)[k].per_id[i] = m
           /\ \A j \in DOMAIN t : /\ Mark(t, k, i, m)[j].mode = t[j].mode
                                  /\ Mark(t, k, i, m)[j].arg = t[j].arg
           /\ \A n : Mark(Mark(t, k, i, m), k, i, n) = Mark(t, k, i, n)
<1> DEFINE p == [x \in Ids |-> IF x = i THEN m ELSE t[k].per_id[x]]
           s == [mode |-> t[k].mode, arg |-> t[k].arg, order |-> t[k].order, per_id |-> p]
           u == Mark(t, k, i, m)
<1>1. DOMAIN u = DOMAIN t /\ u = [j \in DOMAIN t |-> u[j]]
  BY DEF Mark
<1>2. \A j \in DOMAIN t : u[j] = IF j # k THEN t[j] ELSE s
  BY DEF Mark
<1>3. t[k] \in Entries
  BY DEF Tabular
<1>4. p \in [Ids -> Marks] /\ p[i] = m
  BY <1>3 DEF Entries
<1>5. s \in Entries /\ s.order = t[k].order /\ s.mode = t[k].mode /\ s.arg = t[k].arg /\ s.per_id = p
  <2> HIDE DEF p
  <2> QED
    BY <1>3, <1>4 DEF Entries
<1> HIDE DEF s
<1>6. \A j \in DOMAIN t : /\ u[j] \in Entries /\ u[j].order = t[j].order
                         /\ u[j].mode = t[j].mode /\ u[j].arg = t[j].arg
  BY <1>2, <1>5 DEF Tabular
<1>7. ASSUME NEW n PROVE Mark(u, k, i, n) = Mark(t, k, i, n)
  <2> DEFINE q == [x \in Ids |-> IF x = i THEN n ELSE u[k].per_id[x]]
             r == [x \in Ids |-> IF x = i THEN n ELSE t[k].per_id[x]]
  <2>1. u[k].per_id = p /\ u[k].mode = t[k].mode /\ u[k].arg = t[k].arg /\ u[k].order = t[k].order
    BY <1>2, <1>5
  <2>2. q = r
    <3> HIDE DEF u
    <3> QED
      BY <2>1
  <2>3. Mark(u, k, i, n) = [j \in DOMAIN u |-> IF j # k THEN u[j]
            ELSE [mode |-> u[k].mode, arg |-> u[k].arg, order |-> u[k].order, per_id |-> q]]
    BY Zenon DEF Mark
  <2>4. Mark(t, k, i, n) = [j \in DOMAIN t |-> IF j # k THEN t[j]
            ELSE [mode |-> t[k].mode, arg |-> t[k].arg, order |-> t[k].order, per_id |-> r]]
    BY Zenon DEF Mark
  <2> HIDE DEF q, r, u, p
  <2> QED
    BY <1>1, <1>2, <2>1, <2>2, <2>3, <2>4
<1>8. u[k].per_id[i] = m
  BY <1>2, <1>4, <1>5
<1>9. Tabular(u)
  <2> HIDE DEF u
  <2> QED
    BY <1>1, <1>6 DEF Tabular, Ordered
<1> HIDE DEF u
<1> QED
  BY <1>1, <1>6, <1>7, <1>8, <1>9 DEF u

\* The record of the governor, after some frames of the poll.
LEMMA PassedRecord ==
    ASSUME TypeInv, NEW D, NEW i \in Ids, Matching(subscriptions, i) # {}
    PROVE  /\ Rules0(i) \in Installed
           /\ subscriptions[Rules0(i)] \in Entries
           /\ subscriptions[Rules0(i)].per_id[i] \in Marks
           /\ PassedTable(D)[Rules0(i)].per_id[i] =
                 IF i \in D /\ Heeds(i) THEN Marked(Rules0(i), i)
                 ELSE subscriptions[Rules0(i)].per_id[i]
           /\ PassedTable(D)[Rules0(i)].mode = subscriptions[Rules0(i)].mode
           /\ PassedTable(D)[Rules0(i)].arg = subscriptions[Rules0(i)].arg
<1>1. Rules0(i) \in Installed
  BY PassedGovernor
<1>2. subscriptions[Rules0(i)] \in Entries
  BY <1>1 DEF TypeInv, Tabular, Installed
<1>3. subscriptions[Rules0(i)].per_id[i] \in Marks
  BY <1>2 DEF Entries
<1> QED
  BY <1>1, <1>2, <1>3 DEF PassedTable

\* A frame of an ECU, and a broadcast one, take the closed form to the closed form.
LEMMA ObdPasses ==
    ASSUME TypeInv, NEW D, NEW i \in ObdIds
    PROVE  ObdFrame(Passed(D), i) = Passed(D \cup {i})
<1> DEFINE g == Rules0(i)
           T == PassedTable(D)
           st == subscriptions[g].per_id[i]
<1>0. i \in Ids /\ i \notin BusIds /\ (Heeds(i) <=> Matching(subscriptions, i) # {})
  BY BusAssumption DEF Ids, Heeds
<1>1. CASE Matching(subscriptions, i) = {}
  <2>1. Matching(T, i) = {}
    BY <1>1, PassedGovernor
  <2>2. PassedTable(D \cup {i}) = T
    BY <1>0, <1>1, PassOne
  <2>3. PassedOut(D \cup {i}) = IF obd_poll THEN PassedOut(D) \cup {[id |-> i, by |-> Fallback]}
                                ELSE PassedOut(D)
    BY <1>1, OutOne
  <2>4. ObdFrame(Passed(D), i) =
          IF obd_poll THEN [table |-> T, out |-> PassedOut(D) \cup {[id |-> i, by |-> Fallback]}]
          ELSE [table |-> T, out |-> PassedOut(D)]
    <3> HIDE DEF T
    <3>1. Passed(D) = [table |-> T, out |-> PassedOut(D)]
      BY DEF Passed, T
    <3> QED
      BY <2>1, <3>1 DEF ObdFrame
  <2> QED
    BY <2>2, <2>3, <2>4 DEF Passed
<1>2. CASE Matching(subscriptions, i) # {}
  <2>1. /\ Tabular(T) /\ g \in DOMAIN T /\ Matching(T, i) # {} /\ Governing(T, i) = g
        /\ T[g].per_id[i] = IF i \in D THEN Marked(g, i) ELSE st
        /\ T[g].mode = subscriptions[g].mode /\ T[g].arg = subscriptions[g].arg
        /\ subscriptions[g].mode \in {"every_frame", "periodic"} /\ subscriptions[g].arg \in Nat
        /\ st \in Marks /\ now \in Nat
    <3>1. Tabular(T) /\ DOMAIN T = Installed
      BY PassedIsTable
    <3>2. g \in Installed /\ Matching(T, i) # {} /\ Governing(T, i) = g
      BY <1>2, PassedGovernor
    <3>3. subscriptions[g] \in Entries /\ st \in Marks /\ now \in Nat
      BY <1>0, <1>2, PassedRecord DEF TypeInv
    <3>4. /\ T[g].per_id[i] = IF i \in D THEN Marked(g, i) ELSE st
          /\ T[g].mode = subscriptions[g].mode /\ T[g].arg = subscriptions[g].arg
      BY <1>0, <1>2, PassedRecord
    <3> HIDE DEF T, g
    <3> QED
      BY <3>1, <3>2, <3>3, <3>4 DEF Entries
  <2>2. ObdFrame(Passed(D), i) = Admit([table |-> T, out |-> PassedOut(D)], g, i)
    <3> HIDE DEF T, g
    <3>1. Passed(D) = [table |-> T, out |-> PassedOut(D)]
      BY DEF Passed, T
    <3> QED
      BY <2>1, <3>1 DEF ObdFrame
  <2> DEFINE e == Emits(T[g], i)
             m == [last |-> T[g].per_id[i].last, seen |-> TRUE,
                   emitted_at |-> IF e THEN now ELSE T[g].per_id[i].emitted_at]
  <2>3. ObdFrame(Passed(D), i) =
          [table |-> Mark(T, g, i, m),
           out |-> IF e THEN PassedOut(D) \cup {[id |-> i, by |-> g]} ELSE PassedOut(D)]
    <3> HIDE DEF T, g
    <3> QED
      BY <1>0, <2>1, <2>2, AdmitMarks
  <2>4. Marked(g, i) = [last |-> st.last, seen |-> TRUE,
                        emitted_at |-> IF Emits(subscriptions[g], i) THEN now ELSE st.emitted_at]
    BY <1>0 DEF Marked
  <2>5. i \notin D => e = Emits(subscriptions[g], i) /\ m = Marked(g, i)
    <3> HIDE DEF T, g
    <3>1. i \notin D => e = Emits(subscriptions[g], i)
      BY <2>1 DEF Emits
    <3> HIDE DEF e
    <3> QED
      BY <2>1, <2>4, <3>1
  <2>6. i \in D => (e => Emits(subscriptions[g], i)) /\ m = Marked(g, i)
    <3> SUFFICES ASSUME i \in D
                 PROVE  (e => Emits(subscriptions[g], i)) /\ m = Marked(g, i)
      OBVIOUS
    <3> HIDE DEF T, g
    <3>1. /\ T[g].per_id[i].last = st.last /\ T[g].per_id[i].seen = TRUE
          /\ T[g].per_id[i].emitted_at = IF Emits(subscriptions[g], i) THEN now ELSE st.emitted_at
      BY <2>1, <2>4
    <3>2. e => Emits(subscriptions[g], i)
      BY <2>1, <3>1 DEF Emits, Marks
    <3> HIDE DEF e
    <3> QED
      BY <2>4, <3>1, <3>2
  <2>7. PassedTable(D \cup {i}) = Mark(T, g, i, m)
    BY <1>0, <1>2, <2>5, <2>6, PassOne
  <2>8. PassedOut(D \cup {i}) = IF e THEN PassedOut(D) \cup {[id |-> i, by |-> g]} ELSE PassedOut(D)
    <3> HIDE DEF e, T
    <3> QED
      BY <1>0, <1>2, <2>5, <2>6, OutOne
  <2> HIDE DEF T, e, m
  <2> QED
    BY <2>3, <2>7, <2>8 DEF Passed
<1> QED
  BY <1>1, <1>2

LEMMA BusPasses ==
    ASSUME TypeInv, NEW D, NEW i \in BusIds
    PROVE  BusFrame(Passed(D), i) = Passed(D \cup {i})
<1> DEFINE g == Rules0(i)
           T == PassedTable(D)
           O == PassedOut(D)
           st == subscriptions[g].per_id[i]
<1>0. i \in Ids /\ i \notin ObdIds /\ Every[i] \in Nat \ {0} /\ now \in Nat
  BY BusAssumption DEF Ids, TypeInv
<1>1. Passed(D) = [table |-> T, out |-> O]
  BY DEF Passed
<1>2. CASE Matching(subscriptions, i) = {}
  <2>1. Matching(T, i) = {}
    BY <1>2, PassedGovernor
  <2>2. Passed(D \cup {i}) = Passed(D)
    <3>1. ~Heeds(i)
      BY <1>2 DEF Heeds
    <3>2. PassedOut(D \cup {i}) = O
      BY <1>0, <1>2, OutOne
    <3>3. PassedTable(D \cup {i}) = T
      BY <1>0, <3>1, PassOne
    <3> QED
      BY <3>2, <3>3 DEF Passed
  <2> HIDE DEF T, O
  <2>3. BusFrame(Passed(D), i) = Passed(D)
    BY <1>1, <2>1 DEF BusFrame
  <2> QED
    BY <2>2, <2>3
<1>3. CASE Matching(subscriptions, i) # {}
  <2>1. Tabular(T) /\ DOMAIN T = Installed
    BY PassedIsTable
  <2>2. g \in Installed /\ Matching(T, i) # {} /\ Governing(T, i) = g
    BY <1>3, PassedGovernor
  <2>3. subscriptions[g] \in Entries /\ st \in Marks
    BY <1>0, <1>3, PassedRecord
  <2>4. /\ T[g].per_id[i] = IF i \in D /\ Heeds(i) THEN Marked(g, i) ELSE st
        /\ T[g].mode = subscriptions[g].mode /\ T[g].arg = subscriptions[g].arg
    BY <1>0, <1>3, PassedRecord
  <2>5. Heeds(i) <=> now - st.last >= Every[i]
    BY <1>3 DEF Heeds
  <2>6. BusFrame(Passed(D), i) =
          IF now - T[g].per_id[i].last < Every[i] THEN Passed(D)
          ELSE Admit([Passed(D) EXCEPT !.table[g].per_id[i].last = now], g, i)
    <3> HIDE DEF T, O, g
    <3> QED
      BY <1>1, <2>2 DEF BusFrame
  <2>7. CASE i \in D
    <3>1. Passed(D \cup {i}) = Passed(D)
      <4>1. D \cup {i} = D
        BY <2>7
      <4> QED
        BY <4>1
    <3>2. Heeds(i) => T[g].per_id[i].last = now
      BY <2>4, <2>7 DEF Marked
    <3>3. now - T[g].per_id[i].last < Every[i]
      <4> HIDE DEF T, g
      <4> QED
        BY <1>0, <2>3, <2>4, <2>5, <3>2 DEF Marks
    <3> QED
      BY <2>6, <3>1, <3>3
  <2>8. CASE i \notin D /\ ~Heeds(i)
    <3>1. T[g].per_id[i] = st
      BY <2>4, <2>8
    <3>2. now - T[g].per_id[i].last < Every[i]
      <4> HIDE DEF T, g
      <4> QED
        BY <1>0, <2>3, <2>5, <2>8, <3>1 DEF Marks
    <3>3. Passed(D \cup {i}) = Passed(D)
      BY <1>0, <1>3, <2>8, PassOne, OutOne DEF Passed
    <3> QED
      BY <2>6, <3>2, <3>3
  <2>9. CASE i \notin D /\ Heeds(i)
    <3> DEFINE l == [last |-> now, seen |-> st.seen, emitted_at |-> st.emitted_at]
               p == [T[g].per_id EXCEPT ![i].last = now]
               s == [T[g] EXCEPT !.per_id[i].last = now]
               U == [T EXCEPT ![g].per_id[i].last = now]
    <3>1. T[g].per_id[i] = st /\ T[g] \in Entries /\ T[g].per_id \in [Ids -> Marks]
      <4>1. T[g] \in Entries
        BY <2>1, <2>2 DEF Tabular
      <4> QED
        BY <2>4, <2>9, <4>1 DEF Entries
    <3>2. ~(now - T[g].per_id[i].last < Every[i])
      <4> HIDE DEF T, g
      <4> QED
        BY <1>0, <2>3, <2>5, <2>9, <3>1 DEF Marks
    <3>3. U = Mark(T, g, i, l)
      <4>1. [st EXCEPT !.last = now] = l
        <5> HIDE DEF st
        <5> QED
          BY <2>3 DEF Marks
      <4>2. p = [x \in Ids |-> IF x = i THEN l ELSE T[g].per_id[x]]
        <5> HIDE DEF st, T, g, l
        <5> QED
          BY <3>1, <4>1
      <4>3. s = [mode |-> T[g].mode, arg |-> T[g].arg, order |-> T[g].order, per_id |-> p]
        <5> HIDE DEF T, g
        <5> QED
          BY <3>1 DEF Entries
      <4>4. U = [j \in DOMAIN T |-> IF j # g THEN T[j] ELSE s]
        <5> HIDE DEF T, g
        <5> QED
          BY <2>1 DEF Tabular
      <4> HIDE DEF T, g, s, p, l, U
      <4> QED
        BY <4>2, <4>3, <4>4 DEF Mark
    <3>4. [Passed(D) EXCEPT !.table[g].per_id[i].last = now] = [table |-> U, out |-> O]
      <4> HIDE DEF T, g, O
      <4> QED
        BY <1>1
    <3>5. l \in Marks /\ g \in DOMAIN T
      BY <1>0, <2>1, <2>2, <2>3 DEF Marks
    <3>6. /\ Tabular(U) /\ DOMAIN U = DOMAIN T /\ U[g].per_id[i] = l
          /\ U[g].mode = T[g].mode /\ U[g].arg = T[g].arg
          /\ \A n : Mark(U, g, i, n) = Mark(T, g, i, n)
      <4> HIDE DEF T, g, l, U
      <4>1. Tabular(U) /\ DOMAIN U = DOMAIN T /\ U[g].per_id[i] = l
        BY <1>0, <2>1, <3>3, <3>5, MarkIsTable
      <4>2. U[g].mode = T[g].mode /\ U[g].arg = T[g].arg
        BY <1>0, <2>1, <3>3, <3>5, MarkIsTable
      <4>3. ASSUME NEW n PROVE Mark(U, g, i, n) = Mark(T, g, i, n)
        <5>1. Mark(Mark(T, g, i, l), g, i, n) = Mark(T, g, i, n)
          BY <1>0, <2>1, <3>5, MarkIsTable
        <5> QED
          BY <3>3, <5>1
      <4> QED
        BY <4>1, <4>2, <4>3
    <3> DEFINE e == Emits(subscriptions[g], i)
    <3>7. Emits(U[g], i) = e
      <4> HIDE DEF U, T, g
      <4> QED
        BY <2>4, <3>6 DEF Emits
    <3>8. Admit([table |-> U, out |-> O], g, i) =
            [table |-> Mark(U, g, i, [last |-> now, seen |-> TRUE,
                                      emitted_at |-> IF e THEN now ELSE st.emitted_at]),
             out |-> IF e THEN O \cup {[id |-> i, by |-> g]} ELSE O]
      <4>1. l.last = now /\ l.emitted_at = st.emitted_at
        OBVIOUS
      <4> HIDE DEF U, T, g, O, e, l
      <4> QED
        BY <1>0, <3>5, <3>6, <3>7, <4>1, AdmitMarks
    <3>9. Marked(g, i) = [last |-> now, seen |-> TRUE,
                          emitted_at |-> IF e THEN now ELSE st.emitted_at]
      BY DEF Marked
    <3>10. Mark(U, g, i, Marked(g, i)) = PassedTable(D \cup {i})
      <4>1. PassedTable(D \cup {i}) = Mark(T, g, i, Marked(g, i))
        BY <1>0, <2>9, PassOne
      <4> HIDE DEF U, T, g
      <4> QED
        BY <3>6, <4>1
    <3>11. PassedOut(D \cup {i}) = IF e THEN O \cup {[id |-> i, by |-> g]} ELSE O
      BY <2>9, OutOne
    <3> HIDE DEF U, T, g, O, e, st
    <3> QED
      BY <2>6, <3>2, <3>4, <3>8, <3>9, <3>10, <3>11 DEF Passed
  <2> QED
    BY <2>7, <2>8, <2>9
<1> QED
  BY <1>2, <1>3

LEMMA PassNone ==
    ASSUME TypeInv
    PROVE  Passed({}) = [table |-> subscriptions, out |-> {}]
<1>1. PassedOut({}) = {}
  BY DEF PassedOut
<1>2. PassedTable({}) = subscriptions
  <2> DEFINE p(k) == [i \in Ids |-> subscriptions[k].per_id[i]]
             s(k) == [mode |-> subscriptions[k].mode, arg |-> subscriptions[k].arg,
                      order |-> subscriptions[k].order, per_id |-> p(k)]
  <2>1. PassedTable({}) = [k \in Installed |-> s(k)]
    BY DEF PassedTable
  <2>2. ASSUME NEW k \in Installed PROVE s(k) = subscriptions[k]
    <3>1. subscriptions[k] \in Entries
      BY <2>2 DEF TypeInv, Tabular, Installed
    <3>2. p(k) = subscriptions[k].per_id
      BY <3>1 DEF Entries
    <3> HIDE DEF p
    <3> QED
      BY <3>1, <3>2 DEF Entries
  <2> HIDE DEF s
  <2> QED
    BY <2>1, <2>2 DEF TypeInv, Tabular, Installed
<1> QED
  BY <1>1, <1>2 DEF Passed

\* One frame of a poll, and the identifiers of the first n.
OneFrame(w, i) == IF i \in ObdIds THEN ObdFrame(w, i) ELSE BusFrame(w, i)
First(frames, n) == {frames[m] : m \in 1..n}

LEMMA FramePasses ==
    ASSUME TypeInv, NEW frames \in Seq(Ids), NEW n \in 1..Len(frames)
    PROVE  OneFrame(Passed(First(frames, n - 1)), frames[n]) = Passed(First(frames, n))
<1>1. frames[n] \in Ids
  OBVIOUS
<1>2. First(frames, n) = First(frames, n - 1) \cup {frames[n]}
  <2>1. 1..n = 1..(n - 1) \cup {n}
    OBVIOUS
  <2> QED
    BY <2>1 DEF First
<1>3. \A D : OneFrame(Passed(D), frames[n]) = Passed(D \cup {frames[n]})
  <2> SUFFICES ASSUME NEW D PROVE OneFrame(Passed(D), frames[n]) = Passed(D \cup {frames[n]})
    OBVIOUS
  <2>1. CASE frames[n] \in ObdIds
    BY <2>1, ObdPasses DEF OneFrame
  <2>2. CASE frames[n] \notin ObdIds
    BY <1>1, <2>2, BusPasses DEF OneFrame, Ids
  <2> QED
    BY <2>1, <2>2
<1> QED
  BY <1>2, <1>3

\* The frames of a poll, in turn, leave the closed form of all of them.
LEMMA FramesPass ==
    ASSUME TypeInv, NEW frames \in Seq(Ids)
    PROVE  LET after[n \in 0..Len(frames)] ==
                   IF n = 0 THEN [table |-> subscriptions, out |-> {}]
                   ELSE IF frames[n] \in ObdIds THEN ObdFrame(after[n - 1], frames[n])
                   ELSE BusFrame(after[n - 1], frames[n])
           IN  after[Len(frames)] = Passed(ToSet(frames))
<1> DEFINE Equation(f) ==
              f = [n \in 0..Len(frames) |->
                      IF n = 0 THEN [table |-> subscriptions, out |-> {}]
                      ELSE IF frames[n] \in ObdIds THEN ObdFrame(f[n - 1], frames[n])
                      ELSE BusFrame(f[n - 1], frames[n])]
           g == [n \in 0..Len(frames) |-> Passed(First(frames, n))]
           a == CHOOSE f : Equation(f)
<1>1. First(frames, 0) = {}
  BY DEF First
<1>2. Equation(g)
  <2>1. ASSUME NEW n \in 0..Len(frames)
        PROVE  g[n] = IF n = 0 THEN [table |-> subscriptions, out |-> {}]
                      ELSE IF frames[n] \in ObdIds THEN ObdFrame(g[n - 1], frames[n])
                      ELSE BusFrame(g[n - 1], frames[n])
    <3>1. CASE n = 0
      BY <1>1, <3>1, PassNone
    <3>2. CASE n # 0
      <4>1. n \in 1..Len(frames) /\ g[n - 1] = Passed(First(frames, n - 1))
        BY <3>2
      <4>2. OneFrame(g[n - 1], frames[n]) = Passed(First(frames, n))
        BY <4>1, FramePasses
      <4> QED
        BY <3>2, <4>1, <4>2 DEF OneFrame
    <3> QED
      BY <3>1, <3>2
  <2> QED
    BY <2>1, Zenon
<1>3. Equation(a)
  <2> HIDE DEF Equation, g
  <2> QED
    BY <1>2, Zenon
<1> HIDE DEF a
<1>8. ASSUME NEW n \in 0..Len(frames)
      PROVE  a[n] = IF n = 0 THEN [table |-> subscriptions, out |-> {}]
                    ELSE OneFrame(a[n - 1], frames[n])
  <2> DEFINE e(f, m) == IF m = 0 THEN [table |-> subscriptions, out |-> {}]
                        ELSE OneFrame(f[m - 1], frames[m])
  <2>1. a = [m \in 0..Len(frames) |-> e(a, m)]
    BY <1>3, Zenon DEF OneFrame
  <2> HIDE DEF e
  <2>2. a[n] = e(a, n)
    BY <2>1, Zenon
  <2> QED
    BY <2>2 DEF e
<1>4. a[0] = Passed(First(frames, 0))
  <2>1. 0 \in 0..Len(frames)
    OBVIOUS
  <2>2. a[0] = [table |-> subscriptions, out |-> {}]
    BY <1>8, <2>1
  <2> QED
    BY <1>1, <2>2, PassNone
<1>5. \A n \in 1..Len(frames) : a[n] = OneFrame(a[n - 1], frames[n])
  BY <1>8
<1>6. \A n \in 0..Len(frames) : a[n] = Passed(First(frames, n))
  <2> DEFINE Bad == {n \in 0..Len(frames) : a[n] # Passed(First(frames, n))}
  <2>1. SUFFICES ASSUME Bad # {} PROVE FALSE
    OBVIOUS
  <2> HIDE DEF a
  <2>2. Bad \in SUBSET Nat
    OBVIOUS
  <2>3. PICK n \in Bad : \A u \in Bad : n <= u
    <3> HIDE DEF Bad
    <3> QED
      BY <2>1, <2>2, LeastOf
  <2>4. n \in 1..Len(frames) /\ n - 1 \in 0..Len(frames)
    BY <1>4, <2>3
  <2>5. a[n - 1] = Passed(First(frames, n - 1))
    BY <2>3, <2>4
  <2>6. a[n] = Passed(First(frames, n))
    BY <1>5, <2>4, <2>5, FramePasses
  <2> QED
    BY <2>3, <2>6
<1>7. a[Len(frames)] = Passed(ToSet(frames))
  <2>1. First(frames, Len(frames)) = ToSet(frames)
    BY DEF First, ToSet
  <2>2. a[Len(frames)] = Passed(First(frames, Len(frames)))
    BY <1>6
  <2> QED
    BY <2>1, <2>2
<1> QED
  BY <1>7 DEF a

\* Every broadcast identifier is on the bus of an awake car, once.
LEMMA BusOrder ==
    SetToSeq(BusIds) \in Seq(BusIds) /\ ToSet(SetToSeq(BusIds)) = BusIds
<1> DEFINE n == Cardinality(BusIds)
           f == SetToSeq(BusIds)
<1>1. n \in Nat /\ ExistsBijection(1..n, BusIds)
  BY FS_CardinalityType, BusAssumption
<1>2. \E g \in [1..n -> BusIds] : IsInjective(g)
  BY <1>1 DEF ExistsBijection, Bijection, Injection, IsInjective
<1>3. f \in [1..n -> BusIds] /\ IsInjective(f)
  BY <1>2, Zenon DEF SetToSeq
<1>4. f \in Injection(1..n, BusIds)
  BY <1>3, Zenon DEF Injection
<1>5. IsFiniteSet(1..n) /\ Cardinality(1..n) = n
  BY <1>1, FS_Interval
<1> HIDE DEF f
<1>6. f \in Surjection(1..n, BusIds)
  BY <1>4, <1>5, FS_Injection, BusAssumption
<1>7. \A i \in BusIds : \E m \in 1..n : f[m] = i
  BY <1>6, Zenon DEF Surjection
<1>8. ToSet(f) = BusIds
  BY <1>3, <1>7 DEF ToSet
<1>9. f \in Seq(BusIds)
  BY <1>1, <1>3
<1> QED
  BY <1>8, <1>9 DEF f

LEMMA OnTheBusSet ==
    ASSUME TypeInv, NEW awake
    PROVE  /\ OnTheBus(awake) \in Seq(Ids)
           /\ ToSet(OnTheBus(awake)) = ToSet(obd_rx) \cup IF awake THEN BusIds ELSE {}
<1> DEFINE rx == obd_rx
           bus == IF awake THEN SetToSeq(BusIds) ELSE <<>>
<1>1. /\ rx \in Seq(Ids) /\ bus \in Seq(Ids)
      /\ ToSet(bus) = IF awake THEN BusIds ELSE {}
  <2>1. rx \in Seq(Ids) /\ SetToSeq(BusIds) \in Seq(Ids) /\ <<>> \in Seq(Ids)
    BY BusOrder DEF TypeInv, Ids
  <2>2. ToSet(<<>>) = {}
    BY DEF ToSet
  <2> QED
    BY <2>1, <2>2, BusOrder
<1> HIDE DEF rx, bus
<1>2. rx \o bus \in Seq(Ids) /\ ToSet(rx \o bus) = ToSet(rx) \cup ToSet(bus)
  <2>1. rx \o bus \in Seq(Ids)
    BY <1>1
  <2>2. ASSUME NEW x PROVE x \in ToSet(rx \o bus) <=> x \in ToSet(rx) \cup ToSet(bus)
    <3>1. \A q \in Seq(Ids) : x \in ToSet(q) <=> \E m \in 1..Len(q) : q[m] = x
      BY DEF ToSet
    <3>2. Len(rx \o bus) = Len(rx) + Len(bus) /\ Len(rx) \in Nat /\ Len(bus) \in Nat
      BY <1>1
    <3>3. \A m \in 1..Len(rx) : (rx \o bus)[m] = rx[m] /\ m \in 1..Len(rx \o bus)
      BY <1>1, <3>2
    <3>4. \A m \in 1..Len(bus) : /\ (rx \o bus)[Len(rx) + m] = bus[m]
                                /\ Len(rx) + m \in 1..Len(rx \o bus)
      BY <1>1, <3>2
    <3>5. \A m \in 1..Len(rx \o bus) :
              \/ m \in 1..Len(rx) /\ (rx \o bus)[m] = rx[m]
              \/ m - Len(rx) \in 1..Len(bus) /\ (rx \o bus)[m] = bus[m - Len(rx)]
      BY <1>1, <3>2
    <3> QED
      BY <1>1, <2>1, <3>1, <3>3, <3>4, <3>5
  <2> QED
    BY <2>1, <2>2
<1> QED
  BY <1>1, <1>2 DEF OnTheBus, rx, bus

\* What a whole poll, or a stop, leaves.
LEMMA FramesTaken ==
    ASSUME TypeInv, NEW frames \in Seq(Ids), TakeIn(frames)
    PROVE  /\ subscriptions' = PassedTable(ToSet(frames)) /\ out' = PassedOut(ToSet(frames))
           /\ obd_rx' = <<>> /\ UNCHANGED <<now, install_counter>>
           /\ ToSet(frames) \in SUBSET Ids
<1>1. Admitted(frames) = Passed(ToSet(frames))
  BY FramesPass DEF Admitted
<1>2. ToSet(frames) \in SUBSET Ids
  BY DEF ToSet
<1> QED
  BY <1>1, <1>2 DEF TakeIn, Passed

-----------------------------------------------------------------------------
(* The steps *)

LEMMA RulesType == Rules \subseteq [mode : {"every_frame", "periodic"}, arg : Nat]
  BY RuleAssumption

LEMMA TableInit == Init => TypeInv /\ BoolInv
<1> SUFFICES ASSUME Init PROVE TypeInv /\ BoolInv
  OBVIOUS
<1>1. Installed = {} /\ subscriptions = <<>>
  BY DEF Init, Installed
<1>2. Tabular(subscriptions)
  BY <1>1 DEF Tabular, Ordered, Installed
<1>3. BoolInv
  BY DEF Init, BoolInv
<1> QED
  BY <1>1, <1>2, <1>3, FS_EmptySet, TableBounds DEF Init, TypeInv

\* An update keeps the number, takes the rule, and re-arms or not.
LEMMA UpdateType ==
    ASSUME TypeInv, NEW k \in Installed, NEW r \in Rules
    PROVE  LET u == Updated(subscriptions[k], r)
           IN  /\ u \in Entries /\ u.order = subscriptions[k].order
               /\ u.mode = r.mode /\ u.arg = r.arg /\ [mode |-> u.mode, arg |-> u.arg] = r
               /\ r = [mode |-> subscriptions[k].mode, arg |-> subscriptions[k].arg] =>
                      u.per_id = subscriptions[k].per_id
               /\ \A i \in Ids :
                      /\ u.per_id[i].last = subscriptions[k].per_id[i].last
                      /\ r # [mode |-> subscriptions[k].mode, arg |-> subscriptions[k].arg] =>
                            u.per_id[i].seen = FALSE /\ u.per_id[i].emitted_at = 0
<1> DEFINE sub == subscriptions[k]
           u == Updated(sub, r)
           p == Rearmed(sub, r)
<1>1. sub \in Entries
  BY DEF TypeInv, Tabular, Installed
<1>2. r.mode \in {"every_frame", "periodic"} /\ r.arg \in Nat /\ [mode |-> r.mode, arg |-> r.arg] = r
  BY RulesType
<1>3. CASE r = [mode |-> sub.mode, arg |-> sub.arg]
  <2>1. p = sub.per_id
    BY <1>3 DEF Rearmed
  <2> HIDE DEF sub, p
  <2>2. u = [mode |-> r.mode, arg |-> r.arg, order |-> sub.order, per_id |-> p]
    BY DEF Updated, p
  <2> HIDE DEF u
  <2> QED
    BY <1>1, <1>2, <1>3, <2>1, <2>2 DEF Entries, u, sub
<1>4. CASE r # [mode |-> sub.mode, arg |-> sub.arg]
  <2>1. p = [i \in Ids |-> [last |-> sub.per_id[i].last, seen |-> FALSE, emitted_at |-> 0]]
    BY <1>4 DEF Rearmed
  <2>2. ASSUME NEW i \in Ids
        PROVE  /\ p[i] \in Marks /\ p[i].last = sub.per_id[i].last
               /\ p[i].seen = FALSE /\ p[i].emitted_at = 0
    <3>1. sub.per_id[i] \in Marks
      BY <1>1 DEF Entries
    <3>2. p[i] = [last |-> sub.per_id[i].last, seen |-> FALSE, emitted_at |-> 0]
      BY <2>1
    <3> HIDE DEF p, sub
    <3> QED
      BY <3>1, <3>2 DEF Marks
  <2> HIDE DEF p
  <2>3. p \in [Ids -> Marks]
    BY <2>1, <2>2
  <2> HIDE DEF sub
  <2>4. u = [mode |-> r.mode, arg |-> r.arg, order |-> sub.order, per_id |-> p]
    BY DEF Updated, p
  <2> HIDE DEF u
  <2>5. /\ u.order = sub.order /\ u.mode = r.mode /\ u.arg = r.arg /\ u.per_id = p
        /\ [mode |-> u.mode, arg |-> u.arg] = r
    BY <1>2, <2>4
  <2>6. u \in Entries
    BY <1>1, <1>2, <2>3, <2>4 DEF Entries
  <2> QED
    BY <1>4, <2>2, <2>5, <2>6 DEF u, sub
<1> QED
  BY <1>3, <1>4

\* The type invariant of a step that leaves the table as it is, or takes entries away.
LEMMA FewerEntries ==
    ASSUME TypeInv, NEW K, subscriptions' = [j \in Installed \ K |-> subscriptions[j]],
           now' \in now..MaxTime, install_counter' = install_counter,
           obd_rx' \in Seq(ObdIds), \A f \in out' : f.id \in Ids
    PROVE  TypeInv'
<1>0. Installed' = Installed \ K
  BY DEF Installed
<1>1. Tabular(subscriptions')
  BY DEF TypeInv, Tabular, Ordered, Installed
<1>2. IsFiniteSet(Installed') /\ Cardinality(Installed') <= Slots
  <2>1. Installed' \in SUBSET Installed
    BY <1>0
  <2>2. Cardinality(Installed') \in Nat /\ Cardinality(Installed) \in Nat
    BY <2>1, FS_Subset, FS_CardinalityType DEF TypeInv
  <2> QED
    BY <2>1, <2>2, FS_Subset, TableBounds DEF TypeInv
<1>3. ASSUME NEW k \in Installed'
      PROVE  /\ [mode |-> subscriptions'[k].mode, arg |-> subscriptions'[k].arg] \in Rules
             /\ subscriptions'[k].order \in 1..install_counter'
             /\ \A i \in Ids : /\ subscriptions'[k].per_id[i].last <= now'
                               /\ subscriptions'[k].per_id[i].emitted_at <= now'
  <2>1. k \in Installed /\ subscriptions'[k] = subscriptions[k]
    BY <1>0
  <2>2. subscriptions[k] \in Entries
    BY <2>1 DEF TypeInv, Tabular, Installed
  <2>3. \A i \in Ids : /\ subscriptions[k].per_id[i].last \in Nat
                      /\ subscriptions[k].per_id[i].emitted_at \in Nat
    BY <2>2 DEF Entries, Marks
  <2>4. now \in Nat /\ now' \in Nat /\ now <= now' /\ install_counter' = install_counter
    BY DEF TypeInv
  <2>5. \A i \in Ids : /\ subscriptions[k].per_id[i].last <= now'
                      /\ subscriptions[k].per_id[i].emitted_at <= now'
    <3>1. \A i \in Ids : /\ subscriptions[k].per_id[i].last <= now
                        /\ subscriptions[k].per_id[i].emitted_at <= now
      BY <2>1 DEF TypeInv
    <3> QED
      BY <2>3, <2>4, <3>1
  <2>6. /\ [mode |-> subscriptions[k].mode, arg |-> subscriptions[k].arg] \in Rules
        /\ subscriptions[k].order \in 1..install_counter'
    BY <2>1, <2>4 DEF TypeInv
  <2> QED
    BY <2>1, <2>5, <2>6
<1>4. now' \in 0..MaxTime /\ install_counter' \in 0..MaxInstalls
  BY TableBounds DEF TypeInv
<1> QED
  BY <1>1, <1>2, <1>3, <1>4 DEF TypeInv

LEMMA SameEntries ==
    ASSUME TypeInv, subscriptions' = subscriptions, now' \in now..MaxTime,
           install_counter' = install_counter, obd_rx' \in Seq(ObdIds),
           \A f \in out' : f.id \in Ids
    PROVE  TypeInv'
<1>1. subscriptions' = [j \in Installed \ {} |-> subscriptions[j]]
  BY DEF TypeInv, Tabular, Installed
<1> QED
  BY <1>1, FewerEntries

LEMMA SubscribeType ==
    ASSUME TypeInv, NEW p \in Named, NEW r \in Rules, Subscribe(p, r)
    PROVE  TypeInv'
<1> DEFINE k == Identity(p)
<1>0. /\ k \in Keys /\ out' = {} /\ now' = now /\ obd_rx' = obd_rx
      /\ now \in 0..MaxTime /\ install_counter \in 0..MaxInstalls
      /\ Tabular(subscriptions) /\ Installed = DOMAIN subscriptions
  BY DEF Subscribe, Keys, TypeInv, Installed
<1>1. CASE subscriptions' = subscriptions /\ install_counter' = install_counter
  BY <1>0, <1>1, SameEntries, TableBounds DEF TypeInv
<1>2. CASE /\ k \in Installed /\ install_counter' = install_counter
           /\ subscriptions' = [subscriptions EXCEPT ![k] = Updated(@, r)]
  <2> DEFINE u == Updated(subscriptions[k], r)
  <2>1. /\ u \in Entries /\ u.order = subscriptions[k].order
        /\ [mode |-> u.mode, arg |-> u.arg] = r
    BY <1>2, UpdateType
  <2>2. /\ DOMAIN subscriptions' = Installed /\ Installed' = Installed
        /\ subscriptions' = [j \in Installed |-> IF j = k THEN u ELSE subscriptions[j]]
    BY <1>0, <1>2 DEF Tabular, Installed
  <2>3. \A i \in Ids : /\ u.per_id[i].last <= now /\ u.per_id[i].emitted_at <= now
    <3> SUFFICES ASSUME NEW i \in Ids
                 PROVE  u.per_id[i].last <= now /\ u.per_id[i].emitted_at <= now
      OBVIOUS
    <3>1. /\ subscriptions[k].per_id[i].last <= now /\ subscriptions[k].per_id[i].emitted_at <= now
      BY <1>2 DEF TypeInv
    <3>2. /\ u.per_id[i].last = subscriptions[k].per_id[i].last
          /\ u.per_id[i].emitted_at \in {0, subscriptions[k].per_id[i].emitted_at}
      BY <1>2, UpdateType
    <3> QED
      BY <1>0, <3>1, <3>2
  <2> HIDE DEF k, u
  <2>4. Tabular(subscriptions')
    <3>1. \A j \in Installed : /\ subscriptions'[j] \in Entries
                              /\ subscriptions'[j].order = subscriptions[j].order
      BY <1>0, <2>1, <2>2 DEF Tabular
    <3> QED
      BY <1>0, <2>2, <3>1 DEF Tabular, Ordered
  <2>5. ASSUME NEW j \in Installed
        PROVE  /\ [mode |-> subscriptions'[j].mode, arg |-> subscriptions'[j].arg] \in Rules
               /\ subscriptions'[j].order \in 1..install_counter
               /\ \A i \in Ids : /\ subscriptions'[j].per_id[i].last <= now
                                 /\ subscriptions'[j].per_id[i].emitted_at <= now
    <3>1. CASE j = k
      BY <2>1, <2>2, <2>3, <3>1 DEF TypeInv
    <3>2. CASE j # k
      BY <2>2, <3>2 DEF TypeInv
    <3> QED
      BY <3>1, <3>2
  <2> QED
    BY <1>0, <1>2, <2>2, <2>4, <2>5 DEF TypeInv
<1>3. CASE /\ k \notin Installed /\ FreeSlot /\ install_counter < MaxInstalls
           /\ install_counter' = install_counter + 1
           /\ subscriptions' = [j \in Installed \cup {k} |-> IF j \in Installed
                  THEN subscriptions[j]
                  ELSE [mode |-> r.mode, arg |-> r.arg,
                        order |-> install_counter', per_id |-> Fresh]]
  <2> DEFINE n == [mode |-> r.mode, arg |-> r.arg, order |-> install_counter + 1,
                   per_id |-> Fresh]
  <2>1. /\ n \in Entries /\ n.order = install_counter + 1
        /\ [mode |-> n.mode, arg |-> n.arg] = r
        /\ \A i \in Ids : n.per_id[i].last = 0 /\ n.per_id[i].emitted_at = 0
    <3>1. Fresh \in [Ids -> Marks]
      BY DEF Fresh, Marks
    <3>2. r.mode \in {"every_frame", "periodic"} /\ r.arg \in Nat /\ [mode |-> r.mode, arg |-> r.arg] = r
      BY RulesType
    <3>3. \A i \in Ids : Fresh[i].last = 0 /\ Fresh[i].emitted_at = 0
      BY DEF Fresh
    <3>4. install_counter + 1 \in Nat
      BY <1>0
    <3> QED
      BY <3>1, <3>2, <3>3, <3>4 DEF Entries
  <2> HIDE DEF n, k
  <2>2. /\ Installed' = Installed \cup {k}
        /\ \A j \in Installed : subscriptions'[j] = subscriptions[j]
        /\ subscriptions'[k] = n /\ subscriptions' = [j \in Installed' |-> subscriptions'[j]]
    BY <1>3 DEF Installed, n
  <2>3. Tabular(subscriptions')
    <3>1. \A j \in Installed : subscriptions[j] \in Entries /\ subscriptions[j].order \in 1..install_counter
      BY <1>0 DEF TypeInv, Tabular
    <3>2. \A j \in Installed' : /\ subscriptions'[j] \in Entries /\ subscriptions'[j].order \in Nat
                               /\ (j # k => subscriptions'[j].order \in 1..install_counter)
      BY <1>0, <2>1, <2>2, <3>1
    <3>3. \A j, h \in Installed' : subscriptions'[j].order = subscriptions'[h].order => j = h
      BY <1>0, <2>1, <2>2, <3>1 DEF Tabular, Ordered
    <3> QED
      BY <1>0, <2>2, <3>2, <3>3 DEF Tabular, Ordered, Installed
  <2>4. IsFiniteSet(Installed') /\ Cardinality(Installed') <= Slots
    <3>1. Cardinality(Installed') = Cardinality(Installed) + 1 /\ IsFiniteSet(Installed')
      BY <1>3, <2>2, FS_AddElement DEF TypeInv
    <3>2. Cardinality(Installed) \in Nat
      BY FS_CardinalityType DEF TypeInv
    <3> QED
      BY <1>3, <3>1, <3>2, TableBounds DEF FreeSlot
  <2>5. ASSUME NEW j \in Installed'
        PROVE  /\ [mode |-> subscriptions'[j].mode, arg |-> subscriptions'[j].arg] \in Rules
               /\ subscriptions'[j].order \in 1..(install_counter + 1)
               /\ \A i \in Ids : /\ subscriptions'[j].per_id[i].last <= now
                                 /\ subscriptions'[j].per_id[i].emitted_at <= now
    <3>1. CASE j = k
      BY <1>0, <2>1, <2>2, <3>1
    <3>2. CASE j # k
      BY <1>0, <2>2, <3>2 DEF TypeInv
    <3> QED
      BY <3>1, <3>2
  <2>6. install_counter' \in 0..MaxInstalls
    BY <1>0, <1>3, TableBounds
  <2>7. now' \in 0..MaxTime /\ obd_rx' \in Seq(ObdIds) /\ \A f \in out' : f.id \in Ids
    BY <1>0 DEF TypeInv
  <2>8. \A j \in Installed' :
           /\ [mode |-> subscriptions'[j].mode, arg |-> subscriptions'[j].arg] \in Rules
           /\ subscriptions'[j].order \in 1..install_counter'
           /\ \A i \in Ids : /\ subscriptions'[j].per_id[i].last <= now'
                             /\ subscriptions'[j].per_id[i].emitted_at <= now'
    BY <1>0, <1>3, <2>5
  <2> QED
    BY <2>3, <2>4, <2>6, <2>7, <2>8 DEF TypeInv
<1> QED
  BY <1>1, <1>2, <1>3 DEF Subscribe

LEMMA TakenType ==
    ASSUME TypeInv, NEW frames \in Seq(Ids), TakeIn(frames)
    PROVE  TypeInv'
<1>1. PICK D \in SUBSET Ids :
          /\ subscriptions' = PassedTable(D) /\ out' = PassedOut(D)
          /\ obd_rx' = <<>> /\ UNCHANGED <<now, install_counter>>
  BY FramesTaken
<1>2. /\ Tabular(subscriptions') /\ Installed' = Installed
      /\ \A k \in Installed : subscriptions'[k].order = subscriptions[k].order
  BY <1>1, PassedIsTable DEF Installed
<1>3. ASSUME NEW k \in Installed
      PROVE  /\ subscriptions'[k].mode = subscriptions[k].mode
             /\ subscriptions'[k].arg = subscriptions[k].arg
             /\ \A i \in Ids : /\ subscriptions'[k].per_id[i].last <= now
                               /\ subscriptions'[k].per_id[i].emitted_at <= now
  <2>1. subscriptions'[k] =
           [mode |-> subscriptions[k].mode, arg |-> subscriptions[k].arg,
            order |-> subscriptions[k].order,
            per_id |-> [i \in Ids |-> IF i \in D /\ Heeds(i) /\ k = Rules0(i) THEN Marked(k, i)
                                     ELSE subscriptions[k].per_id[i]]]
    BY <1>1 DEF PassedTable
  <2>2. \A i \in Ids : subscriptions[k].per_id[i].last <= now /\ subscriptions[k].per_id[i].emitted_at <= now
    BY DEF TypeInv
  <2>3. now \in Nat
    BY DEF TypeInv
  <2>4. \A i \in Ids : Marked(k, i).last <= now /\ Marked(k, i).emitted_at <= now
    BY <2>2, <2>3 DEF Marked
  <2> QED
    BY <2>1, <2>2, <2>4
<1>4. \A f \in out' : f.id \in Ids
  BY <1>1 DEF PassedOut
<1>5. \A k \in Installed' : /\ [mode |-> subscriptions'[k].mode, arg |-> subscriptions'[k].arg] \in Rules
                           /\ subscriptions'[k].order \in 1..install_counter
  BY <1>2, <1>3 DEF TypeInv
<1>6. /\ now' = now /\ install_counter' = install_counter /\ obd_rx' \in Seq(ObdIds)
      /\ now \in 0..MaxTime /\ install_counter \in 0..MaxInstalls
      /\ IsFiniteSet(Installed) /\ Cardinality(Installed) <= Slots
  BY <1>1 DEF TypeInv
<1> QED
  BY <1>2, <1>3, <1>4, <1>5, <1>6 DEF TypeInv

LEMMA TableNext == TypeInv /\ BoolInv /\ [Next]_vars => (TypeInv /\ BoolInv)'
<1> SUFFICES ASSUME TypeInv, BoolInv, [Next]_vars PROVE TypeInv' /\ BoolInv'
  OBVIOUS
<1>0. /\ now \in 0..MaxTime /\ MaxTime \in Nat /\ now \in now..MaxTime /\ obd_rx \in Seq(ObdIds)
      /\ <<>> \in Seq(ObdIds) /\ \A f \in out : f.id \in Ids
  BY TableBounds DEF TypeInv
<1>1. ASSUME NEW p \in Named, Unsubscribe(p) PROVE TypeInv' /\ BoolInv'
  <2>1. BoolInv'
    BY <1>1, Zenon DEF Unsubscribe, BoolInv
  <2>2. subscriptions' = [j \in Installed \ {Identity(p)} |-> subscriptions[j]]
    BY <1>1 DEF Unsubscribe
  <2>3. /\ now' = now /\ install_counter' = install_counter /\ obd_rx' = obd_rx /\ out' = {}
    BY <1>1 DEF Unsubscribe
  <2> QED
    BY <1>0, <2>1, <2>2, <2>3, FewerEntries
<1>2. ASSUME NEW p \in Named, NEW r \in Rules, Subscribe(p, r) PROVE TypeInv' /\ BoolInv'
  <2>1. BoolInv'
    BY <1>2, Zenon DEF Subscribe, BoolInv
  <2> QED
    BY <1>2, <2>1, SubscribeType
<1>3. CASE Reset
  <2>1. BoolInv'
    BY <1>3, Zenon DEF Reset, BoolInv
  <2>2. subscriptions' = [j \in Installed \ Installed |-> subscriptions[j]]
    BY <1>3 DEF Reset
  <2>3. /\ now' = now /\ install_counter' = install_counter /\ obd_rx' = <<>> /\ out' = {}
    BY <1>3 DEF Reset
  <2> QED
    BY <1>0, <2>1, <2>2, <2>3, FewerEntries
<1>4. CASE PollSet
  <2>1. BoolInv'
    BY <1>4, Zenon DEF PollSet, BoolInv
  <2> QED
    BY <1>0, <1>4, <2>1, SameEntries DEF PollSet
<1>5. CASE Tick
  <2>1. BoolInv'
    BY <1>5, Zenon DEF Tick, BoolInv
  <2>2. now' \in now..MaxTime
    BY <1>0, <1>5 DEF Tick
  <2> QED
    BY <1>0, <1>5, <2>1, <2>2, SameEntries DEF Tick
<1>6. ASSUME NEW awake \in BOOLEAN, Poll(awake) PROVE TypeInv' /\ BoolInv'
  <2>1. BoolInv'
    BY <1>6, Zenon DEF BoolInv, Poll
  <2> QED
    BY <1>6, <2>1, OnTheBusSet, TakenType DEF Poll
<1>7. ASSUME NEW i \in ObdIds, Respond(i) PROVE TypeInv' /\ BoolInv'
  <2>1. BoolInv'
    BY <1>7, Zenon DEF Respond, BoolInv
  <2>2. obd_rx' \in Seq(ObdIds)
    BY <1>0, <1>7 DEF Respond
  <2> QED
    BY <1>0, <1>7, <2>1, <2>2, SameEntries DEF Respond
<1>8. CASE UNCHANGED vars
  <2>1. BoolInv'
    BY <1>8, Zenon DEF vars, BoolInv
  <2> QED
    BY <1>0, <1>8, <2>1, SameEntries DEF vars
<1>9. CASE PollStop
  <2>1. BoolInv'
    BY <1>9, Zenon DEF BoolInv, PollStop
  <2>2. obd_rx \in Seq(Ids)
    BY <1>0 DEF Ids
  <2> QED
    BY <1>9, <2>1, <2>2, TakenType DEF PollStop
<1> QED
  BY <1>1, <1>2, <1>3, <1>4, <1>5, <1>6, <1>7, <1>8, <1>9 DEF Next

LEMMA TableInvariant == Spec => [](TypeInv /\ BoolInv)
  BY TableInit, TableNext, PTL DEF Spec

\* The table never holds more than its slots, whatever is installed, retried or removed, and
\* only pairs stripped to the bits an identifier has; its order numbers are ones handed out
\* and its times are of the past.
THEOREM TypeCorrect == Spec => []TypeOK
<1>1. TypeInv /\ BoolInv => TypeOK
  <2> SUFFICES ASSUME TypeInv, BoolInv PROVE TypeOK
    OBVIOUS
  <2>1. ASSUME NEW k \in Installed
        PROVE  subscriptions[k].per_id \in
                  [Ids -> [last : 0..now, seen : BOOLEAN, emitted_at : 0..now]]
    <3> DEFINE p == subscriptions[k].per_id
    <3>1. subscriptions[k] \in Entries
      BY DEF TypeInv, Tabular, Installed
    <3>2. p \in [Ids -> Marks] /\ now \in Nat
      BY <3>1 DEF Entries, TypeInv
    <3>3. \A i \in Ids : p[i].last <= now /\ p[i].emitted_at <= now
      BY DEF TypeInv
    <3> HIDE DEF p
    <3>4. ASSUME NEW i \in Ids
          PROVE  p[i] \in [last : 0..now, seen : BOOLEAN, emitted_at : 0..now]
      <4> DEFINE m == p[i]
      <4>1. m \in Marks /\ m.last <= now /\ m.emitted_at <= now
        BY <3>2, <3>3
      <4> HIDE DEF m
      <4>2. m.last \in 0..now /\ m.emitted_at \in 0..now
        BY <3>2, <4>1 DEF Marks
      <4>3. m.seen \in BOOLEAN /\ m = [last |-> m.last, seen |-> m.seen, emitted_at |-> m.emitted_at]
        BY <4>1, Zenon DEF Marks
      <4>4. m \in [last : 0..now, seen : BOOLEAN, emitted_at : 0..now]
        BY <4>2, <4>3, Zenon
      <4> QED
        BY <4>4 DEF m
    <3>5. p \in [Ids -> [last : 0..now, seen : BOOLEAN, emitted_at : 0..now]]
      BY <3>2, <3>4
    <3> QED
      BY <3>5 DEF p
  <2>2. Installed \subseteq Keys
    BY DEF TypeInv, Tabular, Ordered, Installed
  <2>3. obd_poll \in BOOLEAN
    BY Zenon DEF BoolInv
  <2> HIDE DEF TypeInv
  <2>4. /\ now \in 0..MaxTime /\ install_counter \in 0..MaxInstalls
        /\ Cardinality(Installed) <= Slots /\ obd_rx \in Seq(ObdIds)
        /\ \A f \in out : f.id \in Ids
    BY DEF TypeInv
  <2>5. \A k \in Installed :
           /\ [mode |-> subscriptions[k].mode, arg |-> subscriptions[k].arg] \in Rules
           /\ subscriptions[k].order \in 1..install_counter
    BY DEF TypeInv
  <2> QED
    BY <2>1, <2>2, <2>3, <2>4, <2>5, Zenon DEF TypeOK
<1> QED
  BY <1>1, TableInvariant, PTL

-----------------------------------------------------------------------------
(* The table implements CanGate *)

\* Who governs is the same by order numbers as by who was installed earlier.
LEMMA SameGate ==
    ASSUME TypeInv, NEW i \in Ids
    PROVE  /\ Gate!Covering(i) = Matching(subscriptions, i)
           /\ Matching(subscriptions, i) # {} => Gate!Governor(i) = Rules0(i)
<1> DEFINE M == Matching(subscriptions, i)
           v == Rules0(i)
<1>1. Gate!Covering(i) = M
  BY DEF Gate!Covering, Gate!Covers, RuleOf, Matching, Matches, Installed
<1>2. ASSUME M # {} PROVE Gate!Governor(i) = v
  <2>1. /\ v \in M /\ \A j \in M : Before(subscriptions, v, j)
        /\ \A k \in M : (\A j \in M : Before(subscriptions, k, j)) => k = v
    BY <1>2, OneGoverns DEF TypeInv, Tabular, Rules0
  <2>2. \A k \in M : /\ k \in Installed /\ subscriptions[k].order \in Nat
                    /\ Specific(k) \in Nat /\ Gate!Bits(k) = Specific(k)
    <3> SUFFICES ASSUME NEW k \in M
                 PROVE  /\ k \in Installed /\ subscriptions[k].order \in Nat
                        /\ Specific(k) \in Nat /\ Gate!Bits(k) = Specific(k)
      OBVIOUS
    <3>1. k \in Installed /\ k \in Keys
      BY DEF Matching, Installed, TypeInv, Tabular, Ordered
    <3>2. subscriptions[k].order \in Nat
      BY <3>1 DEF TypeInv, Tabular, Ordered, Installed
    <3>3. Gate!Bits(k) = Specific(k)
      BY DEF Gate!Bits, Specific, Gate!Cardinality, Cardinality
    <3> QED
      BY <3>1, <3>2, <3>3, MasksAreFinite
  <2>3. ASSUME NEW k \in M
        PROVE  Gate!Governs(k, i) <=> \A j \in M : Before(subscriptions, k, j)
    <3>1. ASSUME NEW j \in M, j # k
          PROVE  /\ subscriptions[j].order # subscriptions[k].order
                 /\ <<k, j>> \in EarlierOf <=> subscriptions[k].order < subscriptions[j].order
      BY <2>2, <2>3, <3>1 DEF EarlierOf, TypeInv, Tabular, Ordered, Installed
    <3>2. ASSUME NEW j \in M, j # k
          PROVE  Before(subscriptions, k, j) <=>
                    \/ Gate!Bits(k) > Gate!Bits(j)
                    \/ Gate!Bits(k) = Gate!Bits(j) /\ <<k, j>> \in EarlierOf
      BY <2>2, <2>3, <3>1, <3>2 DEF Before
    <3>3. Before(subscriptions, k, k)
      BY <2>2, <2>3 DEF Before
    <3> HIDE DEF M
    <3> QED
      BY <1>1, <2>3, <3>2, <3>3 DEF Gate!Governs
  <2> HIDE DEF M, v
  <2>4. v \in M /\ Gate!Governs(v, i) /\ \A k \in M : Gate!Governs(k, i) => k = v
    BY <2>1, <2>3
  <2>5. Gate!Governor(i) = CHOOSE k \in M : Gate!Governs(k, i)
    BY <1>1 DEF Gate!Governor
  <2> QED
    BY <2>4, <2>5
<1> QED
  BY <1>1, <1>2

\* A frame is owed to a subscription exactly when its record lets it out.
LEMMA SameOwed ==
    ASSUME TypeInv, NEW k \in Installed, NEW i \in Ids
    PROVE  Gate!Owed(k, i) <=> Emits(subscriptions[k], i)
<1> DEFINE sub == subscriptions[k]
           st == sub.per_id[i]
<1>1. k \in Keys /\ sub \in Entries
  BY DEF TypeInv, Tabular, Ordered, Installed
<1>2. st \in Marks /\ now \in Nat /\ st.emitted_at <= now
  <2>1. st \in Marks
    BY <1>1 DEF Entries
  <2>2. now \in Nat
    BY DEF TypeInv
  <2>3. \A x \in Ids : subscriptions[k].per_id[x].emitted_at <= now
    BY DEF TypeInv
  <2> QED
    BY <2>1, <2>2, <2>3
<1>3. RuleOf[k] = [mode |-> sub.mode, arg |-> sub.arg]
  BY DEF RuleOf
<1>4. GrantedOf[k][i] = IF st.seen THEN st.emitted_at ELSE -1
  BY <1>1 DEF GrantedOf
<1>5. sub.mode \in {"every_frame", "periodic"} /\ sub.arg \in Nat /\ st.emitted_at \in Nat
  BY <1>1, <1>2 DEF Entries, Marks
<1>6. Gate!Owed(k, i) <=> \/ sub.mode = "every_frame"
                         \/ ~st.seen
                         \/ now - st.emitted_at >= sub.arg
  <2> HIDE DEF sub, st
  <2>1. RuleOf[k].mode = sub.mode /\ RuleOf[k].arg = sub.arg
    BY <1>3
  <2> QED
    BY <1>4, <1>5, <2>1 DEF Gate!Owed, Gate!Never
<1> HIDE DEF sub
<1> QED
  BY <1>2, <1>5, <1>6 DEF Emits, sub

LEMMA NobodyIsFallback == Gate!Nobody = Fallback
  BY DEF Gate!Nobody, Fallback

\* Of the identifiers D, those whose frames reach the gate: the ECUs' and the broadcast ones
\* the generator finds due.
Reaching(D) == {i \in D : i \in BusIds => Heeds(i)}

\* The frames of a poll, whatever their order and however often one identifier comes, are
\* forwarded as the gate forwards the set of them.
LEMMA TakenImplements ==
    ASSUME TypeInv, NEW frames \in Seq(Ids), TakeIn(frames)
    PROVE  Gate!Forward(Reaching(ToSet(frames)))
<1>1. PICK D \in SUBSET Ids :
          /\ D = ToSet(frames)
          /\ subscriptions' = PassedTable(D) /\ out' = PassedOut(D)
          /\ obd_rx' = <<>> /\ UNCHANGED <<now, install_counter>>
  BY FramesTaken
<1> DEFINE S == {i \in D : i \in BusIds => Heeds(i)}
           passed == {i \in S : Gate!Covering(i) # {} /\ Gate!Owed(Gate!Governor(i), i)}
<1>2. ASSUME NEW i \in Ids
      PROVE  i \in passed <=> i \in D /\ Heeds(i) /\ Emits(subscriptions[Rules0(i)], i)
  <2>1. CASE Matching(subscriptions, i) = {}
    BY <1>2, <2>1, SameGate DEF Heeds
  <2>2. CASE Matching(subscriptions, i) # {}
    <3>1. /\ Gate!Covering(i) # {} /\ Gate!Governor(i) = Rules0(i)
          /\ i \in S <=> i \in D /\ Heeds(i)
      BY <2>2, SameGate DEF Heeds
    <3>2. Rules0(i) \in Installed
      BY <2>2, PassedGovernor
    <3>3. Gate!Owed(Rules0(i), i) <=> Emits(subscriptions[Rules0(i)], i)
      BY <3>2, SameOwed
    <3> QED
      BY <3>1, <3>3
  <2> QED
    BY <2>1, <2>2
<1>3. passed \subseteq Ids
  OBVIOUS
<1>4. \A i \in passed : Gate!Governor(i) = Rules0(i)
  <2> SUFFICES ASSUME NEW i \in passed PROVE Gate!Governor(i) = Rules0(i)
    OBVIOUS
  <2>1. i \in Ids /\ Heeds(i)
    BY <1>2, <1>3
  <2> QED
    BY <2>1, SameGate DEF Heeds
<1>5. {i \in S \cap ObdIds : obd_poll /\ Gate!Covering(i) = {}}
        = {i \in D \cap ObdIds : obd_poll /\ Matching(subscriptions, i) = {}}
  <2>1. \A i \in ObdIds : i \in Ids /\ i \notin BusIds
    BY BusAssumption DEF Ids
  <2>2. \A i \in ObdIds : Gate!Covering(i) = Matching(subscriptions, i)
    BY <2>1, SameGate
  <2> QED
    BY <2>1, <2>2
<1>6. passed = {i \in D : Heeds(i) /\ Emits(subscriptions[Rules0(i)], i)}
  <2> HIDE DEF passed
  <2> QED
    BY <1>2, <1>3
<1>7. out' = {[id |-> i, by |-> Gate!Governor(i)] : i \in passed}
               \cup {[id |-> i, by |-> Gate!Nobody] :
                        i \in {j \in S \cap ObdIds : obd_poll /\ Gate!Covering(j) = {}}}
  <2>1. {[id |-> i, by |-> Gate!Governor(i)] : i \in passed}
          = {[id |-> i, by |-> Rules0(i)] : i \in passed}
    <3> HIDE DEF passed
    <3> QED
      BY <1>4
  <2> HIDE DEF passed, S
  <2> QED
    BY <1>1, <1>5, <1>6, <2>1, NobodyIsFallback, Zenon DEF PassedOut
<1>8. Installed' = Installed /\ RuleOf' = RuleOf /\ EarlierOf' = EarlierOf
  <2>1. Installed' = Installed
    BY <1>1 DEF Installed, PassedTable
  <2>2. \A k \in Installed : /\ subscriptions'[k].mode = subscriptions[k].mode
                            /\ subscriptions'[k].arg = subscriptions[k].arg
                            /\ subscriptions'[k].order = subscriptions[k].order
    BY <1>1 DEF PassedTable
  <2> QED
    BY <2>1, <2>2 DEF RuleOf, EarlierOf
<1>9. GrantedOf' = [k \in Keys |-> [i \in Ids |->
          IF i \in passed /\ Gate!Governor(i) = k THEN now ELSE GrantedOf[k][i]]]
  <2> DEFINE new(k, i) == IF k \in Installed /\ subscriptions'[k].per_id[i].seen
                            THEN subscriptions'[k].per_id[i].emitted_at ELSE -1
             old(k, i) == IF k \in Installed /\ subscriptions[k].per_id[i].seen
                            THEN subscriptions[k].per_id[i].emitted_at ELSE -1
             by(k, i) == IF i \in passed /\ Gate!Governor(i) = k THEN now ELSE old(k, i)
  <2>1. GrantedOf' = [k \in Keys |-> [i \in Ids |-> new(k, i)]]
    BY <1>8 DEF GrantedOf
  <2>2. \A k \in Keys : \A i \in Ids : GrantedOf[k][i] = old(k, i)
    BY DEF GrantedOf
  <2>3. ASSUME NEW k \in Keys, NEW i \in Ids PROVE new(k, i) = by(k, i)
    <3>1. CASE k \notin Installed
      <4>1. ~(i \in passed /\ Gate!Governor(i) = k)
        <5> SUFFICES ASSUME i \in passed, Gate!Governor(i) = k PROVE FALSE
          OBVIOUS
        <5>1. Matching(subscriptions, i) # {} /\ k = Rules0(i)
          BY <1>2, <1>4 DEF Heeds
        <5> QED
          BY <3>1, <5>1, PassedGovernor
      <4> HIDE DEF passed
      <4> QED
        BY <3>1, <4>1
    <3>2. CASE k \in Installed
      <4> DEFINE was == subscriptions[k].per_id[i]
                 is  == subscriptions'[k].per_id[i]
      <4>1. is = IF i \in D /\ Heeds(i) /\ k = Rules0(i) THEN Marked(k, i) ELSE was
        BY <1>1, <3>2 DEF PassedTable
      <4>2. CASE i \in D /\ Heeds(i) /\ k = Rules0(i)
        <5>1. /\ is.seen = TRUE
              /\ is.emitted_at = IF Emits(subscriptions[k], i) THEN now ELSE was.emitted_at
          BY <4>1, <4>2 DEF Marked
        <5>2. i \in passed <=> Emits(subscriptions[k], i)
          BY <1>2, <4>2
        <5>3. i \in passed => Gate!Governor(i) = k
          BY <1>4, <4>2
        <5>4. ~Emits(subscriptions[k], i) => was.seen
          BY DEF Emits
        <5> HIDE DEF was, is, passed
        <5>5. new(k, i) = is.emitted_at
          BY <3>2, <5>1 DEF is
        <5>6. by(k, i) = IF i \in passed THEN now ELSE was.emitted_at
          BY <3>2, <5>2, <5>3, <5>4 DEF was
        <5> HIDE DEF new, by
        <5> QED
          BY <5>1, <5>2, <5>5, <5>6
      <4>3. CASE ~(i \in D /\ Heeds(i) /\ k = Rules0(i))
        <5>1. is = was
          BY <4>1, <4>3
        <5>2. ~(i \in passed /\ Gate!Governor(i) = k)
          BY <1>2, <1>4, <4>3
        <5> HIDE DEF passed
        <5> QED
          BY <5>1, <5>2, Zenon
      <4> QED
        BY <4>2, <4>3
    <3> QED
      BY <3>1, <3>2
  <2> HIDE DEF new, old, passed
  <2>4. [k \in Keys |-> [i \in Ids |-> new(k, i)]] = [k \in Keys |-> [i \in Ids |-> by(k, i)]]
    BY <2>3
  <2>5. [k \in Keys |-> [i \in Ids |-> by(k, i)]] = [k \in Keys |-> [i \in Ids |->
          IF i \in passed /\ Gate!Governor(i) = k THEN now ELSE GrantedOf[k][i]]]
    BY <2>2
  <2> QED
    BY <2>1, <2>4, <2>5
<1>10. ShownOf' = [k \in Keys |-> [i \in BusIds |->
          IF i \in S /\ Gate!Governor(i) = k THEN now ELSE ShownOf[k][i]]]
  <2> DEFINE new(k, i) == IF k \in Installed THEN subscriptions'[k].per_id[i].last ELSE 0
             old(k, i) == IF k \in Installed THEN subscriptions[k].per_id[i].last ELSE 0
             by(k, i) == IF i \in S /\ Gate!Governor(i) = k THEN now ELSE old(k, i)
  <2>1. ShownOf' = [k \in Keys |-> [i \in BusIds |-> new(k, i)]]
    BY <1>8 DEF ShownOf
  <2>2. \A k \in Keys : \A i \in BusIds : ShownOf[k][i] = old(k, i)
    BY DEF ShownOf
  <2>3. ASSUME NEW k \in Keys, NEW i \in BusIds PROVE new(k, i) = by(k, i)
    <3>1. i \in Ids /\ (i \in S <=> i \in D /\ Heeds(i))
      BY DEF Ids
    <3>2. Heeds(i) => Gate!Governor(i) = Rules0(i) /\ Rules0(i) \in Installed
      BY <3>1, SameGate, PassedGovernor DEF Heeds
    <3>3. CASE k \notin Installed
      <4>1. ~(i \in S /\ Gate!Governor(i) = k)
        BY <3>1, <3>2, <3>3
      <4> HIDE DEF S
      <4> QED
        BY <3>3, <4>1
    <3>4. CASE k \in Installed
      <4>1. subscriptions'[k].per_id[i] =
               IF i \in D /\ Heeds(i) /\ k = Rules0(i) THEN Marked(k, i)
               ELSE subscriptions[k].per_id[i]
        BY <1>1, <3>1, <3>4 DEF PassedTable
      <4>2. Marked(k, i).last = now
        BY DEF Marked
      <4> HIDE DEF S
      <4> QED
        BY <3>1, <3>2, <3>4, <4>1, <4>2
    <3> QED
      BY <3>3, <3>4
  <2> HIDE DEF new, old, S
  <2>4. [k \in Keys |-> [i \in BusIds |-> new(k, i)]] = [k \in Keys |-> [i \in BusIds |-> by(k, i)]]
    BY <2>3
  <2>5. [k \in Keys |-> [i \in BusIds |-> by(k, i)]] = [k \in Keys |-> [i \in BusIds |->
          IF i \in S /\ Gate!Governor(i) = k THEN now ELSE ShownOf[k][i]]]
    BY <2>2
  <2> QED
    BY <2>1, <2>4, <2>5
<1>11. ToSet(obd_rx') = {}
  BY <1>1 DEF ToSet
<1>12. Gate!Forward(S)
  <2>1. Gate!Ids = Ids
    BY DEF Gate!Ids, Ids
  <2> HIDE DEF S
  <2> QED
    BY <1>1, <1>7, <1>8, <1>9, <1>10, <1>11, <2>1 DEF Gate!Forward
<1>13. S = Reaching(ToSet(frames))
  BY <1>1 DEF Reaching
<1> QED
  BY <1>12, <1>13

\* On the bus for the gate is what reaches it of what the poll takes in, and at a stop what
\* has arrived.
LEMMA PollImplements ==
    ASSUME TypeInv, NEW awake \in BOOLEAN, Poll(awake)
    PROVE  Gate!Frames(awake)
<1>1. /\ OnTheBus(awake) \in Seq(Ids)
      /\ ToSet(OnTheBus(awake)) = ToSet(obd_rx) \cup IF awake THEN BusIds ELSE {}
  BY OnTheBusSet
<1>2. ToSet(obd_rx) \subseteq ObdIds
  BY DEF TypeInv, ToSet
<1>3. Gate!OnBus(awake) = Reaching(ToSet(OnTheBus(awake)))
  <2>1. ASSUME NEW i \in BusIds
        PROVE  Heeds(i) <=> /\ Gate!Covering(i) # {}
                            /\ now - ShownOf[Gate!Governor(i)][i] >= Every[i]
    <3>1. i \in Ids
      BY DEF Ids
    <3>2. CASE Matching(subscriptions, i) = {}
      BY <3>1, <3>2, SameGate DEF Heeds
    <3>3. CASE Matching(subscriptions, i) # {}
      <4>1. Gate!Governor(i) = Rules0(i) /\ Gate!Covering(i) # {} /\ Rules0(i) \in Installed
        BY <3>1, <3>3, SameGate, PassedGovernor
      <4>2. Rules0(i) \in Keys
        BY <4>1 DEF TypeInv, Tabular, Ordered, Installed
      <4>3. ShownOf[Rules0(i)][i] = subscriptions[Rules0(i)].per_id[i].last
        BY <4>1, <4>2 DEF ShownOf
      <4> QED
        BY <3>3, <4>1, <4>3 DEF Heeds
    <3> QED
      BY <3>2, <3>3
  <2>2. BusIds \cap ObdIds = {}
    BY BusAssumption
  <2> QED
    BY <1>1, <1>2, <2>1, <2>2 DEF Gate!OnBus, Reaching
<1>4. Gate!Forward(Gate!OnBus(awake)) /\ obd_poll' = obd_poll
  BY <1>1, <1>3, TakenImplements DEF Poll
<1> QED
  BY <1>4, Zenon DEF Gate!Frames

LEMMA StopImplements ==
    ASSUME TypeInv, PollStop
    PROVE  Gate!PollStop
<1>1. obd_rx \in Seq(Ids)
  BY DEF TypeInv, Ids
<1>2. Reaching(ToSet(obd_rx)) = ToSet(obd_rx)
  <2>1. \A i \in ToSet(obd_rx) : i \notin BusIds
    BY BusAssumption DEF TypeInv, ToSet
  <2> QED
    BY <2>1 DEF Reaching
<1>3. Gate!Forward(ToSet(obd_rx)) /\ obd_poll' = FALSE
  BY <1>1, <1>2, TakenImplements DEF PollStop
<1> QED
  BY <1>3, Zenon DEF Gate!PollStop

\* The table as it was is the gate as it was.
LEMMA SameTable ==
    ASSUME subscriptions' = subscriptions
    PROVE  /\ RuleOf' = RuleOf /\ EarlierOf' = EarlierOf /\ GrantedOf' = GrantedOf
           /\ ShownOf' = ShownOf
  BY DEF RuleOf, EarlierOf, GrantedOf, ShownOf, Installed

\* Each request is the gate's own, or nothing to it; a retry of the same rule leaves what was
\* granted, another one and a new pair owe a first frame.
LEMMA SubscribeImplements ==
    ASSUME TypeInv, NEW p \in Named, NEW r \in Rules, Subscribe(p, r)
    PROVE  Gate!Install(Identity(p), r) \/ Gate!Elapse
<1> DEFINE k == Identity(p)
<1>0. /\ k \in Keys /\ out' = {} /\ now' = now /\ obd_poll' = obd_poll /\ now \in Nat
      /\ ToSet(obd_rx') = ToSet(obd_rx)
      /\ Tabular(subscriptions) /\ Installed = DOMAIN subscriptions /\ Installed \subseteq Keys
      /\ install_counter \in Nat /\ \A j \in Installed : subscriptions[j].order \in 1..install_counter
  <2>1. /\ k \in Keys /\ out' = {} /\ now' = now /\ obd_poll' = obd_poll
        /\ ToSet(obd_rx') = ToSet(obd_rx)
    BY DEF Subscribe, Keys
  <2>2. Tabular(subscriptions) /\ Installed = DOMAIN subscriptions
    BY DEF TypeInv, Installed
  <2>3. Installed \subseteq Keys
    BY <2>2 DEF Tabular, Ordered
  <2>4. now \in Nat /\ install_counter \in Nat
    BY DEF TypeInv
  <2>5. \A j \in Installed : subscriptions[j].order \in 1..install_counter
    BY DEF TypeInv
  <2> QED
    BY <2>1, <2>2, <2>3, <2>4, <2>5
<1>1. CASE subscriptions' = subscriptions
  <2>1. /\ RuleOf' = RuleOf /\ EarlierOf' = EarlierOf /\ GrantedOf' = GrantedOf
        /\ ShownOf' = ShownOf
    BY <1>1, SameTable
  <2> QED
    BY <1>0, <2>1 DEF Gate!Elapse
<1>2. CASE /\ k \in Installed
           /\ subscriptions' = [subscriptions EXCEPT ![k] = Updated(@, r)]
  <2> DEFINE u == Updated(subscriptions[k], r)
  <2>1. /\ u.order = subscriptions[k].order /\ [mode |-> u.mode, arg |-> u.arg] = r
        /\ r = RuleOf[k] => u.per_id = subscriptions[k].per_id
        /\ r # RuleOf[k] => \A i \in Ids : u.per_id[i].seen = FALSE
        /\ \A i \in Ids : u.per_id[i].last = subscriptions[k].per_id[i].last
    BY <1>2, UpdateType DEF RuleOf
  <2>2. /\ Installed' = Installed
        /\ \A j \in Installed : subscriptions'[j] = IF j = k THEN u ELSE subscriptions[j]
    BY <1>0, <1>2 DEF Tabular, Installed
  <2> HIDE DEF k, u
  <2>3. DOMAIN RuleOf = Installed
    BY DEF RuleOf
  <2>4. RuleOf' = [j \in DOMAIN RuleOf \cup {k} |-> IF j = k THEN r ELSE RuleOf[j]]
    <3>1. Installed \cup {k} = Installed
      BY <1>2
    <3> QED
      BY <2>1, <2>2, <2>3, <3>1 DEF RuleOf
  <2>5. EarlierOf' = EarlierOf
    BY <2>1, <2>2 DEF EarlierOf
  <2>6. GrantedOf' = IF RuleOf[k] = r THEN GrantedOf
                     ELSE [GrantedOf EXCEPT ![k] = Gate!Unruled]
    <3>1. CASE RuleOf[k] = r
      BY <2>1, <2>2, <3>1 DEF GrantedOf
    <3>2. CASE RuleOf[k] # r
      <4>1. ASSUME NEW j \in Keys
            PROVE  GrantedOf'[j] = IF j = k THEN Gate!Unruled ELSE GrantedOf[j]
        <5>1. CASE j = k
          BY <1>0, <1>2, <2>1, <2>2, <3>2, <5>1 DEF GrantedOf, Gate!Unruled, Gate!Never, Gate!Ids, Ids
        <5>2. CASE j # k
          BY <2>2, <5>2 DEF GrantedOf
        <5> QED
          BY <5>1, <5>2
      <4>2. GrantedOf = [j \in Keys |-> GrantedOf[j]] /\ GrantedOf' = [j \in Keys |-> GrantedOf'[j]]
        BY DEF GrantedOf
      <4> QED
        BY <1>0, <3>2, <4>1, <4>2
    <3> QED
      BY <3>1, <3>2
  <2>8. ShownOf' = ShownOf
    <3>1. \A j \in Installed, i \in BusIds :
             subscriptions'[j].per_id[i].last = subscriptions[j].per_id[i].last
      BY <2>1, <2>2 DEF Ids
    <3> QED
      BY <2>2, <3>1 DEF ShownOf
  <2>7. Gate!Install(k, r)
    <3>1. Gate!Unruled = [i \in Ids |-> -1]
      BY DEF Gate!Unruled, Gate!Never, Gate!Ids, Ids
    <3> QED
      BY <1>0, <1>2, <2>3, <2>4, <2>5, <2>6, <2>8 DEF Gate!Install
  <2> QED
    BY <2>7 DEF k
<1>3. CASE /\ k \notin Installed /\ install_counter' = install_counter + 1
           /\ subscriptions' = [j \in Installed \cup {k} |-> IF j \in Installed
                  THEN subscriptions[j]
                  ELSE [mode |-> r.mode, arg |-> r.arg,
                        order |-> install_counter', per_id |-> Fresh]]
  <2> DEFINE n == [mode |-> r.mode, arg |-> r.arg, order |-> install_counter + 1,
                   per_id |-> Fresh]
  <2>1. /\ n.order = install_counter + 1 /\ [mode |-> n.mode, arg |-> n.arg] = r
        /\ \A i \in Ids : n.per_id[i].seen = FALSE /\ n.per_id[i].last = 0
    BY RulesType DEF Fresh
  <2> HIDE DEF n, k
  <2>2. /\ Installed' = Installed \cup {k} /\ subscriptions'[k] = n
        /\ \A j \in Installed : subscriptions'[j] = subscriptions[j]
    BY <1>3 DEF Installed, n
  <2>3. DOMAIN RuleOf = Installed
    BY DEF RuleOf
  <2>4. RuleOf' = [j \in DOMAIN RuleOf \cup {k} |-> IF j = k THEN r ELSE RuleOf[j]]
    BY <1>3, <2>1, <2>2, <2>3 DEF RuleOf
  <2>5. EarlierOf' = EarlierOf \cup {<<j, k>> : j \in DOMAIN RuleOf}
    <3>1. ASSUME NEW a, NEW b
          PROVE  <<a, b>> \in EarlierOf' <=> <<a, b>> \in EarlierOf \/ (a \in Installed /\ b = k)
      <4>1. <<a, b>> \in EarlierOf' <=>
               a \in Installed' /\ b \in Installed' /\ subscriptions'[a].order < subscriptions'[b].order
        BY DEF EarlierOf
      <4>2. <<a, b>> \in EarlierOf <=>
               a \in Installed /\ b \in Installed /\ subscriptions[a].order < subscriptions[b].order
        BY DEF EarlierOf
      <4> QED
        BY <1>0, <1>3, <2>1, <2>2, <4>1, <4>2
    <3>2. /\ EarlierOf' \subseteq Installed' \X Installed'
          /\ EarlierOf \cup {<<j, k>> : j \in DOMAIN RuleOf} \subseteq Installed' \X Installed'
      BY <2>2, <2>3 DEF EarlierOf
    <3>3. ASSUME NEW e \in Installed' \X Installed'
          PROVE  e \in EarlierOf' <=> e \in EarlierOf \cup {<<j, k>> : j \in DOMAIN RuleOf}
      BY <2>3, <3>1
    <3> QED
      BY <3>2, <3>3
  <2>6. GrantedOf' = [GrantedOf EXCEPT ![k] = Gate!Unruled]
    <3>1. ASSUME NEW j \in Keys
          PROVE  GrantedOf'[j] = IF j = k THEN Gate!Unruled ELSE GrantedOf[j]
      <4>1. CASE j = k
        BY <1>0, <2>1, <2>2, <4>1 DEF GrantedOf, Gate!Unruled, Gate!Never, Gate!Ids, Ids
      <4>2. CASE j # k
        BY <2>2, <4>2 DEF GrantedOf
      <4> QED
        BY <4>1, <4>2
    <3>2. GrantedOf = [j \in Keys |-> GrantedOf[j]] /\ GrantedOf' = [j \in Keys |-> GrantedOf'[j]]
      BY DEF GrantedOf
    <3> QED
      BY <1>0, <3>1, <3>2
  <2>8. ShownOf' = ShownOf
    <3>1. ASSUME NEW j \in Keys, NEW i \in BusIds
          PROVE  ShownOf'[j][i] = ShownOf[j][i]
      <4>1. CASE j = k
        BY <1>0, <1>3, <2>1, <2>2, <4>1 DEF ShownOf, Ids
      <4>2. CASE j # k
        BY <2>2, <4>2 DEF ShownOf
      <4> QED
        BY <4>1, <4>2
    <3>2. /\ ShownOf = [j \in Keys |-> [i \in BusIds |-> ShownOf[j][i]]]
          /\ ShownOf' = [j \in Keys |-> [i \in BusIds |-> ShownOf'[j][i]]]
      BY DEF ShownOf
    <3> QED
      BY <3>1, <3>2
  <2>7. Gate!Install(k, r)
    BY <1>0, <1>3, <2>3, <2>4, <2>5, <2>6, <2>8 DEF Gate!Install
  <2> QED
    BY <2>7 DEF k
<1> QED
  BY <1>1, <1>2, <1>3 DEF Subscribe

LEMMA UnsubscribeImplements ==
    ASSUME TypeInv, NEW p \in Named, Unsubscribe(p)
    PROVE  Gate!Remove(Identity(p))
<1> DEFINE k == Identity(p)
<1>1. /\ k \in Keys /\ out' = {} /\ now' = now /\ obd_poll' = obd_poll
      /\ ToSet(obd_rx') = ToSet(obd_rx)
      /\ subscriptions' = [j \in Installed \ {k} |-> subscriptions[j]]
  BY DEF Unsubscribe, Keys
<1> HIDE DEF k
<1>2. Installed' = Installed \ {k} /\ \A j \in Installed \ {k} : subscriptions'[j] = subscriptions[j]
  BY <1>1 DEF Installed
<1>3. RuleOf' = [j \in DOMAIN RuleOf \ {k} |-> RuleOf[j]]
  BY <1>2 DEF RuleOf
<1>4. EarlierOf' = {e \in EarlierOf : e[1] # k /\ e[2] # k}
  BY <1>2 DEF EarlierOf
<1>5. GrantedOf' = [GrantedOf EXCEPT ![k] = Gate!Unruled]
  <2>1. ASSUME NEW j \in Keys
        PROVE  GrantedOf'[j] = IF j = k THEN Gate!Unruled ELSE GrantedOf[j]
    BY <1>2 DEF GrantedOf, Gate!Unruled, Gate!Never, Gate!Ids, Ids
  <2>2. GrantedOf = [j \in Keys |-> GrantedOf[j]] /\ GrantedOf' = [j \in Keys |-> GrantedOf'[j]]
    BY DEF GrantedOf
  <2> QED
    BY <1>1, <2>1, <2>2
<1>7. ShownOf' = [ShownOf EXCEPT ![k] = Gate!Unshown]
  <2>1. ASSUME NEW j \in Keys
        PROVE  ShownOf'[j] = IF j = k THEN Gate!Unshown ELSE ShownOf[j]
    BY <1>2 DEF ShownOf, Gate!Unshown
  <2>2. ShownOf = [j \in Keys |-> ShownOf[j]] /\ ShownOf' = [j \in Keys |-> ShownOf'[j]]
    BY DEF ShownOf
  <2> QED
    BY <1>1, <2>1, <2>2
<1>6. Gate!Remove(k)
  BY <1>1, <1>3, <1>4, <1>5, <1>7 DEF Gate!Remove
<1> QED
  BY <1>6 DEF k

LEMMA ResetImplements ==
    ASSUME TypeInv, Reset
    PROVE  Gate!Clear
<1>1. /\ Installed' = {} /\ out' = {} /\ now' = now /\ obd_poll' = FALSE
      /\ ToSet(obd_rx') = {}
  BY DEF Reset, Installed, ToSet
<1>2. RuleOf' = <<>> /\ EarlierOf' = {}
  BY <1>1 DEF RuleOf, EarlierOf
<1>3. GrantedOf' = [k \in Keys |-> Gate!Unruled]
  BY <1>1 DEF GrantedOf, Gate!Unruled, Gate!Never, Gate!Ids, Ids
<1>4. ShownOf' = [k \in Keys |-> Gate!Unshown]
  BY <1>1 DEF ShownOf, Gate!Unshown
<1> QED
  BY <1>1, <1>2, <1>3, <1>4, Zenon DEF Gate!Clear

LEMMA StepImplements ==
    ASSUME TypeInv, [Next]_vars
    PROVE  [Gate!GateNext]_Gate!gateVars
<1>0. now \in Nat
  BY DEF TypeInv
<1>1. ASSUME NEW p \in Named, Unsubscribe(p) PROVE Gate!GateNext
  <2>1. Identity(p) \in Keys
    BY DEF Keys
  <2> QED
    BY <1>1, <2>1, UnsubscribeImplements DEF Gate!GateNext
<1>2. ASSUME NEW p \in Named, NEW r \in Rules, Subscribe(p, r) PROVE Gate!GateNext
  <2>1. Identity(p) \in Keys
    BY DEF Keys
  <2> QED
    BY <1>2, <2>1, SubscribeImplements DEF Gate!GateNext
<1>3. CASE Reset
  BY <1>3, ResetImplements DEF Gate!GateNext
<1>4. CASE PollSet
  <2>1. Gate!PollSet
    BY <1>4, SameTable, Zenon DEF PollSet, Gate!PollSet
  <2> QED
    BY <2>1, Zenon DEF Gate!GateNext
<1>5. CASE Tick
  <2>1. /\ now' >= now /\ out' = {} /\ obd_poll' = obd_poll /\ subscriptions' = subscriptions
        /\ ToSet(obd_rx') = ToSet(obd_rx)
    BY <1>0, <1>5 DEF Tick
  <2>2. Gate!Elapse
    BY <2>1, SameTable DEF Gate!Elapse
  <2> QED
    BY <2>2 DEF Gate!GateNext
<1>6. ASSUME NEW awake \in BOOLEAN, Poll(awake) PROVE Gate!GateNext
  BY <1>6, PollImplements, Zenon DEF Gate!GateNext
<1>7. ASSUME NEW i \in ObdIds, Respond(i) PROVE Gate!GateNext
  <2> DEFINE rx == obd_rx
  <2>1. rx \in Seq(ObdIds) /\ obd_rx' = Append(rx, i)
    BY <1>7 DEF Respond, TypeInv
  <2> HIDE DEF rx
  <2>2. ToSet(Append(rx, i)) = ToSet(rx) \cup {i}
    <3>1. \A q \in Seq(ObdIds) : ToSet(q) = {q[m] : m \in 1..Len(q)}
      BY DEF ToSet
    <3>2. Append(rx, i) \in Seq(ObdIds) /\ Len(Append(rx, i)) = Len(rx) + 1
      BY <2>1
    <3>3. /\ \A m \in 1..Len(rx) : Append(rx, i)[m] = rx[m]
          /\ Append(rx, i)[Len(rx) + 1] = i
      BY <2>1
    <3>4. 1..(Len(rx) + 1) = 1..Len(rx) \cup {Len(rx) + 1}
      BY <2>1
    <3> DEFINE A == Append(rx, i)
    <3>5. ToSet(A) = {A[m] : m \in 1..(Len(rx) + 1)}
      BY <3>1, <3>2
    <3>6. ToSet(rx) = {rx[m] : m \in 1..Len(rx)}
      BY <2>1, <3>1
    <3>7. {A[m] : m \in 1..(Len(rx) + 1)} = {A[m] : m \in 1..Len(rx)} \cup {A[Len(rx) + 1]}
      BY <3>4
    <3>8. {A[m] : m \in 1..Len(rx)} = {rx[m] : m \in 1..Len(rx)}
      BY <3>3
    <3> QED
      BY <3>3, <3>5, <3>6, <3>7, <3>8, Zenon
  <2>3. ToSet(obd_rx') = ToSet(obd_rx) \cup {i}
    BY <2>1, <2>2 DEF rx
  <2>4. Gate!Arrive(i)
    BY <1>7, <2>3, SameTable DEF Respond, Gate!Arrive
  <2> QED
    BY <2>4, Zenon DEF Gate!GateNext
<1>8. CASE UNCHANGED vars
  BY <1>8, SameTable DEF vars, Gate!gateVars
<1>9. CASE PollStop
  BY <1>9, StopImplements, Zenon DEF Gate!GateNext
<1> QED
  BY <1>1, <1>2, <1>3, <1>4, <1>5, <1>6, <1>7, <1>8, <1>9 DEF Next

\* The table and the admission forward what SPEC.md 6.8, 9.1, 9.2 and 15.7 promise, for every
\* set of identifiers, masks and rules, every number of slots and every length of run: every
\* frame that has come goes out if its governor's rule, or the fallback, owes it, and no other
\* does, however the frames of a poll are ordered or repeated; a stop judges what has come
\* before it clears the set; an update, a displacement or a removal owes what it says.
THEOREM ImplementsGate == Spec => GatePromise
<1>1. Init => Gate!GateInit
  <2> SUFFICES ASSUME Init PROVE Gate!GateInit
    OBVIOUS
  <2>1. /\ Installed = {} /\ now = 0 /\ obd_poll = FALSE /\ out = {}
        /\ ToSet(obd_rx) = {}
    BY DEF Init, Installed, ToSet
  <2>2. RuleOf = <<>> /\ EarlierOf = {}
    BY <2>1 DEF RuleOf, EarlierOf
  <2>3. GrantedOf = [k \in Keys |-> Gate!Unruled]
    BY <2>1 DEF GrantedOf, Gate!Unruled, Gate!Never, Gate!Ids, Ids
  <2>4. ShownOf = [k \in Keys |-> Gate!Unshown]
    BY <2>1 DEF ShownOf, Gate!Unshown
  <2> QED
    BY <2>1, <2>2, <2>3, <2>4, Zenon DEF Gate!GateInit
<1>2. TypeInv /\ [Next]_vars => [Gate!GateNext]_Gate!gateVars
  BY StepImplements
<1> QED
  BY <1>1, <1>2, TableInvariant, PTL DEF Spec, GatePromise, Gate!GateSpec
=============================================================================

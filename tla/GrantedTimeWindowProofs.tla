----------------------- MODULE GrantedTimeWindowProofs ----------------------
(***************************************************************************)
(* Proofs about the granted time window engine, for any number of ranks,   *)
(* any network, any delays and any number of packets.                      *)
(*                                                                         *)
(* The proof names what the code never computes: a time b, the least time  *)
(* stamp of the last exchange in which nothing was on its way (0 before    *)
(* the first). No rank that goes on has an event before b, so no packet is *)
(* due at a rank before b plus that rank's look-ahead, and no rank has     *)
(* gone past that time (Window). When b moves, the LBTS messages have      *)
(* counted as many packets received as sent, and then no packet is on its  *)
(* way or waiting to be received (Balanced): equal sums of counts that     *)
(* never exceed each other are equal rank by rank.                         *)
(***************************************************************************)
EXTENDS GrantedTimeWindow, WellFoundedInduction, FiniteSetTheorems, TLAPS

-----------------------------------------------------------------------------
(* Least and greatest elements, and what InsertEvent does to a queue. *)

(* A set of times has a least one. *)
LEMMA LeastNatural ==
    ASSUME NEW S \in SUBSET Nat, S # {}
    PROVE  \E n \in S : \A m \in S : n <= m
<1>1. PICK n \in S : \A m \in S : ~ (<<m, n>> \in OpToRel(<, Nat))
  BY NatLessThanWellFounded, WFMin
<1>2. \A a, b \in Nat : a < b => <<a, b>> \in OpToRel(<, Nat)
  BY SMT DEF OpToRel
<1>3. \A m \in S : ~(m < n)
  BY <1>1, <1>2, Zenon
<1> QED
  BY <1>3

LEMMA MinNat ==
    ASSUME NEW S \in SUBSET Nat, S # {}
    PROVE  Min(S) \in S /\ \A m \in S : Min(S) <= m
BY LeastNatural DEF Min

(* The greatest element of a bounded set. *)
LEMMA MaxNat ==
    ASSUME NEW S \in SUBSET Nat, S # {}, NEW b \in Nat, \A m \in S : m <= b
    PROVE  Max(S) \in S /\ \A m \in S : Max(S) >= m
<1> DEFINE D == {d \in Nat : \E m \in S : d = b - m}
<1>1. D # {}
  <2>1. PICK m \in S : TRUE
    OBVIOUS
  <2>2. b - m \in Nat
    OBVIOUS
  <2> QED
    BY <2>2
<1>2. PICK x \in D : \A y \in D : x <= y
  BY <1>1, LeastNatural
<1>3. PICK n \in S : x = b - n
  OBVIOUS
<1>4. ASSUME NEW m \in S PROVE n >= m
  <2>1. b - m \in D
    OBVIOUS
  <2>2. b - n <= b - m
    BY <1>2, <1>3, <2>1
  <2> QED
    BY <2>2
<1> QED
  BY <1>4 DEF Max

(* r is q with ev inserted at pos, after all that is not later. *)
Inserted(r, q, pos, ev) ==
    /\ Len(r) = Len(q) + 1
    /\ \A i \in 1..pos-1 : r[i] = q[i] /\ q[i].ts <= ev.ts
    /\ r[pos] = ev
    /\ \A i \in pos+1..Len(q)+1 : r[i] = q[i-1] /\ ev.ts < q[i-1].ts

(* What InsertEvent does to a sorted queue. *)
LEMMA InsertFacts ==
    ASSUME NEW E, NEW q \in Seq(E), NEW ev \in E, \A e \in E : e.ts \in Nat, Sorted(q)
    PROVE  /\ InsertEvent(q, ev) \in Seq(E)
           /\ \E pos \in 1..Len(q)+1 : Inserted(InsertEvent(q, ev), q, pos, ev)
<1> DEFINE S == {i \in 1..Len(q)+1 : i = Len(q)+1 \/ q[i].ts > ev.ts}
<1>1. Len(q) \in Nat /\ DOMAIN q = 1..Len(q) /\ ev.ts \in Nat
      /\ \A i \in 1..Len(q) : q[i] \in E /\ q[i].ts \in Nat
  OBVIOUS
<1>2. PICK pos \in S : \A i \in S : pos <= i
  <2>1. S \in SUBSET Nat /\ S # {}
    BY <1>1
  <2> HIDE DEF S
  <2> QED
    BY <2>1, LeastNatural, Zenon
<1>3. pos \in 1..Len(q)+1 /\ (pos = Len(q)+1 \/ q[pos].ts > ev.ts)
  OBVIOUS
<1>4. \A i \in 1..pos-1 : i \in 1..Len(q) /\ q[i].ts <= ev.ts
  BY <1>1, <1>2
<1>5. \A i \in pos..Len(q) : i \in 1..Len(q) /\ q[i].ts > ev.ts
  <2>1. ASSUME NEW i \in pos..Len(q)
        PROVE  i \in 1..Len(q) /\ pos \in 1..Len(q) /\ pos <= i /\ q[pos].ts > ev.ts
    BY <1>1, <1>3
  <2>2. \A i, j \in 1..Len(q) : i <= j => q[i].ts <= q[j].ts
    BY <1>1, Zenon DEF Sorted
  <2> QED
    BY <1>1, <2>1, <2>2
<1> HIDE DEF S
<1>6. PICK r : r = InsertEvent(q, ev)
  OBVIOUS
<1>7. \A i \in 1..Len(q)+1 :
        r[i] = IF i \in 1..Len(q) /\ q[i].ts <= ev.ts THEN q[i]
               ELSE IF i = 1 \/ (i-1 \in 1..Len(q) /\ q[i-1].ts <= ev.ts) THEN ev
               ELSE q[i-1]
  BY <1>1, <1>6, Zenon DEF InsertEvent
<1>8. DOMAIN r = 1..Len(q)+1 /\ r = [i \in 1..Len(q)+1 |-> r[i]]
  BY <1>1, <1>6, Zenon DEF InsertEvent
<1>9. \A i \in 1..pos-1 : i \in 1..Len(q)+1 /\ r[i] = q[i]
  BY <1>1, <1>3, <1>4, <1>7
<1>10. r[pos] = ev
  <2>1. pos \in 1..Len(q) => ~(q[pos].ts <= ev.ts)
    BY <1>1, <1>3
  <2>2. pos = 1 \/ (pos-1 \in 1..Len(q) /\ q[pos-1].ts <= ev.ts)
    BY <1>1, <1>3, <1>4
  <2> QED
    BY <1>3, <1>7, <2>1, <2>2, Zenon
<1>11. ASSUME NEW i \in pos+1..Len(q)+1 PROVE r[i] = q[i-1] /\ ev.ts < q[i-1].ts /\ i-1 \in 1..Len(q)
  <2>1. i \in 1..Len(q)+1 /\ i-1 \in pos..Len(q) /\ i # 1 /\ (i \in 1..Len(q) => i \in pos..Len(q))
    BY <1>1, <1>3
  <2>2. ev.ts < q[i-1].ts /\ i-1 \in 1..Len(q) /\ ~(q[i-1].ts <= ev.ts)
    BY <1>1, <1>5, <2>1
  <2>3. i \in 1..Len(q) => ~(q[i].ts <= ev.ts)
    BY <1>1, <1>5, <2>1
  <2> QED
    BY <1>7, <2>1, <2>2, <2>3, Zenon
<1>12. r \in Seq(E)
  <2>1. \A i \in 1..Len(q)+1 : i \in 1..pos-1 \/ i = pos \/ i \in pos+1..Len(q)+1
    BY <1>1, <1>3
  <2>2. \A i \in 1..Len(q)+1 : r[i] \in E
    BY <1>1, <1>4, <1>9, <1>10, <1>11, <2>1, Zenon
  <2>3. r \in [1..Len(q)+1 -> E] /\ Len(q)+1 \in Nat
    BY <1>1, <1>8, <2>2
  <2> QED
    BY <2>3
<1>13. Len(r) = Len(q) + 1
  BY <1>1, <1>8, <1>12
<1>14. Inserted(r, q, pos, ev)
  BY <1>4, <1>9, <1>10, <1>11, <1>13, Zenon DEF Inserted
<1> QED
  BY <1>3, <1>6, <1>12, <1>14, Zenon

(* An insertion keeps the queue in order, adds the event and nothing else. *)
LEMMA InsertSorted ==
    ASSUME NEW E, NEW q \in Seq(E), NEW ev \in E, \A e \in E : e.ts \in Nat, Sorted(q)
    PROVE  /\ InsertEvent(q, ev) \in Seq(E)
           /\ Sorted(InsertEvent(q, ev))
           /\ InsertEvent(q, ev) # <<>>
           /\ Range(InsertEvent(q, ev)) = Range(q) \union {ev}
<1>1. PICK r \in Seq(E) : r = InsertEvent(q, ev) /\ \E pos \in 1..Len(q)+1 : Inserted(r, q, pos, ev)
  BY InsertFacts, Zenon
<1>2. PICK pos \in 1..Len(q)+1 : Inserted(r, q, pos, ev)
  BY <1>1
<1>3. \A i \in 1..Len(q) : q[i] \in E /\ q[i].ts \in Nat /\ ev.ts \in Nat
  OBVIOUS
<1>4. DOMAIN r = 1..Len(q)+1 /\ DOMAIN q = 1..Len(q) /\ r # <<>>
  BY <1>2 DEF Inserted
<1>5. /\ \A i \in 1..Len(q)+1 : i < pos => i \in 1..Len(q) /\ r[i] = q[i] /\ q[i].ts <= ev.ts
      /\ \A i \in 1..Len(q)+1 : i > pos => i-1 \in 1..Len(q) /\ r[i] = q[i-1] /\ ev.ts < q[i-1].ts
      /\ r[pos] = ev
  <2>1. \A i \in 1..Len(q)+1 : /\ i < pos => i \in 1..pos-1 /\ i \in 1..Len(q)
                               /\ i > pos => i \in pos+1..Len(q)+1 /\ i-1 \in 1..Len(q)
    OBVIOUS
  <2> QED
    BY <1>2, <2>1, Zenon DEF Inserted
<1>6. \A i \in 1..Len(q)+1 : r[i] = ev \/ \E j \in 1..Len(q) : r[i] = q[j]
  <2>1. \A i \in 1..Len(q)+1 : i < pos \/ i = pos \/ i > pos
    OBVIOUS
  <2> QED
    BY <1>5, <2>1
<1>7. \A i, j \in 1..Len(q) : i <= j => q[i].ts <= q[j].ts
  BY <1>4 DEF Sorted
<1>8. ASSUME NEW i \in 1..Len(q)+1, NEW j \in 1..Len(q)+1, i <= j PROVE r[i].ts <= r[j].ts
  <2>1. CASE i < pos /\ j < pos
    BY <1>5, <1>7, <1>8, <2>1
  <2>2. CASE i < pos /\ j = pos
    BY <1>5, <2>2
  <2>3. CASE i < pos /\ j > pos
    <3>1. r[i] = q[i] /\ r[j] = q[j-1] /\ i \in 1..Len(q) /\ j-1 \in 1..Len(q) /\ i <= j-1
      BY <1>5, <2>3
    <3> QED
      BY <1>7, <3>1
  <2>4. CASE i = pos /\ j = pos
    BY <1>3, <1>5, <2>4
  <2>5. CASE i = pos /\ j > pos
    <3>1. r[i] = ev /\ r[j] = q[j-1] /\ j-1 \in 1..Len(q) /\ ev.ts < q[j-1].ts
      BY <1>5, <2>5
    <3> QED
      BY <1>3, <3>1
  <2>6. CASE i > pos /\ j > pos
    <3>1. r[i] = q[i-1] /\ r[j] = q[j-1] /\ i-1 \in 1..Len(q) /\ j-1 \in 1..Len(q) /\ i-1 <= j-1
      BY <1>5, <1>8, <2>6
    <3> QED
      BY <1>7, <3>1
  <2> QED
    BY <1>8, <2>1, <2>2, <2>3, <2>4, <2>5, <2>6
<1>9. ASSUME NEW j \in 1..Len(q) PROVE \E i \in 1..Len(q)+1 : r[i] = q[j]
  <2>1. CASE j < pos
    BY <1>5, <2>1
  <2>2. CASE ~(j < pos)
    <3>1. j + 1 \in 1..Len(q)+1 /\ j + 1 > pos /\ (j + 1) - 1 = j
      BY <2>2
    <3>2. r[j+1] = q[j]
      BY <1>5, <3>1
    <3> QED
      BY <3>1, <3>2
  <2> QED
    BY <2>1, <2>2
<1>10. Range(r) = Range(q) \union {ev}
  <2>1. Range(r) = {r[i] : i \in 1..Len(q)+1} /\ Range(q) = {q[i] : i \in 1..Len(q)}
    BY <1>4 DEF Range
  <2>2. \A e \in Range(r) : e \in Range(q) \union {ev}
    BY <1>6, <2>1
  <2>3. \A e \in Range(q) \union {ev} : e \in Range(r)
    BY <1>5, <1>9, <2>1
  <2> QED
    BY <2>2, <2>3
<1>11. Sorted(r)
  BY <1>4, <1>8 DEF Sorted
<1> QED
  BY <1>1, <1>4, <1>10, <1>11, Zenon

(* No event of the queue is before t. *)
NotBefore(q, t) == \A i \in DOMAIN q : q[i].ts >= t

LEMMA InsertNotBefore ==
    ASSUME NEW E, NEW q \in Seq(E), NEW ev \in E, \A e \in E : e.ts \in Nat, Sorted(q),
           NEW t, NotBefore(q, t), ev.ts >= t
    PROVE  NotBefore(InsertEvent(q, ev), t)
<1>1. PICK r \in Seq(E) : r = InsertEvent(q, ev) /\ Range(r) = Range(q) \union {ev}
  BY InsertSorted, Zenon
<1>2. \A i \in DOMAIN r : r[i] \in Range(q) \union {ev}
  BY <1>1 DEF Range
<1>3. \A e \in Range(q) \union {ev} : e.ts >= t
  BY DEF NotBefore, Range
<1> QED
  BY <1>1, <1>2, <1>3, Zenon DEF NotBefore

(* The head of a sorted queue is the earliest event. *)
LEMMA TailFacts ==
    ASSUME NEW E, NEW q \in Seq(E), q # <<>>, \A e \in E : e.ts \in Nat, Sorted(q)
    PROVE  /\ Head(q) \in E /\ Head(q).ts \in Nat /\ Head(q) = q[1]
           /\ NotBefore(q, Head(q).ts)
           /\ Tail(q) \in Seq(E) /\ Sorted(Tail(q))
           /\ \A t : NotBefore(q, t) => Head(q).ts >= t /\ NotBefore(Tail(q), t)
<1>1. Len(q) \in Nat \ {0} /\ 1 \in DOMAIN q /\ Head(q) = q[1] /\ DOMAIN q = 1..Len(q)
  OBVIOUS
<1>2. PICK r \in Seq(E) : r = Tail(q) /\ Len(r) = Len(q) - 1 /\ \A i \in 1..Len(r) : r[i] = q[i+1]
  <2>1. Tail(q) \in Seq(E) /\ Len(Tail(q)) = Len(q) - 1
        /\ \A i \in 1..Len(Tail(q)) : Tail(q)[i] = q[i+1]
    BY <1>1
  <2> QED
    BY <2>1, Zenon
<1>3. DOMAIN r = 1..Len(q)-1 /\ \A i \in 1..Len(q)-1 : i+1 \in DOMAIN q
  BY <1>1, <1>2
<1>4. \A i, j \in 1..Len(q) : i <= j => q[i].ts <= q[j].ts
  BY <1>1 DEF Sorted
<1>5. Sorted(r)
  <2>1. \A i, j \in 1..Len(q)-1 : i <= j => r[i].ts <= r[j].ts
    BY <1>1, <1>2, <1>3, <1>4
  <2> QED
    BY <1>3, <2>1 DEF Sorted
<1>6. Head(q) \in E /\ Head(q).ts \in Nat
  BY <1>1
<1>7. ASSUME NEW i \in DOMAIN q PROVE q[i].ts >= Head(q).ts
  <2>1. q[1].ts <= q[i].ts /\ q[i] \in E
    BY <1>1, <1>4
  <2> QED
    BY <1>1, <1>6, <2>1
<1>8. \A t : NotBefore(q, t) => Head(q).ts >= t /\ NotBefore(r, t)
  BY <1>1, <1>2, <1>3 DEF NotBefore
<1> QED
  BY <1>1, <1>2, <1>5, <1>6, <1>7, <1>8 DEF NotBefore


-----------------------------------------------------------------------------
(* Sums over a finite set.  SumFunction adds the values in an order that    *)
(* CHOOSE fixes; the lemmas say that the order is of no importance.         *)
Chosen(s) == CHOOSE x \in s : TRUE

(* h adds up f over the sets of D, which is closed under subsets. *)
Adds(h, f, D) ==
    h = [s \in D |-> IF s = {} THEN 0 ELSE f[Chosen(s)] + h[s \ {Chosen(s)}]]

LEMMA ChosenIn == ASSUME NEW s, s # {} PROVE Chosen(s) \in s
BY DEF Chosen

LEMMA SumIsChoice ==
    ASSUME NEW f
    PROVE  SumFunction(f) = (CHOOSE h : Adds(h, f, SUBSET (DOMAIN f)))[DOMAIN f]
BY DEF SumFunction, SumFunctionOnSet, FoldFunctionOnSet, MapThenFoldSet, Adds, Chosen

(* The subsets of S of at most n elements. *)
Small(S, n) == {s \in SUBSET S : Cardinality(s) <= n}

LEMMA SmallFacts ==
    ASSUME NEW S, IsFiniteSet(S)
    PROVE  /\ \A s \in SUBSET S : IsFiniteSet(s) /\ Cardinality(s) \in Nat
           /\ \A s \in SUBSET S : \A x \in s :
                s \ {x} \in SUBSET S /\ Cardinality(s \ {x}) = Cardinality(s) - 1
           /\ \A s \in SUBSET S : Cardinality(s) = 0 <=> s = {}
           /\ \A s \in SUBSET S : Cardinality(s) <= Cardinality(S)
<1>1. \A s \in SUBSET S : IsFiniteSet(s) /\ Cardinality(s) <= Cardinality(S)
  BY FS_Subset
<1>2. \A s \in SUBSET S : Cardinality(s) \in Nat /\ (Cardinality(s) = 0 <=> s = {})
  BY <1>1, FS_CardinalityType, FS_EmptySet
<1>3. \A s \in SUBSET S : \A x \in s : Cardinality(s \ {x}) = Cardinality(s) - 1
  BY <1>1, FS_RemoveElement, Zenon
<1> QED
  BY <1>1, <1>2, <1>3

(* The sum exists: by induction on the size of the sets. *)
LEMMA AddsSmall ==
    ASSUME NEW S, IsFiniteSet(S), NEW f, NEW n \in Nat
    PROVE  \E h : Adds(h, f, Small(S, n))
<1> DEFINE Bad == {k \in Nat : ~ \E h : Adds(h, f, Small(S, k))}
<1> SUFFICES ASSUME Bad # {} PROVE FALSE
  OBVIOUS
<1>1. PICK k \in Bad : \A m \in Bad : k <= m
  <2>1. Bad \in SUBSET Nat
    OBVIOUS
  <2> QED
    BY <2>1, LeastNatural, Zenon
<1>2. k \in Nat /\ ~ \E h : Adds(h, f, Small(S, k))
  OBVIOUS
<1>3. CASE k = 0
  <2>1. \A s \in Small(S, k) : s = {}
    BY <1>3, SmallFacts DEF Small
  <2>2. Adds([s \in Small(S, k) |-> 0], f, Small(S, k))
    BY <2>1 DEF Adds
  <2> QED
    BY <1>2, <2>2
<1>4. CASE k # 0
  <2>1. k - 1 \in Nat /\ ~(k <= k - 1)
    BY <1>2, <1>4
  <2>2. k - 1 \notin Bad
    BY <1>1, <2>1, Zenon
  <2>3. PICK g : Adds(g, f, Small(S, k - 1))
    BY <2>1, <2>2
  <2> DEFINE h == [s \in Small(S, k) |-> IF s = {} THEN 0 ELSE f[Chosen(s)] + g[s \ {Chosen(s)}]]
  <2>4. ASSUME NEW s \in Small(S, k), s # {} PROVE s \ {Chosen(s)} \in Small(S, k - 1)
    BY <1>2, <2>4, ChosenIn, SmallFacts DEF Small
  <2>5. ASSUME NEW s \in Small(S, k - 1) PROVE s \in Small(S, k) /\ h[s] = g[s]
    <3>1. s \in Small(S, k)
      BY <1>2, SmallFacts DEF Small
    <3>2. g[s] = IF s = {} THEN 0 ELSE f[Chosen(s)] + g[s \ {Chosen(s)}]
      BY <2>3, Zenon DEF Adds
    <3> QED
      BY <3>1, <3>2
  <2>6. Adds(h, f, Small(S, k))
    <3>1. \A s \in Small(S, k) : s # {} => h[s \ {Chosen(s)}] = g[s \ {Chosen(s)}]
      BY <2>4, <2>5, Zenon
    <3> QED
      BY <3>1, Zenon DEF Adds
  <2> QED
    BY <1>2, <2>6
<1> QED
  BY <1>3, <1>4

(* h is the sum of f over the subsets of S: any element may be taken first. *)
Sums(h, f, S) ==
    \A s \in SUBSET S : /\ h[s] \in Nat
                        /\ s = {} => h[s] = 0
                        /\ \A x \in s : h[s] = f[x] + h[s \ {x}]

LEMMA AddsStep ==
    ASSUME NEW S, IsFiniteSet(S), NEW f \in [S -> Nat], NEW h, Adds(h, f, SUBSET S)
    PROVE  Sums(h, f, S)
<1> DEFINE P(s) == h[s] \in Nat /\ (s = {} => h[s] = 0) /\ \A x \in s : h[s] = f[x] + h[s \ {x}]
           Bad == {k \in Nat : \E s \in SUBSET S : Cardinality(s) = k /\ ~P(s)}
<1>0. \A s \in SUBSET S : h[s] = IF s = {} THEN 0 ELSE f[Chosen(s)] + h[s \ {Chosen(s)}]
  BY Zenon DEF Adds
<1> SUFFICES ASSUME Bad # {} PROVE FALSE
  BY SmallFacts DEF Sums
<1>1. PICK k \in Bad : \A m \in Bad : k <= m
  <2>1. Bad \in SUBSET Nat
    OBVIOUS
  <2> HIDE DEF Bad
  <2> QED
    BY <2>1, LeastNatural
<1>2. PICK s \in SUBSET S : Cardinality(s) = k /\ ~P(s)
  OBVIOUS
<1>3. ASSUME NEW t \in SUBSET S, Cardinality(t) < Cardinality(s) PROVE P(t)
  <2>1. Cardinality(t) \in Nat /\ ~(k <= Cardinality(t))
    BY <1>2, <1>3, SmallFacts
  <2>2. Cardinality(t) \notin Bad
    BY <1>1, <2>1, Zenon
  <2> QED
    BY <2>1, <2>2, Zenon
<1>4. h[s] = IF s = {} THEN 0 ELSE f[Chosen(s)] + h[s \ {Chosen(s)}]
  BY <1>0, Zenon
<1> HIDE DEF Bad
<1>5. s # {}
  <2> SUFFICES ASSUME s = {} PROVE P(s)
    BY <1>2
  <2> QED
    BY <1>4
<1>6. PICK c \in s : h[s] = f[c] + h[s \ {c}]
  BY <1>4, <1>5, ChosenIn, Zenon
<1>7. \A x \in s : s \ {x} \in SUBSET S /\ Cardinality(s \ {x}) < Cardinality(s)
  BY SmallFacts
<1>8. \A x \in s : P(s \ {x}) /\ f[x] \in Nat
  BY <1>3, <1>7
<1>9. h[s] \in Nat
  <2>1. h[s \ {c}] \in Nat /\ f[c] \in Nat
    BY <1>8
  <2> QED
    BY <1>6, <2>1
<1>10. PICK x \in s : h[s] # f[x] + h[s \ {x}]
  BY <1>2, <1>5, <1>9, Zenon
<1>11. x \in s \ {c} /\ c \in s \ {x}
  BY <1>6, <1>10, Zenon
<1>12. PICK rest \in SUBSET S : rest = (s \ {c}) \ {x} /\ rest = (s \ {x}) \ {c}
  BY Zenon
<1>13. h[s \ {c}] = f[x] + h[rest] /\ h[s \ {x}] = f[c] + h[rest]
  BY <1>8, <1>11, <1>12, Zenon
<1>14. Cardinality(rest) < Cardinality(s)
  <2>1. s \ {c} \in SUBSET S /\ Cardinality(s \ {c}) < Cardinality(s)
    BY <1>7
  <2>2. Cardinality(rest) = Cardinality(s \ {c}) - 1
    <3>1. \A t \in SUBSET S : \A y \in t : Cardinality(t \ {y}) = Cardinality(t) - 1
      BY SmallFacts, Zenon
    <3> QED
      BY <1>11, <1>12, <2>1, <3>1, Zenon
  <2>3. Cardinality(s \ {c}) \in Nat /\ Cardinality(s) \in Nat
    BY <2>1, SmallFacts
  <2> QED
    BY <2>1, <2>2, <2>3
<1>15. h[rest] \in Nat
  BY <1>3, <1>14
<1> HIDE DEF P
<1>16. f[c] \in Nat /\ f[x] \in Nat
  BY <1>8
<1> QED
  BY <1>6, <1>10, <1>13, <1>15, <1>16

(* SumFunction is such a sum. *)
LEMMA SumFunctionSums ==
    ASSUME NEW S, IsFiniteSet(S), NEW f \in [S -> Nat]
    PROVE  \E h : Sums(h, f, S) /\ SumFunction(f) = h[S]
<1>1. PICK n \in Nat : SUBSET S = Small(S, n)
  BY SmallFacts DEF Small
<1>2. \E h : Adds(h, f, Small(S, n))
  BY AddsSmall, Zenon
<1>3. \E h : Adds(h, f, SUBSET S)
  BY <1>1, <1>2, Zenon
<1>4. PICK h : h = (CHOOSE i : Adds(i, f, SUBSET S)) /\ Adds(h, f, SUBSET S)
  BY <1>3, Zenon
<1>5. DOMAIN f = S
  OBVIOUS
<1>6. SumFunction(f) = h[S]
  BY <1>4, <1>5, SumIsChoice, Zenon
<1>7. Sums(h, f, S)
  BY <1>4, AddsStep, Zenon
<1> QED
  BY <1>6, <1>7, Zenon

(* A sum of smaller values is not greater. *)
LEMMA SumsLe ==
    ASSUME NEW S, IsFiniteSet(S), NEW f \in [S -> Nat], NEW g \in [S -> Nat],
           NEW h, Sums(h, f, S), NEW i, Sums(i, g, S)
    PROVE  \A s \in SUBSET S : (\A x \in s : f[x] <= g[x]) => h[s] <= i[s]
<1> DEFINE P(s) == (\A x \in s : f[x] <= g[x]) => h[s] <= i[s]
           Bad == {k \in Nat : \E s \in SUBSET S : Cardinality(s) = k /\ ~P(s)}
<1> SUFFICES ASSUME Bad # {} PROVE FALSE
  BY SmallFacts
<1>1. PICK k \in Bad : \A m \in Bad : k <= m
  <2>1. Bad \in SUBSET Nat
    OBVIOUS
  <2> HIDE DEF Bad
  <2> QED
    BY <2>1, LeastNatural
<1>2. PICK s \in SUBSET S : Cardinality(s) = k /\ ~P(s)
  OBVIOUS
<1>3. ASSUME NEW t \in SUBSET S, Cardinality(t) < Cardinality(s) PROVE P(t)
  <2>1. Cardinality(t) \in Nat /\ ~(k <= Cardinality(t))
    BY <1>2, <1>3, SmallFacts
  <2>2. Cardinality(t) \notin Bad
    BY <1>1, <2>1, Zenon
  <2> QED
    BY <2>1, <2>2
<1> HIDE DEF Bad
<1>4. /\ \A t \in SUBSET S : /\ h[t] \in Nat
                             /\ t = {} => h[t] = 0
                             /\ \A x \in t : h[t] = f[x] + h[t \ {x}]
      /\ \A t \in SUBSET S : /\ i[t] \in Nat
                             /\ t = {} => i[t] = 0
                             /\ \A x \in t : i[t] = g[x] + i[t \ {x}]
  BY Zenon DEF Sums
<1>5. PICK c : c \in s
  <2>1. s = {} => h[s] = 0 /\ i[s] = 0
    BY <1>4
  <2> QED
    BY <1>2, <2>1
<1>6. s \ {c} \in SUBSET S /\ Cardinality(s \ {c}) < Cardinality(s)
  BY <1>5, SmallFacts
<1>7. P(s \ {c})
  BY <1>3, <1>6
<1>8. h[s] = f[c] + h[s \ {c}] /\ i[s] = g[c] + i[s \ {c}] /\ h[s \ {c}] \in Nat /\ i[s \ {c}] \in Nat
  BY <1>4, <1>5, <1>6, Zenon
<1>9. f[c] \in Nat /\ g[c] \in Nat
  BY <1>5
<1>10. (\A x \in s : f[x] <= g[x]) /\ ~(h[s] <= i[s])
  BY <1>2
<1>11. h[s \ {c}] <= i[s \ {c}] /\ f[c] <= g[c]
  BY <1>5, <1>7, <1>10
<1> HIDE DEF P
<1> QED
  BY <1>8, <1>9, <1>10, <1>11

(* Changing one summand changes the sum by as much. *)
LEMMA SumUpdate ==
    ASSUME NEW S, IsFiniteSet(S), NEW f \in [S -> Nat], NEW g \in [S -> Nat], NEW x \in S,
           \A y \in S \ {x} : f[y] = g[y]
    PROVE  /\ SumFunction(f) \in Nat /\ SumFunction(g) \in Nat
           /\ SumFunction(f) + g[x] = SumFunction(g) + f[x]
<1>1. PICK h : Sums(h, f, S) /\ SumFunction(f) = h[S]
  BY SumFunctionSums
<1>2. PICK i : Sums(i, g, S) /\ SumFunction(g) = i[S]
  BY SumFunctionSums
<1>3. S \ {x} \in SUBSET S /\ S \in SUBSET S
  OBVIOUS
<1>4. f[x] \in Nat /\ g[x] \in Nat /\ \A y \in S \ {x} : f[y] <= g[y] /\ g[y] <= f[y]
  OBVIOUS
<1>5. h[S \ {x}] <= i[S \ {x}] /\ i[S \ {x}] <= h[S \ {x}]
  <2>1. \A s \in SUBSET S : (\A y \in s : f[y] <= g[y]) => h[s] <= i[s]
    BY <1>1, <1>2, SumsLe
  <2>2. \A s \in SUBSET S : (\A y \in s : g[y] <= f[y]) => i[s] <= h[s]
    BY <1>1, <1>2, SumsLe
  <2> QED
    BY <1>3, <1>4, <2>1, <2>2
<1>6. /\ h[S] = f[x] + h[S \ {x}] /\ i[S] = g[x] + i[S \ {x}]
      /\ h[S \ {x}] \in Nat /\ i[S \ {x}] \in Nat
  BY <1>1, <1>2, <1>3, Zenon DEF Sums
<1> QED
  BY <1>1, <1>2, <1>4, <1>5, <1>6

(* Sums that are equal although no summand is greater have equal summands. *)
LEMMA SumEqual ==
    ASSUME NEW S, IsFiniteSet(S), NEW f \in [S -> Nat], NEW g \in [S -> Nat],
           \A y \in S : f[y] <= g[y], SumFunction(f) = SumFunction(g)
    PROVE  \A y \in S : f[y] = g[y]
<1> SUFFICES ASSUME NEW x \in S PROVE f[x] = g[x]
  OBVIOUS
<1>1. PICK h : Sums(h, f, S) /\ SumFunction(f) = h[S]
  BY SumFunctionSums
<1>2. PICK i : Sums(i, g, S) /\ SumFunction(g) = i[S]
  BY SumFunctionSums
<1>3. S \ {x} \in SUBSET S /\ S \in SUBSET S
  OBVIOUS
<1>4. f[x] \in Nat /\ g[x] \in Nat /\ f[x] <= g[x] /\ \A y \in S \ {x} : f[y] <= g[y]
  OBVIOUS
<1>5. h[S \ {x}] <= i[S \ {x}]
  <2>1. \A s \in SUBSET S : (\A y \in s : f[y] <= g[y]) => h[s] <= i[s]
    BY <1>1, <1>2, SumsLe
  <2> QED
    BY <1>3, <1>4, <2>1
<1>6. /\ h[S] = f[x] + h[S \ {x}] /\ i[S] = g[x] + i[S \ {x}]
      /\ h[S \ {x}] \in Nat /\ i[S \ {x}] \in Nat
  BY <1>1, <1>2, <1>3, Zenon DEF Sums
<1>7. h[S] = i[S]
  BY <1>1, <1>2, Zenon
<1> QED
  BY <1>4, <1>5, <1>6, <1>7

-----------------------------------------------------------------------------
(* The inductive invariant. *)

EventType == [ts : Nat, fn : {"user", "stop"}]
MsgType == [rx : Nat, from : Ranks, seq : Nat]

Types ==
    /\ topology \in Topologies
    /\ m_events \in [Ranks -> Seq(EventType)]
    /\ \A r \in Ranks : Sorted(m_events[r])
    /\ m_currentTs \in [Ranks -> Nat] /\ m_grantedTime \in [Ranks -> Nat]
    /\ DOMAIN m_stop = Ranks
    /\ pc \in [Ranks -> {"loop", "receive", "allgather", "window", "handler", "done"}]
    /\ DOMAIN m_pLBTS = Ranks
    /\ transit \in [Ranks -> SUBSET MsgType] /\ arrived \in [Ranks -> SUBSET MsgType]
    /\ g_txCount \in [Ranks -> Nat] /\ g_rxCount \in [Ranks -> Nat]

(* Every packet is on its way or has arrived, once. *)
PacketInv ==
    \A r \in Ranks :
        /\ IsFiniteSet(transit[r]) /\ IsFiniteSet(arrived[r]) /\ transit[r] \intersect arrived[r] = {}
        /\ \A msg \in transit[r] \union arrived[r] : msg.seq < g_txCount[msg.from]

(* Every packet sent was received, has arrived or is on its way. *)
Account == [r \in Ranks |-> g_rxCount[r] + (Cardinality(transit[r]) + Cardinality(arrived[r]))]
CountInv == SumFunction(g_txCount) = SumFunction(Account)

(* The LBTS message of a rank in the collective operation is up to date. *)
LbtsInv ==
    \A r \in Ranks : pc[r] = "allgather" =>
        /\ m_pLBTS[r].rx = g_rxCount[r] /\ m_pLBTS[r].tx = g_txCount[r]
        /\ m_pLBTS[r].finished <=> IsLocalFinished(r)
        /\ m_pLBTS[r].time = NextTime(r)

(* The look-ahead of r in the network net. *)
Own(net, r) ==
    IF Cardinality(Ranks) <= 1 THEN 0
    ELSE Min({Bound[r]} \union {net[l] : l \in {k \in DOMAIN net : k[1] = r}})
Ahead(net, r) ==
    LET largest == Max({0} \union {Own(net, s) : s \in {t \in Ranks : Own(net, t) # MaxTime}})
    IN  IF Own(net, r) = MaxTime /\ largest # 0 THEN largest ELSE Own(net, r)

(* The events and packets of rank r respect the bound b. *)
RankWindow(b, r) ==
    /\ m_grantedTime[r] <= b + Ahead(topology, r)
    /\ m_currentTs[r] <= b + Ahead(topology, r)
    /\ ~m_stop[r] => NotBefore(m_events[r], b)
    /\ pc[r] = "handler" => ~m_stop[r] /\ m_currentTs[r] >= b
    /\ \A msg \in transit[r] \union arrived[r] : msg.rx >= b + Ahead(topology, r)

WindowInv == \E b \in Nat : \A r \in Ranks : RankWindow(b, r)

(* No rank has an event before its current time. *)
ClockInv == \A r \in Ranks : NotBefore(m_events[r], m_currentTs[r])

DoneInv ==
    (\E r \in Ranks : pc[r] = "done") =>
        \A s \in Ranks : pc[s] = "done" /\ IsLocalFinished(s) /\ transit[s] = {} /\ arrived[s] = {}

GtwInv ==
    Types /\ PacketInv /\ CountInv /\ LbtsInv /\ WindowInv /\ ClockInv /\ DoneInv

-----------------------------------------------------------------------------
(* CalculateLookAhead. *)

LEMMA LookAheadIs == ASSUME NEW r PROVE LookAhead(r) = Ahead(topology, r)
BY DEF LookAhead, OwnLookAhead, Ahead, Own

(* The look-ahead is a time and no link of the rank, in either direction, *)
(* is faster.                                                               *)
LEMMA AheadFacts ==
    ASSUME NEW net \in Topologies, NEW r \in Ranks
    PROVE  /\ Ahead(net, r) \in Nat
           /\ \A l \in DOMAIN net : l[2] = r => net[l] \in Nat /\ Ahead(net, r) <= net[l]
<1>1. ASSUME NEW s \in Ranks
      PROVE  /\ Own(net, s) \in 0..MaxTime
             /\ \A l \in DOMAIN net : l[1] = s => Own(net, s) <= net[l]
  <2> DEFINE S == {Bound[s]} \union {net[l] : l \in {k \in DOMAIN net : k[1] = s}}
  <2>1. S \in SUBSET (Nat \ {0}) /\ S \in SUBSET Nat /\ S # {}
    <3>1. Bound[s] \in Nat \ {0}
      BY GtwTimes
    <3>2. \A l \in DOMAIN net : net[l] \in Nat \ {0}
      BY GtwTopologies, Zenon
    <3> QED
      BY <3>1, <3>2
  <2>2. Own(net, s) = IF Cardinality(Ranks) <= 1 THEN 0 ELSE Min(S)
    BY DEF Own
  <2>3. Bound[s] \in S /\ Bound[s] \in 1..MaxTime /\ \A l \in DOMAIN net : l[1] = s => net[l] \in S
    BY GtwTimes
  <2> HIDE DEF S
  <2>4. Min(S) \in S /\ \A m \in S : Min(S) <= m
    BY <2>1, MinNat
  <2>5. Min(S) \in Nat \ {0} /\ MaxTime \in Nat
    BY <2>1, <2>4, GtwTimes, Zenon
  <2>6. \A l \in DOMAIN net : l[1] = s => net[l] \in Nat /\ Min(S) <= net[l]
    BY <2>1, <2>3, <2>4, Zenon
  <2> QED
    BY <2>2, <2>3, <2>4, <2>5, <2>6
<1> DEFINE S == {0} \union {Own(net, s) : s \in {t \in Ranks : Own(net, t) # MaxTime}}
<1>2. S \in SUBSET Nat /\ S # {} /\ MaxTime \in Nat /\ \A m \in S : m <= MaxTime
  BY <1>1, GtwTimes
<1> DEFINE largest == Max(S)
<1>3. Ahead(net, r) = IF Own(net, r) = MaxTime /\ largest # 0 THEN largest ELSE Own(net, r)
  BY DEF Ahead
<1> HIDE DEF S
<1>4. largest \in Nat /\ largest <= MaxTime
  BY <1>2, MaxNat, Zenon
<1> HIDE DEF largest
<1>5. Ahead(net, r) \in Nat /\ Ahead(net, r) <= Own(net, r)
  BY <1>1, <1>2, <1>3, <1>4
<1>6. ASSUME NEW l \in DOMAIN net, l[2] = r PROVE net[l] \in Nat /\ Ahead(net, r) <= net[l]
  <2>1. PICK k \in DOMAIN net : k = <<l[2], l[1]>> /\ net[k] = net[l] /\ net[l] \in Nat
    BY GtwTopologies, Zenon
  <2>2. k[1] = r
    BY <1>6, <2>1
  <2>3. Own(net, r) <= net[k] /\ Own(net, r) \in Nat
    BY <1>1, <2>2
  <2> QED
    BY <1>5, <2>1, <2>3
<1> QED
  BY <1>5, <1>6

-----------------------------------------------------------------------------
(* What the actions do to the queues. *)

LEMMA EventFacts ==
    /\ \A e \in EventType : e.ts \in Nat
    /\ \A t \in Nat : \A fn \in {"user", "stop"} : Event(t, fn) \in EventType /\ Event(t, fn).ts = t
BY DEF EventType, Event

(* InsertEvent on the queue of a rank. *)
LEMMA QueueInsert ==
    ASSUME Types, NEW r \in Ranks, NEW t \in Nat
    PROVE  /\ InsertEvent(m_events[r], Event(t, "user")) \in Seq(EventType)
           /\ Sorted(InsertEvent(m_events[r], Event(t, "user")))
           /\ \A b : NotBefore(m_events[r], b) /\ t >= b
                       => NotBefore(InsertEvent(m_events[r], Event(t, "user")), b)
<1>1. m_events[r] \in Seq(EventType) /\ Sorted(m_events[r])
  BY DEF Types
<1>2. PICK ev \in EventType : ev = Event(t, "user") /\ ev.ts = t
  BY EventFacts
<1>3. InsertEvent(m_events[r], ev) \in Seq(EventType) /\ Sorted(InsertEvent(m_events[r], ev))
  BY <1>1, EventFacts, InsertSorted
<1>4. ASSUME NEW b, NotBefore(m_events[r], b), t >= b PROVE NotBefore(InsertEvent(m_events[r], ev), b)
  <2>1. ev.ts >= b
    BY <1>2, <1>4
  <2> QED
    BY <1>1, <1>4, <2>1, EventFacts, InsertNotBefore
<1> QED
  BY <1>2, <1>3, <1>4, Zenon

(* The event at the head of the queue of a rank. *)
LEMMA QueueTail ==
    ASSUME Types, NEW r \in Ranks, m_events[r] # <<>>
    PROVE  /\ Head(m_events[r]) \in EventType /\ Head(m_events[r]).ts \in Nat
           /\ NotBefore(m_events[r], Head(m_events[r]).ts)
           /\ Tail(m_events[r]) \in Seq(EventType) /\ Sorted(Tail(m_events[r]))
           /\ \A b : NotBefore(m_events[r], b)
                       => Head(m_events[r]).ts >= b /\ NotBefore(Tail(m_events[r]), b)
<1>1. m_events[r] \in Seq(EventType) /\ Sorted(m_events[r])
  BY DEF Types
<1> QED
  BY <1>1, EventFacts, TailFacts

-----------------------------------------------------------------------------
(* The steps. *)

(* Only the place of rank r in Run changes. *)
QuietStep(r) == Synchronize(r) \/ OutsideWindow(r) \/ HandlerReturns(r)

LEMMA NextCases ==
    ASSUME [Next]_vars
    PROVE  \/ Allgather
           \/ \E r \in Ranks : \/ QuietStep(r) \/ ReceiveMessage(r) \/ JoinAllgather(r)
                               \/ ProcessOneEvent(r) \/ HandlerSchedule(r) \/ SendPacket(r)
                               \/ Arrive(r)
           \/ UNCHANGED vars
BY DEF Next, Step, Terminated, QuietStep

(* A rank in the window has an event, and was not stopped. *)
LEMMA InWindowFacts ==
    ASSUME Types, NEW r \in Ranks, InWindow(r)
    PROVE  m_events[r] # <<>> /\ ~m_stop[r] /\ Head(m_events[r]).ts <= m_grantedTime[r]
BY DEF InWindow, IsLocalFinished, NextTime

LEMMA LinkFacts ==
    ASSUME Types, NEW l \in DOMAIN topology
    PROVE  l[1] \in Ranks /\ l[2] \in Ranks /\ topology[l] \in Nat
<1>1. l \in Ranks \X Ranks /\ topology[l] \in Nat \ {0}
  BY GtwTopologies, Zenon DEF Types
<1> QED
  BY <1>1

(* The least time of an exchange. *)
LEMMA SmallestFacts ==
    ASSUME Types, LbtsInv, \A r \in Ranks : pc[r] = "allgather"
    PROVE  SmallestTime \in Nat /\ \A r \in Ranks : SmallestTime <= NextTime(r)
<1> DEFINE S == {m_pLBTS[r].time : r \in Ranks}
<1>1. \A r \in Ranks : NextTime(r) \in Nat /\ NextTime(r) = m_pLBTS[r].time
  BY QueueTail, GtwTimes DEF LbtsInv, NextTime, IsLocalFinished
<1>2. S \in SUBSET Nat /\ S # {} /\ \A r \in Ranks : NextTime(r) \in S
  BY <1>1, GtwRanks
<1>3. SmallestTime = Min(S)
  BY DEF SmallestTime
<1> HIDE DEF S
<1> QED
  BY <1>2, <1>3, MinNat, Zenon

LEMMA TypesStep ==
    ASSUME Types, LbtsInv, [Next]_vars
    PROVE  Types'
<1>1. CASE UNCHANGED vars
  BY <1>1 DEF Types, vars
<1>2. ASSUME NEW r \in Ranks, QuietStep(r) PROVE Types'
  BY <1>2, Zenon DEF Types, QuietStep, Synchronize, OutsideWindow, HandlerReturns
<1>3. ASSUME NEW r \in Ranks, JoinAllgather(r) PROVE Types'
  BY <1>3 DEF Types, JoinAllgather
<1>4. ASSUME NEW r \in Ranks, ReceiveMessage(r) PROVE Types'
  <2>1. PICK msg \in arrived[r] :
          /\ arrived' = [arrived EXCEPT ![r] = @ \ {msg}]
          /\ m_events' = [m_events EXCEPT ![r] = InsertEvent(@, Event(msg.rx, "user"))]
    BY <1>4, Zenon DEF ReceiveMessage
  <2>2. msg.rx \in Nat
    BY DEF Types, MsgType
  <2>3. /\ InsertEvent(m_events[r], Event(msg.rx, "user")) \in Seq(EventType)
        /\ Sorted(InsertEvent(m_events[r], Event(msg.rx, "user")))
    BY <2>2, QueueInsert
  <2> QED
    BY <1>4, <2>1, <2>3 DEF Types, ReceiveMessage
<1>5. ASSUME NEW r \in Ranks, HandlerSchedule(r) PROVE Types'
  <2>1. PICK delay \in UserDelays :
          m_events' = [m_events EXCEPT ![r] = InsertEvent(@, Event(m_currentTs[r] + delay, "user"))]
    BY <1>5, Zenon DEF HandlerSchedule
  <2>2. m_currentTs[r] + delay \in Nat
    BY GtwTimes DEF Types
  <2>3. /\ InsertEvent(m_events[r], Event(m_currentTs[r] + delay, "user")) \in Seq(EventType)
        /\ Sorted(InsertEvent(m_events[r], Event(m_currentTs[r] + delay, "user")))
    BY <2>2, QueueInsert
  <2> QED
    BY <1>5, <2>1, <2>3 DEF Types, HandlerSchedule
<1>6. ASSUME NEW r \in Ranks, ProcessOneEvent(r) PROVE Types'
  <2>1. /\ Head(m_events[r]).ts \in Nat
        /\ Tail(m_events[r]) \in Seq(EventType) /\ Sorted(Tail(m_events[r]))
    BY <1>6, InWindowFacts, QueueTail DEF ProcessOneEvent
  <2> QED
    BY <1>6, <2>1 DEF Types, ProcessOneEvent
<1>7. ASSUME NEW r \in Ranks, SendPacket(r) PROVE Types'
  <2>1. PICK l \in DOMAIN topology, txTime \in TxTimes :
          /\ l[1] = r
          /\ transit' = [transit EXCEPT ![l[2]] =
               @ \union {[rx |-> m_currentTs[r] + txTime + topology[l],
                          from |-> r, seq |-> g_txCount[r]]}]
    BY <1>7, Zenon DEF SendPacket
  <2>2. topology[l] \in Nat /\ txTime \in Nat /\ m_currentTs[r] \in Nat /\ l[2] \in Ranks
    BY LinkFacts, GtwTimes DEF Types
  <2>3. [rx |-> m_currentTs[r] + txTime + topology[l], from |-> r, seq |-> g_txCount[r]] \in MsgType
    BY <2>2, SMTT(60) DEF Types, MsgType
  <2>4. transit' \in [Ranks -> SUBSET MsgType]
    BY <2>1, <2>2, <2>3, ZenonT(60) DEF Types
  <2>5. /\ g_txCount' = [g_txCount EXCEPT ![r] = @ + 1]
        /\ UNCHANGED <<topology, m_events, m_currentTs, m_grantedTime, m_stop, pc, m_pLBTS,
                       arrived, g_rxCount>>
    BY <1>7 DEF SendPacket
  <2> QED
    BY <2>4, <2>5 DEF Types
<1>8. ASSUME NEW r \in Ranks, Arrive(r) PROVE Types'
  BY <1>8 DEF Types, Arrive
<1>9. CASE Allgather
  <2>1. \A r \in Ranks : LookAhead(r) \in Nat
    BY LookAheadIs, AheadFacts DEF Types
  <2>2. SmallestTime \in Nat /\ MaxTime \in Nat
    BY <1>9, SmallestFacts, GtwTimes DEF Allgather
  <2>3. \A r \in Ranks : NewGrantedTime(r) \in Nat
    BY <2>1, <2>2 DEF NewGrantedTime, Types
  <2> QED
    BY <1>9, <2>3 DEF Types, Allgather
<1> QED
  BY <1>1, <1>2, <1>3, <1>4, <1>5, <1>6, <1>7, <1>8, <1>9, NextCases

LEMMA PacketStep ==
    ASSUME Types, PacketInv, [Next]_vars
    PROVE  PacketInv'
<1>1. CASE UNCHANGED vars
  BY <1>1 DEF PacketInv, vars
<1>2. ASSUME NEW r \in Ranks, \/ QuietStep(r) \/ JoinAllgather(r) \/ HandlerSchedule(r)
                              \/ ProcessOneEvent(r)
      PROVE  PacketInv'
  BY <1>2, Zenon DEF PacketInv, QuietStep, Synchronize, OutsideWindow, HandlerReturns, JoinAllgather,
              HandlerSchedule, ProcessOneEvent
<1>3. CASE Allgather
  BY <1>3, Zenon DEF PacketInv, Allgather
<1>4. ASSUME NEW r \in Ranks, ReceiveMessage(r) PROVE PacketInv'
  <2>1. PICK msg \in arrived[r] : arrived' = [arrived EXCEPT ![r] = @ \ {msg}]
    BY <1>4, Zenon DEF ReceiveMessage
  <2>2. IsFiniteSet(arrived[r] \ {msg})
    BY FS_RemoveElement DEF PacketInv
  <2> QED
    BY <1>4, <2>1, <2>2, Zenon DEF PacketInv, ReceiveMessage, Types
<1>5. ASSUME NEW r \in Ranks, Arrive(r) PROVE PacketInv'
  <2>1. PICK msg \in transit[r] :
          /\ transit' = [transit EXCEPT ![r] = @ \ {msg}]
          /\ arrived' = [arrived EXCEPT ![r] = @ \union {msg}]
    BY <1>5, Zenon DEF Arrive
  <2>2. IsFiniteSet(transit[r] \ {msg}) /\ IsFiniteSet(arrived[r] \union {msg})
    BY FS_RemoveElement, FS_AddElement DEF PacketInv
  <2> QED
    BY <1>5, <2>1, <2>2, Zenon DEF PacketInv, Arrive, Types
<1>6. ASSUME NEW r \in Ranks, SendPacket(r) PROVE PacketInv'
  <2>1. PICK l \in DOMAIN topology, txTime \in TxTimes :
          /\ l[1] = r
          /\ transit' = [transit EXCEPT ![l[2]] =
               @ \union {[rx |-> m_currentTs[r] + txTime + topology[l],
                          from |-> r, seq |-> g_txCount[r]]}]
    BY <1>6, Zenon DEF SendPacket
  <2> DEFINE msg == [rx |-> m_currentTs[r] + txTime + topology[l], from |-> r, seq |-> g_txCount[r]]
  <2>2. l[2] \in Ranks
    BY LinkFacts
  <2>3. msg.from = r /\ msg.seq = g_txCount[r] /\ transit' = [transit EXCEPT ![l[2]] = @ \union {msg}]
    BY <2>1
  <2> HIDE DEF msg
  <2>4. IsFiniteSet(transit[l[2]] \union {msg})
    BY <2>2, FS_AddElement, Zenon DEF PacketInv
  <2>5. g_txCount' = [g_txCount EXCEPT ![r] = @ + 1] /\ arrived' = arrived
    BY <1>6 DEF SendPacket
  <2>6. msg \notin arrived[l[2]]
    <3>1. msg \in arrived[l[2]] => msg.seq < g_txCount[msg.from]
      BY <2>2 DEF PacketInv
    <3>2. g_txCount[r] \in Nat
      BY DEF Types
    <3> QED
      BY <2>3, <3>1, <3>2
  <2>7. \A s \in Ranks : g_txCount[s] \in Nat /\ g_txCount'[s] \in Nat /\ g_txCount[s] <= g_txCount'[s]
    BY <2>5 DEF Types
  <2>8. \A s \in Ranks : \A m \in transit[s] \union arrived[s] :
           m.from \in Ranks /\ m.seq \in Nat /\ m.seq < g_txCount'[m.from]
    <3>1. \A s \in Ranks : \A m \in transit[s] \union arrived[s] : m.from \in Ranks /\ m.seq \in Nat
      <4>1. \A s \in Ranks : \A m \in transit[s] \union arrived[s] : m \in MsgType
        BY Zenon DEF Types
      <4> QED
        BY <4>1 DEF MsgType
    <3>2. \A s \in Ranks : \A m \in transit[s] \union arrived[s] : m.seq < g_txCount[m.from]
      BY Zenon DEF PacketInv
    <3>3. \A x, y, z \in Nat : x < y /\ y <= z => x < z
      OBVIOUS
    <3> QED
      BY <2>7, <3>1, <3>2, <3>3, Zenon
  <2>9. msg.seq < g_txCount'[msg.from]
    BY <2>3, <2>5 DEF Types
  <2> QED
    BY <2>2, <2>3, <2>4, <2>5, <2>6, <2>8, <2>9, ZenonT(60) DEF PacketInv, Types
<1> QED
  BY <1>1, <1>2, <1>3, <1>4, <1>5, <1>6, NextCases

(* The members of the two sums. *)
LEMMA AccountFacts ==
    ASSUME Types, PacketInv
    PROVE  /\ Account \in [Ranks -> Nat]
           /\ \A r \in Ranks : /\ Account[r] = g_rxCount[r] + (Cardinality(transit[r]) + Cardinality(arrived[r]))
                               /\ g_rxCount[r] \in Nat
                               /\ Cardinality(transit[r]) \in Nat /\ Cardinality(arrived[r]) \in Nat
<1>1. \A r \in Ranks : Cardinality(transit[r]) \in Nat /\ Cardinality(arrived[r]) \in Nat
                       /\ g_rxCount[r] \in Nat
  BY FS_CardinalityType DEF PacketInv, Types
<1> QED
  BY <1>1 DEF Account

LEMMA CountStep ==
    ASSUME Types, PacketInv, CountInv, Types', PacketInv', [Next]_vars
    PROVE  CountInv'
<1>1. CASE UNCHANGED vars
  BY <1>1 DEF CountInv, Account, vars
<1>2. ASSUME NEW r \in Ranks, \/ QuietStep(r) \/ JoinAllgather(r) \/ HandlerSchedule(r)
                              \/ ProcessOneEvent(r)
      PROVE  CountInv'
  BY <1>2, Zenon DEF CountInv, Account, QuietStep, Synchronize, OutsideWindow, HandlerReturns,
              JoinAllgather, HandlerSchedule, ProcessOneEvent
<1>3. CASE Allgather
  BY <1>3, Zenon DEF CountInv, Account, Allgather
<1>4. ASSUME NEW r \in Ranks, ReceiveMessage(r) PROVE CountInv'
  <2>1. PICK msg \in arrived[r] : arrived' = [arrived EXCEPT ![r] = @ \ {msg}]
    BY <1>4, Zenon DEF ReceiveMessage
  <2>2. g_rxCount' = [g_rxCount EXCEPT ![r] = @ + 1] /\ transit' = transit /\ g_txCount' = g_txCount
    BY <1>4 DEF ReceiveMessage
  <2>3. Cardinality(arrived[r] \ {msg}) = Cardinality(arrived[r]) - 1
    BY FS_RemoveElement, Zenon DEF PacketInv
  <2>4. ASSUME NEW s \in Ranks
        PROVE  g_rxCount'[s] + (Cardinality(transit'[s]) + Cardinality(arrived'[s]))
               = g_rxCount[s] + (Cardinality(transit[s]) + Cardinality(arrived[s]))
    <3>1. CASE s # r
      <4>1. g_rxCount'[s] = g_rxCount[s] /\ transit'[s] = transit[s] /\ arrived'[s] = arrived[s]
        BY <2>1, <2>2, <3>1 DEF Types
      <4> QED
        BY <4>1
    <3>2. CASE s = r
      <4>1. g_rxCount'[s] = g_rxCount[s] + 1 /\ transit'[s] = transit[s] /\ arrived'[s] = arrived[s] \ {msg}
        BY <2>1, <2>2, <3>2 DEF Types
      <4>2. g_rxCount[s] \in Nat /\ Cardinality(transit[s]) \in Nat /\ Cardinality(arrived[s]) \in Nat
        BY AccountFacts
      <4> QED
        BY <2>3, <3>2, <4>1, <4>2
    <3> QED
      BY <3>1, <3>2
  <2>5. Account' = Account
    BY <2>4 DEF Account
  <2> QED
    BY <2>2, <2>5 DEF CountInv
<1>5. ASSUME NEW r \in Ranks, Arrive(r) PROVE CountInv'
  <2>1. PICK msg \in transit[r] :
          /\ transit' = [transit EXCEPT ![r] = @ \ {msg}]
          /\ arrived' = [arrived EXCEPT ![r] = @ \union {msg}]
    BY <1>5, Zenon DEF Arrive
  <2>2. g_rxCount' = g_rxCount /\ g_txCount' = g_txCount
    BY <1>5 DEF Arrive
  <2>3. /\ Cardinality(transit[r] \ {msg}) = Cardinality(transit[r]) - 1
        /\ Cardinality(arrived[r] \union {msg}) = Cardinality(arrived[r]) + 1
    BY FS_RemoveElement, FS_AddElement, Zenon DEF PacketInv
  <2>4. ASSUME NEW s \in Ranks
        PROVE  g_rxCount'[s] + (Cardinality(transit'[s]) + Cardinality(arrived'[s]))
               = g_rxCount[s] + (Cardinality(transit[s]) + Cardinality(arrived[s]))
    <3>1. CASE s # r
      <4>1. g_rxCount'[s] = g_rxCount[s] /\ transit'[s] = transit[s] /\ arrived'[s] = arrived[s]
        BY <2>1, <2>2, <3>1 DEF Types
      <4> QED
        BY <4>1
    <3>2. CASE s = r
      <4>1. /\ g_rxCount'[s] = g_rxCount[s] /\ transit'[s] = transit[s] \ {msg}
            /\ arrived'[s] = arrived[s] \union {msg}
        BY <2>1, <2>2, <3>2 DEF Types
      <4>2. g_rxCount[s] \in Nat /\ Cardinality(transit[s]) \in Nat /\ Cardinality(arrived[s]) \in Nat
        BY AccountFacts
      <4> QED
        BY <2>3, <3>2, <4>1, <4>2
    <3> QED
      BY <3>1, <3>2
  <2>5. Account' = Account
    BY <2>4 DEF Account
  <2> QED
    BY <2>2, <2>5 DEF CountInv
<1>6. ASSUME NEW r \in Ranks, SendPacket(r) PROVE CountInv'
  <2>1. PICK l \in DOMAIN topology, txTime \in TxTimes :
          transit' = [transit EXCEPT ![l[2]] =
               @ \union {[rx |-> m_currentTs[r] + txTime + topology[l],
                          from |-> r, seq |-> g_txCount[r]]}]
    BY <1>6, Zenon DEF SendPacket
  <2> DEFINE msg == [rx |-> m_currentTs[r] + txTime + topology[l], from |-> r, seq |-> g_txCount[r]]
  <2>2. msg.from = r /\ msg.seq = g_txCount[r] /\ transit' = [transit EXCEPT ![l[2]] = @ \union {msg}]
    BY <2>1
  <2> HIDE DEF msg
  <2>3. PICK d \in Ranks : d = l[2]
    BY LinkFacts
  <2>4. msg \notin transit[d]
    <3>1. \A m \in transit[d] : m.seq < g_txCount[m.from]
      BY DEF PacketInv
    <3>2. ~(g_txCount[r] < g_txCount[r])
      BY DEF Types
    <3> QED
      BY <2>2, <3>1, <3>2, Zenon
  <2>5. Cardinality(transit[d] \union {msg}) = Cardinality(transit[d]) + 1
    BY <2>4, FS_AddElement, Zenon DEF PacketInv
  <2>6. g_txCount' = [g_txCount EXCEPT ![r] = @ + 1] /\ arrived' = arrived /\ g_rxCount' = g_rxCount
    BY <1>6 DEF SendPacket
  <2>7. /\ g_txCount \in [Ranks -> Nat] /\ g_txCount' \in [Ranks -> Nat]
        /\ \A s \in Ranks \ {r} : g_txCount[s] = g_txCount'[s]
        /\ g_txCount'[r] = g_txCount[r] + 1 /\ g_txCount[r] \in Nat
    BY <2>6, Zenon DEF Types
  <2>8. /\ Account \in [Ranks -> Nat] /\ Account' \in [Ranks -> Nat] /\ Account[d] \in Nat
        /\ \A s \in Ranks \ {d} : Account[s] = Account'[s]
        /\ Account'[d] = Account[d] + 1
    <3>1. \A s \in Ranks \ {d} : transit'[s] = transit[s]
      BY <2>2, <2>3, Zenon DEF Types
    <3>2. transit'[d] = transit[d] \union {msg}
      BY <2>2, <2>3, Zenon DEF Types
    <3>3. Account' \in [Ranks -> Nat] /\ \A s \in Ranks :
             Account'[s] = g_rxCount'[s] + (Cardinality(transit'[s]) + Cardinality(arrived'[s]))
      <4>1. \A s \in Ranks : Cardinality(transit'[s]) \in Nat /\ Cardinality(arrived'[s]) \in Nat
                             /\ g_rxCount'[s] \in Nat
        BY FS_CardinalityType DEF PacketInv, Types
      <4> QED
        BY <4>1 DEF Account
    <3>4. \A s \in Ranks \ {d} : Account[s] = Account'[s]
      BY <2>6, <3>1, <3>3, AccountFacts, Zenon
    <3>5. Account'[d] = g_rxCount[d] + ((Cardinality(transit[d]) + 1) + Cardinality(arrived[d]))
      BY <2>5, <2>6, <3>2, <3>3, Zenon
    <3> QED
      BY <3>3, <3>4, <3>5, AccountFacts
  <2>9. /\ SumFunction(g_txCount) \in Nat /\ SumFunction(g_txCount') \in Nat
        /\ SumFunction(g_txCount) + g_txCount'[r] = SumFunction(g_txCount') + g_txCount[r]
    BY <2>7, SumUpdate, GtwRanks
  <2>10. /\ SumFunction(Account) \in Nat /\ SumFunction(Account') \in Nat
         /\ SumFunction(Account) + Account'[d] = SumFunction(Account') + Account[d]
    BY <2>8, SumUpdate, GtwRanks
  <2> QED
    BY <2>7, <2>8, <2>9, <2>10 DEF CountInv
<1> QED
  BY <1>1, <1>2, <1>3, <1>4, <1>5, <1>6, NextCases

(* The condition totRx == totTx of the code: nothing is on its way. *)
LEMMA Balanced ==
    ASSUME Types, PacketInv, CountInv, LbtsInv, \A r \in Ranks : pc[r] = "allgather",
           TotalRx = TotalTx
    PROVE  \A r \in Ranks : transit[r] = {} /\ arrived[r] = {}
<1>1. /\ [r \in Ranks |-> m_pLBTS[r].rx] = g_rxCount
      /\ [r \in Ranks |-> m_pLBTS[r].tx] = g_txCount
  BY DEF LbtsInv, Types
<1>2. SumFunction(g_rxCount) = SumFunction(Account)
  BY <1>1 DEF TotalRx, TotalTx, CountInv
<1>3. Account \in [Ranks -> Nat] /\ g_rxCount \in [Ranks -> Nat] /\ \A r \in Ranks : g_rxCount[r] <= Account[r]
  BY AccountFacts DEF Types
<1>4. \A r \in Ranks : g_rxCount[r] = Account[r]
  BY <1>2, <1>3, SumEqual, GtwRanks
<1>5. \A r \in Ranks : Cardinality(transit[r]) = 0 /\ Cardinality(arrived[r]) = 0
  BY <1>4, AccountFacts
<1> QED
  BY <1>5, FS_EmptySet DEF PacketInv

LEMMA LbtsStep ==
    ASSUME Types, LbtsInv, [Next]_vars
    PROVE  LbtsInv'
<1>1. CASE UNCHANGED vars
  BY <1>1 DEF LbtsInv, IsLocalFinished, NextTime, vars
<1>2. ASSUME NEW r \in Ranks, \/ QuietStep(r) \/ ReceiveMessage(r) \/ HandlerSchedule(r)
                              \/ ProcessOneEvent(r) \/ SendPacket(r)
      PROVE  LbtsInv'
  <2>1. pc'[r] # "allgather"
    BY <1>2, Zenon DEF Types, QuietStep, Synchronize, OutsideWindow, HandlerReturns, ReceiveMessage,
                HandlerSchedule, ProcessOneEvent, SendPacket
  <2>2. \A s \in Ranks \ {r} :
          /\ pc'[s] = pc[s] /\ m_pLBTS'[s] = m_pLBTS[s] /\ m_events'[s] = m_events[s]
          /\ m_stop'[s] = m_stop[s] /\ g_txCount'[s] = g_txCount[s] /\ g_rxCount'[s] = g_rxCount[s]
    BY <1>2, Zenon DEF Types, QuietStep, Synchronize, OutsideWindow, HandlerReturns, ReceiveMessage,
                HandlerSchedule, ProcessOneEvent, SendPacket
  <2> QED
    BY <2>1, <2>2 DEF LbtsInv, IsLocalFinished, NextTime
<1>3. ASSUME NEW r \in Ranks, Arrive(r) PROVE LbtsInv'
  BY <1>3, Zenon DEF LbtsInv, IsLocalFinished, NextTime, Arrive
<1>4. CASE Allgather
  BY <1>4 DEF LbtsInv, Allgather
<1>5. ASSUME NEW r \in Ranks, JoinAllgather(r) PROVE LbtsInv'
  BY <1>5, Zenon DEF LbtsInv, IsLocalFinished, NextTime, JoinAllgather, Types
<1> QED
  BY <1>1, <1>2, <1>3, <1>4, <1>5, NextCases

(* A rank that takes no part in a step keeps its window. *)
LEMMA SameRank ==
    ASSUME NEW b \in Nat, NEW s \in Ranks, RankWindow(b, s), topology' = topology,
           m_grantedTime'[s] = m_grantedTime[s], m_currentTs'[s] = m_currentTs[s],
           m_stop'[s] = m_stop[s], m_events'[s] = m_events[s],
           transit'[s] \union arrived'[s] \subseteq transit[s] \union arrived[s],
           pc'[s] = "handler" => pc[s] = "handler"
    PROVE  RankWindow(b, s)'
BY Zenon DEF RankWindow

(* The receiver of a packet cannot have gone past its time. *)
LEMMA AheadOfReceiver ==
    ASSUME Types, WindowInv
    PROVE  \A r \in Ranks : \A msg \in transit[r] \union arrived[r] :
             msg.rx \in Nat /\ m_currentTs[r] \in Nat /\ msg.rx >= m_currentTs[r]
<1>1. PICK b \in Nat : \A r \in Ranks : RankWindow(b, r)
  BY DEF WindowInv
<1> SUFFICES ASSUME NEW r \in Ranks, NEW msg \in transit[r] \union arrived[r]
             PROVE  msg.rx \in Nat /\ m_currentTs[r] \in Nat /\ msg.rx >= m_currentTs[r]
  OBVIOUS
<1>2. msg.rx \in Nat /\ m_currentTs[r] \in Nat /\ Ahead(topology, r) \in Nat
  BY AheadFacts DEF Types, MsgType
<1>3. m_currentTs[r] <= b + Ahead(topology, r) /\ msg.rx >= b + Ahead(topology, r)
  BY <1>1, Zenon DEF RankWindow
<1> QED
  BY <1>2, <1>3

(* Sending: the packet is due after the look-ahead of its receiver. *)
LEMMA SendWindow ==
    ASSUME Types, NEW b \in Nat, \A s \in Ranks : RankWindow(b, s), NEW r \in Ranks, SendPacket(r)
    PROVE  \A s \in Ranks : RankWindow(b, s)'
<1>1. PICK l \in DOMAIN topology, txTime \in TxTimes :
        transit' = [transit EXCEPT ![l[2]] =
             @ \union {[rx |-> m_currentTs[r] + txTime + topology[l],
                        from |-> r, seq |-> g_txCount[r]]}]
  BY Zenon DEF SendPacket
<1> DEFINE msg == [rx |-> m_currentTs[r] + txTime + topology[l], from |-> r, seq |-> g_txCount[r]]
<1>2. msg.rx = m_currentTs[r] + txTime + topology[l] /\ transit' = [transit EXCEPT ![l[2]] = @ \union {msg}]
  BY <1>1
<1> HIDE DEF msg
<1>3. PICK d \in Ranks : d = l[2]
  BY LinkFacts
<1>4. Ahead(topology, d) \in Nat /\ topology[l] \in Nat /\ Ahead(topology, d) <= topology[l]
  BY <1>3, AheadFacts, Zenon DEF Types
<1>5. m_currentTs[r] >= b /\ m_currentTs[r] \in Nat /\ txTime \in Nat
  BY GtwTimes, Zenon DEF Types, RankWindow, SendPacket
<1>6. msg.rx >= b + Ahead(topology, d)
  <2>1. \A x, y, z, u \in Nat : x >= b /\ u <= z => x + y + z >= b + u
    OBVIOUS
  <2> QED
    BY <1>2, <1>4, <1>5, <2>1, Zenon
<1>7. \A s \in Ranks : transit'[s] = IF s = d THEN transit[s] \union {msg} ELSE transit[s]
  BY <1>2, <1>3, Zenon DEF Types
<1>8. UNCHANGED <<topology, m_events, m_currentTs, m_grantedTime, m_stop, pc, arrived>>
  BY Zenon DEF SendPacket
<1> QED
  BY <1>6, <1>7, <1>8, Zenon DEF RankWindow

(* Processing: the time of the rank stays within what it was granted. *)
LEMMA ProcessWindow ==
    ASSUME Types, NEW b \in Nat, \A s \in Ranks : RankWindow(b, s), NEW r \in Ranks, ProcessOneEvent(r)
    PROVE  \A s \in Ranks : RankWindow(b, s)'
<1>1. m_events[r] # <<>> /\ ~m_stop[r] /\ Head(m_events[r]).ts <= m_grantedTime[r]
  BY InWindowFacts DEF ProcessOneEvent
<1>2. Head(m_events[r]).ts \in Nat /\ Head(m_events[r]).ts >= b
  BY <1>1, QueueTail DEF RankWindow
<1>3. /\ m_currentTs'[r] = Head(m_events[r]).ts /\ m_events'[r] = Tail(m_events[r])
      /\ UNCHANGED <<topology, m_grantedTime, transit, arrived>>
  BY DEF ProcessOneEvent, Types
<1>stop. pc'[r] = "handler" => ~m_stop'[r]
  <2>1. pc' = [pc EXCEPT ![r] = IF Head(m_events[r]).fn = "stop" THEN "loop" ELSE "handler"]
    BY DEF ProcessOneEvent
  <2>2. pc'[r] = "handler" => Head(m_events[r]).fn # "stop"
    BY <2>1 DEF Types
  <2>3. m_stop' = [m_stop EXCEPT ![r] = @ \/ Head(m_events[r]).fn = "stop"] /\ r \in DOMAIN m_stop
    BY Zenon DEF ProcessOneEvent, Types
  <2>4. m_stop'[r] = (m_stop[r] \/ Head(m_events[r]).fn = "stop")
    BY <2>3, Zenon
  <2> QED
    BY <1>1, <2>2, <2>4, Zenon
<1>5. NotBefore(m_events'[r], b)
  BY <1>1, <1>3, QueueTail DEF RankWindow
<1>6. Ahead(topology, r) \in Nat /\ m_grantedTime[r] \in Nat
  BY AheadFacts DEF Types
<1>7. RankWindow(b, r)'
  <2>1. /\ m_grantedTime[r] <= b + Ahead(topology, r)
        /\ \A msg \in transit[r] \union arrived[r] : msg.rx >= b + Ahead(topology, r)
    BY Zenon DEF RankWindow
  <2>2. m_currentTs'[r] <= b + Ahead(topology, r) /\ m_currentTs'[r] >= b
    <3>1. \A x, y, u \in Nat : x <= y /\ y <= b + u => x <= b + u
      OBVIOUS
    <3> QED
      BY <1>1, <1>2, <1>3, <1>6, <2>1, <3>1, Zenon
  <2> QED
    BY <1>3, <1>stop, <1>5, <2>1, <2>2, Zenon DEF RankWindow
<1>8. ASSUME NEW s \in Ranks \ {r} PROVE RankWindow(b, s)'
  <2>1. /\ m_currentTs'[s] = m_currentTs[s] /\ m_stop'[s] = m_stop[s] /\ m_events'[s] = m_events[s]
        /\ pc'[s] = pc[s]
    BY Zenon DEF ProcessOneEvent, Types
  <2> QED
    BY <1>3, <2>1, SameRank, Zenon
<1> QED
  BY <1>7, <1>8

(* An exchange: the bound moves to the least time, if nothing is on its way. *)
LEMMA AllgatherWindow ==
    ASSUME Types, PacketInv, CountInv, LbtsInv, Allgather,
           NEW b \in Nat, \A s \in Ranks : RankWindow(b, s)
    PROVE  WindowInv'
<1>1. /\ \A r \in Ranks : pc[r] = "allgather" /\ pc'[r] # "handler"
      /\ m_grantedTime' = [r \in Ranks |-> NewGrantedTime(r)]
      /\ UNCHANGED <<topology, m_events, m_currentTs, m_stop, transit, arrived>>
  BY DEF Allgather
<1>2. \A r \in Ranks : /\ Ahead(topology, r) \in Nat /\ m_currentTs[r] \in Nat
                       /\ m_grantedTime'[r] = NewGrantedTime(r)
  BY <1>1, AheadFacts DEF Types
<1>3. CASE ~NoTransients
  <2>1. \A r \in Ranks : m_grantedTime'[r] = m_grantedTime[r]
    BY <1>2, <1>3 DEF NewGrantedTime
  <2>2. \A r \in Ranks : RankWindow(b, r)'
    BY <1>1, <2>1, SameRank
  <2> QED
    BY <2>2 DEF WindowInv
<1>4. CASE NoTransients
  <2>1. PICK c \in Nat : c = SmallestTime /\ \A r \in Ranks : c <= NextTime(r)
    BY <1>1, SmallestFacts
  <2>2. PICK n \in Nat : n >= b /\ n >= c /\ n \in {b, c}
    BY <2>1
  <2>3. \A r \in Ranks : transit[r] = {} /\ arrived[r] = {}
    BY <1>1, <1>4, Balanced DEF NoTransients
  <2>4. ASSUME NEW r \in Ranks PROVE m_grantedTime'[r] <= n + Ahead(topology, r)
    <3>1. m_grantedTime'[r] = IF Ahead(topology, r) = MaxTime THEN MaxTime ELSE c + Ahead(topology, r)
      BY <1>2, <1>4, <2>1, LookAheadIs DEF NewGrantedTime
    <3> QED
      BY <1>2, <2>2, <3>1, GtwTimes
  <2>5. ASSUME NEW r \in Ranks, ~m_stop[r] PROVE NotBefore(m_events[r], n)
    <3>1. CASE m_events[r] = <<>>
      BY <3>1 DEF NotBefore
    <3>2. CASE m_events[r] # <<>>
      <4>1. NotBefore(m_events[r], Head(m_events[r]).ts) /\ Head(m_events[r]).ts \in Nat
        BY <3>2, QueueTail
      <4>2. c <= Head(m_events[r]).ts
        BY <2>1, <2>5, <3>2 DEF NextTime, IsLocalFinished
      <4>3. \A i \in DOMAIN m_events[r] : m_events[r][i].ts \in Nat
        BY EventFacts DEF Types
      <4>4. NotBefore(m_events[r], c)
        BY <4>1, <4>2, <4>3 DEF NotBefore
      <4> QED
        BY <2>2, <2>5, <4>4 DEF RankWindow
    <3> QED
      BY <3>1, <3>2
  <2>6. \A r \in Ranks : m_currentTs[r] <= n + Ahead(topology, r)
    BY <1>2, <2>2, SMTT(60) DEF RankWindow
  <2>7. \A r \in Ranks : RankWindow(n, r)'
    BY <1>1, <2>3, <2>4, <2>5, <2>6, Zenon DEF RankWindow
  <2> QED
    BY <2>7 DEF WindowInv
<1> QED
  BY <1>3, <1>4

LEMMA WindowStep ==
    ASSUME Types, PacketInv, CountInv, LbtsInv, WindowInv, [Next]_vars
    PROVE  WindowInv'
<1>1. PICK b \in Nat : \A r \in Ranks : RankWindow(b, r)
  BY DEF WindowInv
<1>2. CASE UNCHANGED vars
  <2>1. \A s \in Ranks : RankWindow(b, s)'
    BY <1>1, <1>2, SameRank, Zenon DEF vars
  <2> QED
    BY <2>1 DEF WindowInv
<1>3. ASSUME NEW r \in Ranks, QuietStep(r) \/ JoinAllgather(r) PROVE WindowInv'
  <2>1. UNCHANGED <<topology, m_events, m_currentTs, m_grantedTime, m_stop, transit, arrived>>
    BY <1>3, Zenon DEF QuietStep, Synchronize, OutsideWindow, HandlerReturns, JoinAllgather
  <2>2. \A s \in Ranks : pc'[s] = "handler" => pc[s] = "handler"
    BY <1>3 DEF QuietStep, Synchronize, OutsideWindow, HandlerReturns, JoinAllgather, Types
  <2>3. \A s \in Ranks : RankWindow(b, s)'
    BY <1>1, <2>1, <2>2, SameRank
  <2> QED
    BY <2>3 DEF WindowInv
<1>4. ASSUME NEW r \in Ranks, ReceiveMessage(r) PROVE WindowInv'
  <2>1. PICK msg \in arrived[r] :
          /\ arrived' = [arrived EXCEPT ![r] = @ \ {msg}]
          /\ m_events' = [m_events EXCEPT ![r] = InsertEvent(@, Event(msg.rx, "user"))]
    BY <1>4, Zenon DEF ReceiveMessage
  <2>2. UNCHANGED <<topology, m_currentTs, m_grantedTime, m_stop, pc, transit>>
    BY <1>4 DEF ReceiveMessage
  <2>3. msg.rx \in Nat /\ Ahead(topology, r) \in Nat /\ msg.rx >= b + Ahead(topology, r)
    <3>1. msg.rx \in Nat /\ Ahead(topology, r) \in Nat
      BY AheadFacts DEF Types, MsgType
    <3>2. msg.rx >= b + Ahead(topology, r)
      BY <1>1, Zenon DEF RankWindow
    <3> QED
      BY <3>1, <3>2
  <2>4. msg.rx >= b
    <3>1. \A x, u \in Nat : x >= b + u => x >= b
      OBVIOUS
    <3> QED
      BY <2>3, <3>1, Zenon
  <2>5. m_events'[r] = InsertEvent(m_events[r], Event(msg.rx, "user"))
    BY <2>1 DEF Types
  <2>6. ~m_stop[r] => NotBefore(m_events'[r], b)
    BY <1>1, <2>3, <2>4, <2>5, QueueInsert, Zenon DEF RankWindow
  <2>7. arrived'[r] = arrived[r] \ {msg}
    BY <2>1, Zenon DEF Types
  <2>8. RankWindow(b, r)'
    BY <1>1, <2>2, <2>6, <2>7 DEF RankWindow
  <2>9. ASSUME NEW s \in Ranks \ {r} PROVE RankWindow(b, s)'
    <3>1. m_events'[s] = m_events[s] /\ arrived'[s] = arrived[s]
      BY <2>1 DEF Types
    <3> QED
      BY <1>1, <2>2, <3>1, SameRank, Zenon
  <2> QED
    BY <2>8, <2>9 DEF WindowInv
<1>5. ASSUME NEW r \in Ranks, HandlerSchedule(r) PROVE WindowInv'
  <2>1. PICK delay \in UserDelays :
          m_events' = [m_events EXCEPT ![r] = InsertEvent(@, Event(m_currentTs[r] + delay, "user"))]
    BY <1>5, Zenon DEF HandlerSchedule
  <2>2. UNCHANGED <<topology, m_currentTs, m_grantedTime, m_stop, pc, transit, arrived>>
    BY <1>5, Zenon DEF HandlerSchedule
  <2>3. m_currentTs[r] + delay \in Nat /\ m_currentTs[r] + delay >= b
    <3>1. m_currentTs[r] \in Nat /\ delay \in Nat
      BY GtwTimes, Zenon DEF Types
    <3>2. m_currentTs[r] >= b
      BY <1>1, <1>5, Zenon DEF RankWindow, HandlerSchedule
    <3> QED
      BY <3>1, <3>2
  <2>4. m_events'[r] = InsertEvent(m_events[r], Event(m_currentTs[r] + delay, "user"))
    BY <2>1 DEF Types
  <2>5. ~m_stop[r] => NotBefore(m_events'[r], b)
    BY <1>1, <2>3, <2>4, QueueInsert, Zenon DEF RankWindow
  <2>6. RankWindow(b, r)'
    BY <1>1, <2>2, <2>5 DEF RankWindow
  <2>7. ASSUME NEW s \in Ranks \ {r} PROVE RankWindow(b, s)'
    <3>1. m_events'[s] = m_events[s]
      BY <2>1 DEF Types
    <3> QED
      BY <1>1, <2>2, <3>1, SameRank
  <2> QED
    BY <2>6, <2>7 DEF WindowInv
<1>6. ASSUME NEW r \in Ranks, ProcessOneEvent(r) PROVE WindowInv'
  BY <1>1, <1>6, ProcessWindow DEF WindowInv
<1>7. ASSUME NEW r \in Ranks, SendPacket(r) PROVE WindowInv'
  BY <1>1, <1>7, SendWindow DEF WindowInv
<1>8. ASSUME NEW r \in Ranks, Arrive(r) PROVE WindowInv'
  <2>1. UNCHANGED <<topology, m_events, m_currentTs, m_grantedTime, m_stop, pc>>
    BY <1>8 DEF Arrive
  <2>2. \A s \in Ranks : transit'[s] \union arrived'[s] \subseteq transit[s] \union arrived[s]
    BY <1>8 DEF Arrive, Types
  <2>3. \A s \in Ranks : RankWindow(b, s)'
    BY <1>1, <2>1, <2>2, SameRank
  <2> QED
    BY <2>3 DEF WindowInv
<1>9. CASE Allgather
  BY <1>1, <1>9, AllgatherWindow
<1> QED
  BY <1>2, <1>3, <1>4, <1>5, <1>6, <1>7, <1>8, <1>9, NextCases

(* The events of a rank stay ahead of its time, and its time goes forward. *)
LEMMA ClockStep ==
    ASSUME Types, WindowInv, ClockInv, [Next]_vars
    PROVE  ClockInv' /\ \A r \in Ranks : m_currentTs'[r] >= m_currentTs[r]
<1>0. \A r \in Ranks : m_currentTs[r] \in Nat /\ NotBefore(m_events[r], m_currentTs[r])
  BY DEF Types, ClockInv
<1>1. ASSUME m_currentTs' = m_currentTs, m_events' = m_events
      PROVE  ClockInv' /\ \A r \in Ranks : m_currentTs'[r] >= m_currentTs[r]
  <2>1. \A r \in Ranks : m_currentTs[r] >= m_currentTs[r]
    BY <1>0
  <2> QED
    BY <1>0, <1>1, <2>1, Zenon DEF ClockInv
<1>2. ASSUME NEW r \in Ranks, NEW t \in Nat, t >= m_currentTs[r], m_currentTs' = m_currentTs,
             m_events' = [m_events EXCEPT ![r] = InsertEvent(@, Event(t, "user"))]
      PROVE  ClockInv' /\ \A s \in Ranks : m_currentTs'[s] >= m_currentTs[s]
  <2>1. m_events'[r] = InsertEvent(m_events[r], Event(t, "user"))
    BY <1>2 DEF Types
  <2>2. NotBefore(m_events'[r], m_currentTs[r])
    BY <1>0, <1>2, <2>1, QueueInsert
  <2>3. \A s \in Ranks \ {r} : m_events'[s] = m_events[s]
    BY <1>2 DEF Types
  <2> QED
    BY <1>0, <1>2, <2>2, <2>3 DEF ClockInv
<1>3. ASSUME NEW r \in Ranks, ReceiveMessage(r)
      PROVE  ClockInv' /\ \A s \in Ranks : m_currentTs'[s] >= m_currentTs[s]
  <2>1. PICK msg \in arrived[r] :
          m_events' = [m_events EXCEPT ![r] = InsertEvent(@, Event(msg.rx, "user"))]
    BY <1>3, Zenon DEF ReceiveMessage
  <2>2. msg.rx \in Nat /\ msg.rx >= m_currentTs[r]
    BY AheadOfReceiver
  <2> QED
    BY <1>2, <1>3, <2>1, <2>2, Zenon DEF ReceiveMessage
<1>4. ASSUME NEW r \in Ranks, HandlerSchedule(r)
      PROVE  ClockInv' /\ \A s \in Ranks : m_currentTs'[s] >= m_currentTs[s]
  <2>1. PICK delay \in UserDelays :
          m_events' = [m_events EXCEPT ![r] = InsertEvent(@, Event(m_currentTs[r] + delay, "user"))]
    BY <1>4, Zenon DEF HandlerSchedule
  <2>2. m_currentTs[r] + delay \in Nat /\ m_currentTs[r] + delay >= m_currentTs[r]
    BY <1>0, GtwTimes
  <2> QED
    BY <1>2, <1>4, <2>1, <2>2, Zenon DEF HandlerSchedule
<1>5. ASSUME NEW r \in Ranks, ProcessOneEvent(r)
      PROVE  ClockInv' /\ \A s \in Ranks : m_currentTs'[s] >= m_currentTs[s]
  <2>1. m_events[r] # <<>>
    BY <1>5, InWindowFacts DEF ProcessOneEvent
  <2>2. m_currentTs'[r] = Head(m_events[r]).ts /\ m_events'[r] = Tail(m_events[r])
    BY <1>5 DEF ProcessOneEvent, Types
  <2>3. NotBefore(m_events'[r], m_currentTs'[r]) /\ m_currentTs'[r] >= m_currentTs[r]
    BY <1>0, <2>1, <2>2, QueueTail
  <2>4. \A s \in Ranks \ {r} : m_events'[s] = m_events[s] /\ m_currentTs'[s] = m_currentTs[s]
    BY <1>5 DEF ProcessOneEvent, Types
  <2>5. \A s \in Ranks : m_currentTs[s] >= m_currentTs[s]
    BY <1>0
  <2> QED
    BY <1>0, <2>3, <2>4, <2>5, Zenon DEF ClockInv
<1>6. ASSUME NEW r \in Ranks, QuietStep(r) \/ JoinAllgather(r) \/ SendPacket(r) \/ Arrive(r)
      PROVE  ClockInv' /\ \A s \in Ranks : m_currentTs'[s] >= m_currentTs[s]
  BY <1>1, <1>6, Zenon DEF QuietStep, Synchronize, OutsideWindow, HandlerReturns, JoinAllgather,
                    SendPacket, Arrive
<1>7. CASE Allgather \/ UNCHANGED vars
  BY <1>1, <1>7 DEF Allgather, vars
<1> QED
  BY <1>3, <1>4, <1>5, <1>6, <1>7, NextCases, Zenon

(* Once Run has returned nothing happens any more. *)
LEMMA DoneStep ==
    ASSUME Types, PacketInv, CountInv, LbtsInv, DoneInv, [Next]_vars
    PROVE  DoneInv'
<1>1. CASE \E r \in Ranks : pc[r] = "done"
  <2>1. \A s \in Ranks : pc[s] = "done" /\ IsLocalFinished(s) /\ transit[s] = {} /\ arrived[s] = {}
    BY <1>1 DEF DoneInv
  <2>2. UNCHANGED vars
    <3>1. ~Allgather
      BY <2>1, GtwRanks DEF Allgather
    <3>2. \A r \in Ranks : ~(\/ QuietStep(r) \/ ReceiveMessage(r) \/ JoinAllgather(r)
                             \/ ProcessOneEvent(r) \/ HandlerSchedule(r) \/ SendPacket(r) \/ Arrive(r))
      BY <2>1, Zenon DEF QuietStep, Synchronize, OutsideWindow, HandlerReturns, ReceiveMessage,
                  JoinAllgather, ProcessOneEvent, HandlerSchedule, SendPacket, Arrive
    <3> QED
      BY <3>1, <3>2, NextCases
  <2> QED
    BY <2>1, <2>2 DEF DoneInv, IsLocalFinished, vars
<1>2. CASE ~(\E r \in Ranks : pc[r] = "done")
  <2>1. CASE Allgather
    <3>1. \A r \in Ranks : pc[r] = "allgather"
      BY <2>1 DEF Allgather
    <3>2. CASE ~GlobalFinished
      BY <2>1, <3>2, Zenon DEF Allgather, DoneInv
    <3>3. CASE GlobalFinished
      <4>1. \A r \in Ranks : IsLocalFinished(r) /\ transit[r] = {} /\ arrived[r] = {}
        BY <3>1, <3>3, Balanced DEF GlobalFinished, LbtsInv
      <4>2. \A r \in Ranks : pc'[r] = "done"
        BY <2>1, <3>3 DEF Allgather
      <4>3. UNCHANGED <<m_events, m_stop, transit, arrived>>
        BY <2>1 DEF Allgather
      <4> QED
        BY <4>1, <4>2, <4>3 DEF DoneInv, IsLocalFinished
    <3> QED
      BY <3>2, <3>3
  <2>2. CASE ~Allgather
    <3>1. \A r \in Ranks : pc'[r] # "done"
      BY <1>2, <2>2, NextCases, Zenon DEF QuietStep, Synchronize, OutsideWindow, HandlerReturns, ReceiveMessage,
              JoinAllgather, ProcessOneEvent, HandlerSchedule, SendPacket, Arrive, Types, vars
    <3> QED
      BY <3>1 DEF DoneInv
  <2> QED
    BY <2>1, <2>2
<1> QED
  BY <1>1, <1>2

-----------------------------------------------------------------------------
(* The initial state and the theorems. *)

LEMMA InitGtw == Init => GtwInv
<1> SUFFICES ASSUME Init PROVE GtwInv
  OBVIOUS
<1>1. ASSUME NEW r \in Ranks
      PROVE  m_events[r] \in Seq(EventType) /\ Sorted(m_events[r]) /\ NotBefore(m_events[r], 0)
  <2>1. PICK q \in Seq(EventType) : q = <<Event(0, "user")>> /\ Sorted(q) /\ NotBefore(q, 0)
    <3>1. Event(0, "user") \in EventType /\ Event(0, "user").ts = 0
      BY EventFacts
    <3>2. PICK e \in EventType : e = Event(0, "user") /\ e.ts = 0
      BY <3>1
    <3>3. <<e>> \in Seq(EventType) /\ DOMAIN <<e>> = {1} /\ <<e>>[1] = e
      OBVIOUS
    <3>4. \A i \in DOMAIN <<e>> : <<e>>[i].ts = 0
      BY <3>2, <3>3
    <3>5. Sorted(<<e>>) /\ NotBefore(<<e>>, 0)
      BY <3>4 DEF Sorted, NotBefore
    <3> QED
      BY <3>2, <3>3, <3>5, Zenon
  <2>2. CASE r \in DOMAIN StopTime
    <3>1. PICK ev \in EventType : ev = Event(StopTime[r], "stop") /\ ev.ts \in Nat /\ ev.ts >= 0
      BY <2>2, EventFacts, GtwTimes
    <3>2. m_events[r] = InsertEvent(q, ev)
      BY <2>1, <2>2, <3>1 DEF Init
    <3>3. InsertEvent(q, ev) \in Seq(EventType) /\ Sorted(InsertEvent(q, ev))
      BY <2>1, EventFacts, InsertSorted, Zenon
    <3>4. NotBefore(InsertEvent(q, ev), 0)
      BY <2>1, <3>1, EventFacts, InsertNotBefore, Zenon
    <3> QED
      BY <3>2, <3>3, <3>4
  <2>3. CASE r \notin DOMAIN StopTime
    BY <2>1, <2>3 DEF Init
  <2> QED
    BY <2>2, <2>3
<1>2. \A r \in Ranks : LookAhead(r) \in Nat /\ LookAhead(r) = Ahead(topology, r)
  BY LookAheadIs, AheadFacts, Zenon DEF Init
<1>3. DOMAIN m_events = Ranks /\ m_events = [r \in Ranks |-> m_events[r]]
  BY DEF Init
<1>4. Types
  <2>1. m_events \in [Ranks -> Seq(EventType)]
    BY <1>1, <1>3
  <2> QED
    BY <1>1, <1>2, <2>1 DEF Init, Types
<1>5. PacketInv
  BY FS_EmptySet, Zenon DEF Init, PacketInv
<1>6. CountInv
  <2>1. g_txCount = [r \in Ranks |-> 0] /\ Account = [r \in Ranks |-> 0]
    BY FS_EmptySet DEF Init, Account
  <2> QED
    BY <2>1, Zenon DEF CountInv
<1>7. LbtsInv /\ DoneInv
  BY DEF Init, LbtsInv, DoneInv
<1>8. \A r \in Ranks : RankWindow(0, r)
  <2> SUFFICES ASSUME NEW r \in Ranks PROVE RankWindow(0, r)
    OBVIOUS
  <2>1. m_grantedTime[r] = Ahead(topology, r) /\ m_currentTs[r] = 0 /\ Ahead(topology, r) \in Nat
    BY <1>2 DEF Init
  <2>2. pc[r] # "handler" /\ transit[r] \union arrived[r] = {}
    BY DEF Init
  <2>3. /\ m_grantedTime[r] <= 0 + Ahead(topology, r)
        /\ m_currentTs[r] <= 0 + Ahead(topology, r) /\ m_currentTs[r] >= 0
    BY <2>1
  <2> QED
    BY <1>1, <2>2, <2>3, Zenon DEF RankWindow
<1>9. ClockInv
  BY <1>1 DEF Init, ClockInv
<1> QED
  BY <1>4, <1>5, <1>6, <1>7, <1>8, <1>9 DEF GtwInv, WindowInv

LEMMA NextGtw == GtwInv /\ [Next]_vars => GtwInv'
<1> SUFFICES ASSUME GtwInv, [Next]_vars PROVE GtwInv'
  OBVIOUS
<1> USE DEF GtwInv
<1>1. Types' /\ PacketInv'
  BY TypesStep, PacketStep
<1>2. CountInv' /\ LbtsInv' /\ WindowInv' /\ ClockInv' /\ DoneInv'
  BY <1>1, CountStep, LbtsStep, WindowStep, ClockStep, DoneStep
<1> QED
  BY <1>1, <1>2

(* The inductive invariant holds in every reachable state. *)
THEOREM GtwInvariant == Spec => []GtwInv
BY InitGtw, NextGtw, PTL DEF Spec

(* DistributedSimulatorImpl and GrantedTimeWindowMpiInterface: no packet is *)
(* for a time its receiver has passed, on any network, however the windows  *)
(* of the ranks interleave with the messages.                               *)
THEOREM GtwNoStraggler == Spec => []NoStraggler
<1>1. GtwInv => NoStraggler
  BY AheadOfReceiver DEF GtwInv, NoStraggler
<1> QED
  BY <1>1, GtwInvariant, PTL

(* DistributedSimulatorImpl::Run: the counts of packets in the LBTS         *)
(* messages find every packet that is still on its way, so Run returns with *)
(* all ranks finished and nothing left to receive.                          *)
THEOREM GtwHaltedClean == Spec => []HaltedClean
<1>1. GtwInv => HaltedClean
  BY DEF GtwInv, DoneInv, HaltedClean
<1> QED
  BY <1>1, GtwInvariant, PTL

(* DistributedSimulatorImpl::ProcessOneEvent asserts that the next event is *)
(* not before m_currentTs: no rank ever goes back in time.                  *)
THEOREM GtwTimeForward == Spec => [][\A r \in Ranks : m_currentTs'[r] >= m_currentTs[r]]_vars
<1>1. GtwInv /\ [Next]_vars => [\A r \in Ranks : m_currentTs'[r] >= m_currentTs[r]]_vars
  BY ClockStep DEF GtwInv
<1> QED
  BY <1>1, GtwInvariant, PTL DEF Spec
=============================================================================

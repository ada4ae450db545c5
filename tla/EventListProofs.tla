-------------------------- MODULE EventListProofs ---------------------------
(***************************************************************************)
(* What the operations of the schedulers return and keep, for any events:  *)
(* the map, the sorted list, the heap, and the calendar between two        *)
(* resizes.                                                                *)
(*                                                                         *)
(* The operations are loops, and Loop is a recursive function.  What a     *)
(* loop keeps is stated as a family of sets Y, one for each number of      *)
(* passes: the start is in the first set and a pass leads from each set to *)
(* the next (RunExists, RunStates).  So a sift of the heap keeps the       *)
(* elements and puts right the one path that is out of order (RisingTo,    *)
(* SinkingTo), and a loop over a sequence of events has inserted the first *)
(* i of them after i passes (Firsts).                                      *)
(*                                                                         *)
(* For the calendar the core is PeekNextIs.  The scan starts with the day  *)
(* of m_lastPrio (ScanAt), and no event is earlier (NotBehind).  So an     *)
(* event found on the day that is visited is the earliest one, for the     *)
(* days before it were visited in vain; and when a whole year is empty,    *)
(* the earliest of the buckets' first events is.                           *)
(***************************************************************************)
EXTENDS Schedulers, WellFoundedInduction, FiniteSetTheorems, TLAPS

-----------------------------------------------------------------------------
(* Numbers and loops. *)

(* A set of naturals has a least element. *)
LEMMA LeastNatural ==
    ASSUME NEW S \in SUBSET Nat, S # {}
    PROVE  \E n \in S : \A m \in S : n <= m
<1>1. PICK n \in S : \A m \in S : ~ (<<m, n>> \in OpToRel(<, Nat))
  BY NatLessThanWellFounded, WFMin, Zenon
<1>2. \A a, b \in Nat : a < b => <<a, b>> \in OpToRel(<, Nat)
  BY SMT DEF OpToRel
<1>3. \A m \in S : ~(m < n)
  BY <1>1, <1>2, Zenon
<1> QED
  BY <1>3

(* Min, of FiniteSetsExt, is the least element. *)
LEMMA MinNat ==
    ASSUME NEW S \in SUBSET Nat, S # {}
    PROVE  Min(S) \in S /\ \A m \in S : Min(S) <= m
BY LeastNatural, Zenon DEF Min

(* Induction up to n, over a set of numbers. *)
LEMMA UpTo ==
    ASSUME NEW n \in Nat, NEW T, 0 \in T, \A i \in 1..n : i - 1 \in T => i \in T
    PROVE  \A i \in 0..n : i \in T
<1> DEFINE S == {i \in 0..n : i \notin T}
<1> SUFFICES ASSUME S # {} PROVE FALSE
  OBVIOUS
<1>1. PICK m \in S : \A i \in S : m <= i
  <2>1. S \in SUBSET Nat
    OBVIOUS
  <2> QED
    BY <2>1, LeastNatural, Zenon
<1>2. m \in 1..n /\ m - 1 \in 0..n /\ m - 1 \notin S
  BY <1>1
<1> QED
  BY <1>1, <1>2

(* The states of a loop whose passes lead from Y[i-1] to Y[i]. *)
IsRun(f, Y, start, step, n) ==
    /\ f = [i \in 0..n |-> IF i = 0 THEN start ELSE step[i][f[i-1]]]
    /\ \A i \in 0..n : f[i] \in Y[i]

(* A loop whose passes keep to the sets of Y has such a run. *)
LEMMA RunExists ==
    ASSUME NEW n \in Nat, NEW Y, NEW start \in Y[0], NEW step,
           \A i \in 1..n : \A x \in Y[i-1] : step[i][x] \in Y[i]
    PROVE  \E f : IsRun(f, Y, start, step, n)
<1> DEFINE T == {k \in 0..n : \E f : IsRun(f, Y, start, step, k)}
<1>1. 0 \in T
  <2>1. IsRun([i \in 0..0 |-> start], Y, start, step, 0)
    BY DEF IsRun
  <2> QED
    BY <2>1
<1>2. ASSUME NEW k \in 1..n, k - 1 \in T PROVE k \in T
  <2>1. PICK f : IsRun(f, Y, start, step, k - 1)
    BY <1>2
  <2> DEFINE g == [i \in 0..k |-> IF i = k THEN step[k][f[k-1]] ELSE f[i]]
  <2>2. \A i \in 0..k-1 : g[i] = f[i] /\ g[i] \in Y[i]
    BY <2>1, SMTT(60) DEF IsRun
  <2>3. g[k] = step[k][g[k-1]] /\ g[k] \in Y[k]
    BY <2>2
  <2>4. \A i \in 0..k-1 : g[i] = IF i = 0 THEN start ELSE step[i][g[i-1]]
    <3>1. \A i \in 0..k-1 : f[i] = IF i = 0 THEN start ELSE step[i][f[i-1]]
      BY <2>1 DEF IsRun
    <3>2. \A i \in 1..k-1 : i - 1 \in 0..k-1
      OBVIOUS
    <3> QED
      BY <3>1, <3>2, <2>2
  <2>5. g = [i \in 0..k |-> g[i]]
    OBVIOUS
  <2> HIDE DEF g
  <2>6. /\ \A i \in 0..k : g[i] = IF i = 0 THEN start ELSE step[i][g[i-1]]
        /\ \A i \in 0..k : g[i] \in Y[i]
    <3>1. k # 0 /\ \A i \in 0..k : i = k \/ i \in 0..k-1
      OBVIOUS
    <3> QED
      BY <3>1, <2>2, <2>3, <2>4
  <2>7. IsRun(g, Y, start, step, k)
    BY <2>5, <2>6, Zenon DEF IsRun
  <2> QED
    BY <2>7
<1>3. n \in T
  <2> HIDE DEF T
  <2>1. \A i \in 0..n : i \in T
    BY <1>1, <1>2, UpTo
  <2> QED
    BY <2>1
<1> QED
  BY <1>3

(* The states before its passes are in the sets of Y. *)
LEMMA RunStates ==
    ASSUME NEW n \in Nat, NEW f, NEW Y, NEW start, NEW step, IsRun(f, Y, start, step, n)
    PROVE  \A i \in 0..n : i = 0 \/ (i \in 1..n /\ f[i-1] \in Y[i-1])
<1>1. \A i \in 0..n : f[i] \in Y[i]
  BY DEF IsRun
<1>2. \A i \in 0..n : i = 0 \/ (i \in 1..n /\ i-1 \in 0..n)
  OBVIOUS
<1> QED
  BY <1>1, <1>2

-----------------------------------------------------------------------------
(* The order of events, and sequences in that order. *)

Ev == [ts : Nat, uid : Nat]

(* EventKey::operator < is a strict order, total where events differ. *)
LEMMA BeforeOrder ==
    /\ \A a \in Ev : ~Before(a, a)
    /\ \A a, b \in Ev : a = b \/ Before(a, b) \/ Before(b, a)
    /\ \A a, b \in Ev : Before(a, b) => ~Before(b, a)
    /\ \A a, b, c \in Ev : Before(a, b) /\ Before(b, c) => Before(a, c)
    /\ \A a, b \in Ev : a = b \/ Before(a, b) => a.ts <= b.ts
    /\ \A a, b \in Ev : a.ts < b.ts => Before(a, b)
BY DEF Ev, Before

(* Order, with the attribute as a parameter. *)
Precedes(r, a, b) == IF r THEN Before(b, a) ELSE Before(a, b)

(* So is Order of SetReverse, for both values of the attribute. *)
LEMMA PrecedesOrder ==
    ASSUME NEW r
    PROVE  /\ \A a \in Ev : ~Precedes(r, a, a)
           /\ \A a, b \in Ev : a = b \/ Precedes(r, a, b) \/ Precedes(r, b, a)
           /\ \A a, b, c \in Ev : Precedes(r, a, b) /\ Precedes(r, b, c) => Precedes(r, a, c)
BY BeforeOrder DEF Precedes

Ordered(r, s) == \A i, j \in 1..Len(s) : i < j => Precedes(r, s[i], s[j])

NoDup(s) == \A i, j \in 1..Len(s) : s[i] = s[j] => i = j

(* The elements of a sequence are those at its indices. *)
LEMMA RangeIs ==
    ASSUME NEW s \in Seq(Ev)
    PROVE  /\ Range(s) \in SUBSET Ev
           /\ \A i \in 1..Len(s) : s[i] \in Range(s)
           /\ \A e \in Range(s) : \E i \in 1..Len(s) : e = s[i]
BY DEF Range

(* A sequence in strict order holds no event twice. *)
LEMMA OrderedNoDup ==
    ASSUME NEW r, NEW s \in Seq(Ev), Ordered(r, s)
    PROVE  NoDup(s)
<1> SUFFICES ASSUME NEW i \in 1..Len(s), NEW j \in 1..Len(s), s[i] = s[j], i < j
             PROVE  FALSE
  BY DEF NoDup
<1>1. Precedes(r, s[i], s[j]) /\ s[i] \in Ev
  BY DEF Ordered
<1> QED
  BY <1>1, PrecedesOrder

(* t is s with e inserted at p. *)
IsWith(t, s, p, e) ==
    /\ p \in 1..Len(s)+1
    /\ Len(t) = Len(s) + 1
    /\ \A j \in 1..p-1 : t[j] = s[j]
    /\ t[p] = e
    /\ \A j \in p..Len(s) : t[j+1] = s[j]

(* The elements of a concatenation. *)
LEMMA ConcatIs ==
    ASSUME NEW A \in Seq(Ev), NEW B \in Seq(Ev), NEW m, NEW n, Len(A) = m, Len(B) = n
    PROVE  /\ A \o B \in Seq(Ev) /\ Len(A \o B) = m + n
           /\ \A j \in 1..m : (A \o B)[j] = A[j]
           /\ \A j \in 1..n : (A \o B)[m+j] = B[j]
<1>1. m \in Nat /\ n \in Nat
  OBVIOUS
<1>2. /\ A \o B \in Seq(Ev) /\ Len(A \o B) = Len(A) + Len(B)
      /\ \A i \in 1..Len(A)+Len(B) : (A \o B)[i] = IF i <= Len(A) THEN A[i] ELSE B[i-Len(A)]
  BY SMTT(60)
<1>3. ASSUME NEW j \in 1..n PROVE (A \o B)[m+j] = B[j]
  <2>1. m+j \in 1..m+n /\ ~(m+j <= m) /\ m+j-m = j
    BY <1>1
  <2> QED
    BY <2>1, <1>2
<1> QED
  BY <1>1, <1>2, <1>3

(* InsertAt is an insertion. *)
LEMMA InsertAtIs ==
    ASSUME NEW s \in Seq(Ev), NEW e \in Ev, NEW p \in 1..Len(s)+1
    PROVE  InsertAt(s, p, e) \in Seq(Ev) /\ IsWith(InsertAt(s, p, e), s, p, e)
<1> DEFINE A == SubSeq(s, 1, p-1)
           B == SubSeq(s, p, Len(s))
           AE == A \o <<e>>
<1>1. A \in Seq(Ev) /\ Len(A) = p-1 /\ \A j \in 1..p-1 : A[j] = s[j]
  OBVIOUS
<1>2. B \in Seq(Ev) /\ Len(B) = Len(s)-p+1 /\ \A j \in 1..Len(s)-p+1 : B[j] = s[p+j-1]
  OBVIOUS
<1> HIDE DEF A, B
<1>3. AE \in Seq(Ev) /\ Len(AE) = p /\ AE[p] = e /\ \A j \in 1..p-1 : AE[j] = s[j]
  BY <1>1, SMTT(60)
<1> HIDE DEF AE
<1>4. /\ AE \o B \in Seq(Ev) /\ Len(AE \o B) = p + (Len(s)-p+1)
      /\ \A j \in 1..p : (AE \o B)[j] = AE[j]
      /\ \A j \in 1..Len(s)-p+1 : (AE \o B)[p+j] = B[j]
  BY <1>2, <1>3, ConcatIs
<1>5. Len(s) \in Nat /\ p \in Nat /\ p + (Len(s)-p+1) = Len(s)+1
  OBVIOUS
<1>6. ASSUME NEW j \in p..Len(s) PROVE (AE \o B)[j+1] = s[j]
  <2>1. j+1-p \in 1..Len(s)-p+1 /\ p+(j+1-p) = j+1 /\ p+(j+1-p)-1 = j
    BY <1>5
  <2>2. (AE \o B)[p+(j+1-p)] = B[j+1-p]
    BY <2>1, <1>4
  <2>3. B[j+1-p] = s[p+(j+1-p)-1]
    BY <2>1, <1>2
  <2> QED
    BY <2>1, <2>2, <2>3, Zenon
<1>7. InsertAt(s, p, e) = AE \o B
  BY DEF InsertAt, A, B, AE
<1> QED
  BY <1>3, <1>4, <1>5, <1>6, <1>7 DEF IsWith

(* RemoveAt is the inverse of an insertion. *)
LEMMA RemoveAtIs ==
    ASSUME NEW s \in Seq(Ev), NEW p \in 1..Len(s)
    PROVE  RemoveAt(s, p) \in Seq(Ev) /\ IsWith(s, RemoveAt(s, p), p, s[p])
<1> DEFINE A == SubSeq(s, 1, p-1)
           B == SubSeq(s, p+1, Len(s))
<1>1. A \in Seq(Ev) /\ Len(A) = p-1 /\ \A j \in 1..p-1 : A[j] = s[j]
  OBVIOUS
<1>2. B \in Seq(Ev) /\ Len(B) = Len(s)-p /\ \A j \in 1..Len(s)-p : B[j] = s[p+j]
  OBVIOUS
<1> HIDE DEF A, B
<1>3. /\ A \o B \in Seq(Ev) /\ Len(A \o B) = (p-1) + (Len(s)-p)
      /\ \A j \in 1..p-1 : (A \o B)[j] = A[j]
      /\ \A j \in 1..Len(s)-p : (A \o B)[(p-1)+j] = B[j]
  <2> DEFINE m == p-1
             n == Len(s)-p
  <2>1. Len(A) = m /\ Len(B) = n
    BY <1>1, <1>2
  <2> HIDE DEF m, n
  <2>2. /\ A \o B \in Seq(Ev) /\ Len(A \o B) = m + n
        /\ \A j \in 1..m : (A \o B)[j] = A[j]
        /\ \A j \in 1..n : (A \o B)[m+j] = B[j]
    <3>1. A \in Seq(Ev) /\ B \in Seq(Ev)
      BY <1>1, <1>2
    <3> QED
      BY <2>1, <3>1, ConcatIs, SMTT(60)
  <2> QED
    BY <2>2 DEF m, n
<1>4. Len(s) \in Nat /\ p \in Nat /\ (p-1) + (Len(s)-p) = Len(s)-1
  OBVIOUS
<1>5. ASSUME NEW j \in p..Len(s)-1 PROVE (A \o B)[j] = s[j+1]
  <2>1. j-p+1 \in 1..Len(s)-p /\ (p-1)+(j-p+1) = j /\ p+(j-p+1) = j+1
    BY <1>4
  <2>2. (A \o B)[(p-1)+(j-p+1)] = B[j-p+1]
    BY <2>1, <1>3, Zenon
  <2>3. B[j-p+1] = s[p+(j-p+1)]
    BY <2>1, <1>2
  <2> QED
    BY <2>1, <2>2, <2>3, Zenon
<1>6. RemoveAt(s, p) = A \o B
  BY DEF RemoveAt, A, B
<1>7. \A j \in 1..p-1 : s[j] = RemoveAt(s, p)[j]
  BY <1>1, <1>3, <1>6
<1>8. Len(RemoveAt(s, p)) = Len(s)-1 /\ RemoveAt(s, p) \in Seq(Ev)
  BY <1>3, <1>4, <1>6, Zenon
<1>9. \A j \in p..Len(RemoveAt(s, p)) : s[j+1] = RemoveAt(s, p)[j]
  BY <1>5, <1>6, <1>8, Zenon
<1>10. p \in 1..Len(RemoveAt(s, p))+1 /\ Len(s) = Len(RemoveAt(s, p))+1
  BY <1>4, <1>8
<1> QED
  BY <1>7, <1>8, <1>9, <1>10 DEF IsWith

(* Append, as push_back, adds at the end. *)
LEMMA AppendIs ==
    ASSUME NEW s \in Seq(Ev), NEW e \in Ev
    PROVE  Append(s, e) \in Seq(Ev) /\ IsWith(Append(s, e), s, Len(s) + 1, e)
BY DEF IsWith

(* Where the elements of the longer sequence come from, and where those of  *)
(* the shorter one are.                                                     *)
LEMMA WithIndex ==
    ASSUME NEW s \in Seq(Ev), NEW t \in Seq(Ev), NEW p, NEW e, IsWith(t, s, p, e)
    PROVE  /\ p \in 1..Len(t)
           /\ \A i \in 1..Len(t) :
                \/ i = p /\ t[i] = e
                \/ i \in 1..p-1 /\ i \in 1..Len(s) /\ t[i] = s[i]
                \/ i \in p+1..Len(t) /\ i-1 \in p..Len(s) /\ i-1 \in 1..Len(s) /\ t[i] = s[i-1]
           /\ \A j \in 1..Len(s) : \/ j < p /\ j \in 1..Len(t) /\ t[j] = s[j]
                                   \/ j >= p /\ j+1 \in 1..Len(t) /\ t[j+1] = s[j]
<1>1. Len(s) \in Nat /\ Len(t) = Len(s)+1 /\ p \in 1..Len(s)+1
  BY DEF IsWith
<1>2. ASSUME NEW i \in 1..Len(t), i > p PROVE i-1 \in p..Len(s) /\ t[i] = s[i-1]
  <2>1. i-1 \in p..Len(s) /\ (i-1)+1 = i
    BY <1>1, <1>2
  <2>2. t[(i-1)+1] = s[i-1]
    BY <2>1 DEF IsWith
  <2> QED
    BY <2>1, <2>2
<1> QED
  BY <1>1, <1>2 DEF IsWith

(* What an insertion does to the elements. *)
LEMMA WithElements ==
    ASSUME NEW s \in Seq(Ev), NEW t \in Seq(Ev), NEW p, NEW e, IsWith(t, s, p, e)
    PROVE  /\ Range(t) = Range(s) \union {e}
           /\ NoDup(s) /\ e \notin Range(s) => NoDup(t)
           /\ NoDup(t) => NoDup(s) /\ e \notin Range(s)
<1>1. \A i \in 1..Len(t) : \/ i = p /\ t[i] = e
                           \/ i \in 1..p-1 /\ i \in 1..Len(s) /\ t[i] = s[i]
                           \/ i \in p+1..Len(t) /\ i-1 \in p..Len(s) /\ i-1 \in 1..Len(s) /\ t[i] = s[i-1]
  BY WithIndex
<1>2. p \in 1..Len(t) /\ \A j \in 1..Len(s) : \/ j < p /\ j \in 1..Len(t) /\ t[j] = s[j]
                                              \/ j >= p /\ j+1 \in 1..Len(t) /\ t[j+1] = s[j]
  BY WithIndex
<1>3. t[p] = e
  BY DEF IsWith
<1>4. \A i \in 1..Len(t) : t[i] \in Range(t)
  BY RangeIs
<1>5. \A i \in 1..Len(s) : s[i] \in Range(s)
  BY RangeIs
<1>6. ASSUME NEW x \in Range(t) PROVE x \in Range(s) \union {e}
  <2>1. PICK i \in 1..Len(t) : x = t[i]
    BY RangeIs
  <2> QED
    BY <2>1, <1>1, <1>5
<1>7. ASSUME NEW x \in Range(s) PROVE x \in Range(t)
  <2>1. PICK i \in 1..Len(s) : x = s[i]
    BY RangeIs
  <2> QED
    BY <2>1, <1>2, <1>4, Zenon
<1>8. ASSUME NoDup(s), e \notin Range(s), NEW i \in 1..Len(t), NEW j \in 1..Len(t), t[i] = t[j]
      PROVE  i = j
  <2>1. i # p => t[i] # e
    BY <1>1, <1>5, <1>8
  <2>2. j # p => t[j] # e
    BY <1>1, <1>5, <1>8
  <2>3. CASE i # p /\ j # p
    <3> DEFINE u == IF i < p THEN i ELSE i-1
               v == IF j < p THEN j ELSE j-1
    <3>1. p \in Nat
      BY DEF IsWith
    <3>2. u \in 1..Len(s) /\ t[i] = s[u]
      BY <2>3, <1>1, <3>1
    <3>3. v \in 1..Len(s) /\ t[j] = s[v]
      BY <2>3, <1>1, <3>1
    <3>4. u = v
      BY <3>2, <3>3, <1>8, Zenon DEF NoDup
    <3> QED
      BY <2>3, <3>1, <3>4
  <2> QED
    BY <2>1, <2>2, <2>3, <1>3, <1>8
<1>9. ASSUME NoDup(t) PROVE NoDup(s)
  BY <1>2, <1>9 DEF NoDup
<1>10. ASSUME NoDup(t) PROVE e \notin Range(s)
  <2> SUFFICES ASSUME e \in Range(s) PROVE FALSE
    OBVIOUS
  <2>1. PICK j \in 1..Len(s) : e = s[j]
    BY RangeIs
  <2> QED
    BY <2>1, <1>2, <1>3, <1>10 DEF NoDup
<1> QED
  BY <1>3, <1>4, <1>2, <1>6, <1>7, <1>8, <1>9, <1>10 DEF NoDup

(* An event inserted between those that precede it and those that follow. *)
LEMMA WithOrdered ==
    ASSUME NEW r, NEW s \in Seq(Ev), NEW t \in Seq(Ev), NEW p, NEW e, IsWith(t, s, p, e),
           Ordered(r, s), \A j \in 1..p-1 : Precedes(r, s[j], e),
           \A j \in p..Len(s) : Precedes(r, e, s[j])
    PROVE  Ordered(r, t)
<1>1. \A i \in 1..Len(t) : \/ i = p /\ t[i] = e
                           \/ i \in 1..p-1 /\ i \in 1..Len(s) /\ t[i] = s[i]
                           \/ i \in p+1..Len(t) /\ i-1 \in p..Len(s) /\ i-1 \in 1..Len(s) /\ t[i] = s[i-1]
  BY WithIndex
<1> SUFFICES ASSUME NEW i \in 1..Len(t), NEW j \in 1..Len(t), i < j
             PROVE  Precedes(r, t[i], t[j])
  BY DEF Ordered
<1>2. p \in Nat
  BY DEF IsWith
<1>3. CASE i < p /\ j < p
  <2>1. i \in 1..Len(s) /\ j \in 1..Len(s) /\ t[i] = s[i] /\ t[j] = s[j]
    BY <1>1, <1>2, <1>3
  <2> QED
    BY <2>1 DEF Ordered
<1>4. CASE i > p
  <2>1. i-1 \in 1..Len(s) /\ j-1 \in 1..Len(s) /\ i-1 < j-1
    BY <1>1, <1>2, <1>4
  <2>2. t[i] = s[i-1] /\ t[j] = s[j-1]
    BY <1>1, <1>2, <1>4
  <2> QED
    BY <2>1, <2>2 DEF Ordered
<1>5. CASE i < p /\ j > p
  <2>1. t[i] = s[i] /\ t[j] = s[j-1] /\ Precedes(r, s[i], e) /\ Precedes(r, e, s[j-1])
    BY <1>1, <1>2, <1>5, SMTT(60)
  <2>2. s[i] \in Ev /\ s[j-1] \in Ev /\ e \in Ev
    BY <1>1, <1>2, <1>5 DEF IsWith
  <2> QED
    BY <2>1, <2>2, PrecedesOrder
<1>6. CASE i = p
  <2>1. t[i] = e /\ t[j] = s[j-1] /\ j-1 \in p..Len(s)
    BY <1>1, <1>2, <1>6, SMTT(60)
  <2> QED
    BY <2>1
<1>7. CASE j = p
  <2>1. t[j] = e /\ t[i] = s[i] /\ i \in 1..p-1
    BY <1>1, <1>2, <1>7
  <2> QED
    BY <2>1
<1> QED
  BY <1>2, <1>3, <1>4, <1>5, <1>6, <1>7

(* What is left after an element is taken out is still in order. *)
LEMMA WithoutOrdered ==
    ASSUME NEW r, NEW s \in Seq(Ev), NEW t \in Seq(Ev), NEW p, NEW e, IsWith(t, s, p, e),
           Ordered(r, t)
    PROVE  Ordered(r, s)
<1>1. \A j \in 1..Len(s) : \/ j < p /\ j \in 1..Len(t) /\ t[j] = s[j]
                           \/ j >= p /\ j+1 \in 1..Len(t) /\ t[j+1] = s[j]
  BY WithIndex
<1> SUFFICES ASSUME NEW i \in 1..Len(s), NEW j \in 1..Len(s), i < j
             PROVE  Precedes(r, s[i], s[j])
  BY DEF Ordered
<1> DEFINE u == IF i < p THEN i ELSE i+1
           v == IF j < p THEN j ELSE j+1
<1>2. p \in Nat
  BY DEF IsWith
<1>3. u \in 1..Len(t) /\ s[i] = t[u]
  BY <1>1, <1>2
<1>4. v \in 1..Len(t) /\ s[j] = t[v]
  BY <1>1, <1>2
<1>5. u < v
  BY <1>2
<1> QED
  BY <1>3, <1>4, <1>5 DEF Ordered

(* Insertion before the first element that ev precedes keeps the order. *)
LEMMA InsertInOrder ==
    ASSUME NEW r, NEW s \in Seq(Ev), Ordered(r, s), NEW e \in Ev, e \notin Range(s),
           NEW p \in 1..Len(s)+1, \A j \in 1..p-1 : ~Precedes(r, e, s[j]),
           p <= Len(s) => Precedes(r, e, s[p])
    PROVE  /\ InsertAt(s, p, e) \in Seq(Ev) /\ Ordered(r, InsertAt(s, p, e))
           /\ Range(InsertAt(s, p, e)) = Range(s) \union {e}
<1>1. InsertAt(s, p, e) \in Seq(Ev) /\ IsWith(InsertAt(s, p, e), s, p, e)
  BY InsertAtIs
<1>2. ASSUME NEW j \in 1..p-1 PROVE Precedes(r, s[j], e)
  <2>1. j \in 1..Len(s) /\ s[j] \in Ev
    OBVIOUS
  <2>2. s[j] # e
    BY <2>1, RangeIs
  <2> QED
    BY <2>1, <2>2, PrecedesOrder
<1>3. ASSUME NEW j \in p..Len(s) PROVE Precedes(r, e, s[j])
  <2>1. j \in 1..Len(s) /\ p \in 1..Len(s) /\ s[j] \in Ev /\ s[p] \in Ev /\ (j = p \/ p < j)
    OBVIOUS
  <2>2. Precedes(r, e, s[p])
    BY <2>1
  <2>3. j # p => Precedes(r, s[p], s[j])
    BY <2>1 DEF Ordered
  <2> QED
    BY <2>1, <2>2, <2>3, PrecedesOrder, Zenon
<1> QED
  BY <1>1, <1>2, <1>3, WithOrdered, WithElements

(* Removal at p keeps the order and takes out that element only. *)
LEMMA RemoveInOrder ==
    ASSUME NEW r, NEW s \in Seq(Ev), Ordered(r, s), NEW p \in 1..Len(s)
    PROVE  /\ RemoveAt(s, p) \in Seq(Ev) /\ Ordered(r, RemoveAt(s, p))
           /\ Range(RemoveAt(s, p)) = Range(s) \ {s[p]}
<1>1. RemoveAt(s, p) \in Seq(Ev) /\ IsWith(s, RemoveAt(s, p), p, s[p])
  BY RemoveAtIs
<1>2. NoDup(s)
  BY OrderedNoDup
<1>3. Range(s) = Range(RemoveAt(s, p)) \union {s[p]} /\ s[p] \notin Range(RemoveAt(s, p))
  BY <1>1, <1>2, WithElements
<1>4. Ordered(r, RemoveAt(s, p))
  BY <1>1, WithoutOrdered
<1> QED
  BY <1>1, <1>3, <1>4

IsEarliest(e, S) == e \in S /\ \A f \in S : f = e \/ Before(e, f)

(* The event SetReverse makes NextEvent return. *)
LEMMA EndIsEarliest ==
    ASSUME NEW r, NEW s \in Seq(Ev), Ordered(r, s), s # <<>>
    PROVE  /\ Len(s) \in 1..Len(s) /\ 1 \in 1..Len(s)
           /\ r => IsEarliest(s[Len(s)], Range(s))
           /\ ~r => IsEarliest(s[1], Range(s))
<1>1. Len(s) \in 1..Len(s) /\ 1 \in 1..Len(s)
  OBVIOUS
<1>2. ASSUME r, NEW f \in Range(s) PROVE f = s[Len(s)] \/ Before(s[Len(s)], f)
  <2>1. PICK i \in 1..Len(s) : f = s[i]
    BY RangeIs
  <2> QED
    BY <1>1, <1>2, <2>1 DEF Ordered, Precedes
<1>3. ASSUME ~r, NEW f \in Range(s) PROVE f = s[1] \/ Before(s[1], f)
  <2>1. PICK i \in 1..Len(s) : f = s[i]
    BY RangeIs
  <2> QED
    BY <1>1, <1>3, <2>1 DEF Ordered, Precedes
<1>4. s[Len(s)] \in Range(s) /\ s[1] \in Range(s)
  BY <1>1, RangeIs
<1> QED
  BY <1>1, <1>2, <1>3, <1>4 DEF IsEarliest

-----------------------------------------------------------------------------
(* ListScheduler. *)

IsList(s) == s \in Seq(Ev) /\ Ordered(FALSE, s)

(* Insert puts the event where it belongs. *)
LEMMA ListInsertedIs ==
    ASSUME NEW s, IsList(s), NEW e \in Ev, e \notin Range(s)
    PROVE  IsList(ListInserted(s, e)) /\ Range(ListInserted(s, e)) = Range(s) \union {e}
<1> USE DEF IsList
<1> DEFINE S == {i \in 1..Len(s)+1 : i = Len(s)+1 \/ Before(e, s[i])}
           p == CHOOSE i \in 1..Len(s)+1 : IsPlace(s, e, i)
<1>1. S \in SUBSET Nat /\ Len(s)+1 \in S
  OBVIOUS
<1>2. PICK i \in S : \A j \in S : i <= j
  <2> HIDE DEF S
  <2> QED
    BY <1>1, LeastNatural, Zenon
<1>3. ASSUME NEW j \in 1..i-1 PROVE ~Before(e, s[j])
  <2>1. j \in 1..Len(s)+1 /\ ~(i <= j)
    OBVIOUS
  <2>2. j \notin S
    BY <1>2, <2>1
  <2> QED
    BY <2>1, <2>2
<1>4. i \in 1..Len(s)+1 /\ IsPlace(s, e, i)
  BY <1>3 DEF IsPlace
<1>5. p \in 1..Len(s)+1 /\ IsPlace(s, e, p)
  BY <1>4, Zenon
<1>6. ListInserted(s, e) = InsertAt(s, p, e)
  BY Zenon DEF ListInserted
<1> DEFINE r == FALSE
<1> HIDE DEF p, S
<1>7. (\A j \in 1..p-1 : ~Precedes(r, e, s[j])) /\ (p <= Len(s) => Precedes(r, e, s[p]))
  BY <1>5 DEF IsPlace, Precedes
<1>8. s \in Seq(Ev) /\ Ordered(r, s)
  BY Zenon
<1> HIDE DEF r
<1>9. /\ InsertAt(s, p, e) \in Seq(Ev) /\ Ordered(r, InsertAt(s, p, e))
      /\ Range(InsertAt(s, p, e)) = Range(s) \union {e}
  BY <1>5, <1>7, <1>8, InsertInOrder
<1> QED
  BY <1>6, <1>9, Zenon DEF r

(* The empty sequence. *)
LEMMA EmptyIs ==
    /\ <<>> \in Seq(Ev) /\ Len(<<>>) = 0 /\ Range(<<>>) = {} /\ NoDup(<<>>)
    /\ \A r : Ordered(r, <<>>)
BY DEF Range, NoDup, Ordered

(* The elements a loop over evs has seen after i passes. *)
Firsts(evs, i) == {evs[j] : j \in 1..i}

(* One more pass has seen one more element. *)
LEMMA FirstsStep ==
    ASSUME NEW evs \in Seq(Ev), NoDup(evs)
    PROVE  /\ Firsts(evs, 0) = {} /\ Firsts(evs, Len(evs)) = Range(evs) /\ Len(evs) \in Nat
           /\ \A i \in 1..Len(evs) :
                /\ evs[i] \in Ev /\ evs[i] \notin Firsts(evs, i-1)
                /\ Firsts(evs, i) = Firsts(evs, i-1) \union {evs[i]}
<1>1. ASSUME NEW i \in 1..Len(evs) PROVE Firsts(evs, i) = Firsts(evs, i-1) \union {evs[i]}
  <2>1. \A j \in 1..i : j = i \/ j \in 1..i-1
    OBVIOUS
  <2>2. i \in 1..i /\ \A j \in 1..i-1 : j \in 1..i
    OBVIOUS
  <2> QED
    BY <2>1, <2>2 DEF Firsts
<1>2. ASSUME NEW i \in 1..Len(evs) PROVE evs[i] \notin Firsts(evs, i-1)
  BY DEF Firsts, NoDup
<1>3. Firsts(evs, 0) = {}
  BY DEF Firsts
<1>4. Firsts(evs, Len(evs)) = Range(evs)
  BY DEF Firsts, Range
<1> QED
  BY <1>1, <1>2, <1>3, <1>4

(* The list that SetScheduler fills holds the events it was given. *)
LEMMA ListOfIs ==
    ASSUME NEW evs \in Seq(Ev), NoDup(evs)
    PROVE  IsList(ListOf(evs)) /\ Range(ListOf(evs)) = Range(evs)
<1> DEFINE n == Len(evs)
           Y == [i \in 0..n |-> {s \in Seq(Ev) : IsList(s) /\ Range(s) = Firsts(evs, i)}]
           step == [i \in 1..n |-> [s \in Y[i-1] |-> ListInserted(s, evs[i])]]
           g == CHOOSE g : g = [i \in 0..n |-> IF i = 0 THEN <<>> ELSE ListInserted(g[i-1], evs[i])]
<1>1. n \in Nat /\ 0 \in 0..n /\ \A i \in 1..n : i-1 \in 0..n /\ i \in 0..n /\ i # 0
  OBVIOUS
<1>2. <<>> \in Y[0]
  <2>1. IsList(<<>>)
    BY EmptyIs, Zenon DEF IsList
  <2> QED
    BY <1>1, <2>1, FirstsStep, EmptyIs, Zenon
<1>3. ASSUME NEW i \in 1..n, NEW s \in Y[i-1] PROVE ListInserted(s, evs[i]) \in Y[i]
  <2>1. /\ evs[i] \in Ev /\ evs[i] \notin Firsts(evs, i-1)
        /\ Firsts(evs, i) = Firsts(evs, i-1) \union {evs[i]}
    BY FirstsStep
  <2>2. IsList(s) /\ Range(s) = Firsts(evs, i-1)
    BY <1>1
  <2>3. IsList(ListInserted(s, evs[i])) /\ Range(ListInserted(s, evs[i])) = Firsts(evs, i)
    BY <2>1, <2>2, ListInsertedIs
  <2> QED
    BY <1>1, <2>3 DEF IsList
<1>4. ASSUME NEW i \in 1..n, NEW s \in Y[i-1]
      PROVE  step[i][s] = ListInserted(s, evs[i]) /\ step[i][s] \in Y[i]
  BY <1>3, Zenon
<1>5. ListOf(evs) = g[n]
  BY DEF ListOf, Loop
<1>6. Y[n] = {s \in Seq(Ev) : IsList(s) /\ Range(s) = Firsts(evs, n)}
  BY <1>1
<1> HIDE DEF Y, step, n
<1>7. \E f : IsRun(f, Y, <<>>, step, n)
  BY <1>1, <1>2, <1>4, RunExists, Zenon
<1>8. PICK f : IsRun(f, Y, <<>>, step, n)
  BY <1>7
<1>9. f = [i \in 0..n |-> IF i = 0 THEN <<>> ELSE ListInserted(f[i-1], evs[i])]
  <2>1. \A i \in 0..n : i = 0 \/ (i \in 1..n /\ f[i-1] \in Y[i-1])
    BY <1>1, <1>8, RunStates
  <2>2. \A i \in 0..n : i = 0 \/ step[i][f[i-1]] = ListInserted(f[i-1], evs[i])
    BY <2>1, <1>4
  <2> QED
    BY <1>8, <2>2, Zenon DEF IsRun
<1>10. g = [i \in 0..n |-> IF i = 0 THEN <<>> ELSE ListInserted(g[i-1], evs[i])]
  BY <1>9, Zenon
<1> HIDE DEF g
<1>11. \A i \in 0..n : g[i] \in Y[i]
  <2> DEFINE T == {i \in 0..n : g[i] \in Y[i]}
  <2>1. 0 \in T
    BY <1>1, <1>2, <1>10
  <2>2. ASSUME NEW i \in 1..n, i-1 \in T PROVE i \in T
    BY <2>2, <1>1, <1>3, <1>10
  <2> HIDE DEF T
  <2>3. \A i \in 0..n : i \in T
    BY <1>1, <2>1, <2>2, UpTo
  <2> QED
    BY <2>3 DEF T
<1> QED
  BY <1>1, <1>5, <1>6, <1>11, FirstsStep DEF n

-----------------------------------------------------------------------------
(* HeapScheduler. *)

HeapOrdered(h) == \A j \in 2..Len(h) : ~Before(h[j], h[j \div 2])

IsHeap(h) == h \in Seq(Ev) /\ NoDup(h) /\ HeapOrdered(h)

(* Not being before is transitive. *)
LEMMA NotBefore ==
    /\ \A a, b, c \in Ev : ~Before(a, b) /\ ~Before(b, c) => ~Before(a, c)
    /\ \A a, b, c \in Ev : ~Before(a, b) /\ Before(c, b) => ~Before(a, c)
BY DEF Ev, Before

(* Parents and children. *)
LEMMA Halves ==
    ASSUME NEW j \in Nat, j >= 2
    PROVE  /\ j \div 2 \in Nat /\ j \div 2 >= 1 /\ j \div 2 < j
           /\ j = 2 * (j \div 2) \/ j = 2 * (j \div 2) + 1
OBVIOUS

(* Exch keeps the elements. *)
LEMMA ExchIs ==
    ASSUME NEW h \in Seq(Ev), NEW a \in 1..Len(h), NEW b \in 1..Len(h)
    PROVE  /\ Exch(h, a, b) \in Seq(Ev) /\ Len(Exch(h, a, b)) = Len(h)
           /\ Exch(h, a, b)[a] = h[b] /\ Exch(h, a, b)[b] = h[a]
           /\ \A i \in 1..Len(h) : i # a /\ i # b => Exch(h, a, b)[i] = h[i]
           /\ Range(Exch(h, a, b)) = Range(h)
           /\ NoDup(h) => NoDup(Exch(h, a, b))
<1> DEFINE x == Exch(h, a, b)
           t(i) == IF i = a THEN b ELSE IF i = b THEN a ELSE i
<1>1. x \in Seq(Ev) /\ Len(x) = Len(h)
  BY DEF Exch
<1>2. \A i \in 1..Len(h) : x[i] = h[t(i)]
  BY DEF Exch
<1>3. \A i \in 1..Len(h) : t(i) \in 1..Len(h) /\ t(t(i)) = i
  OBVIOUS
<1> HIDE DEF x, t
<1>4. \A i \in 1..Len(h) : h[i] = x[t(i)]
  BY <1>2, <1>3
<1>5. Range(x) = Range(h)
  <2>1. ASSUME NEW e \in Range(x) PROVE e \in Range(h)
    <3>1. PICK i \in 1..Len(x) : e = x[i]
      BY <1>1, RangeIs
    <3> QED
      BY <1>1, <1>2, <1>3, <3>1, RangeIs
  <2>2. ASSUME NEW e \in Range(h) PROVE e \in Range(x)
    <3>1. PICK i \in 1..Len(h) : e = h[i]
      BY RangeIs
    <3> QED
      BY <1>1, <1>3, <1>4, <3>1, RangeIs, Zenon
  <2> QED
    BY <2>1, <2>2, Zenon
<1>6. ASSUME NoDup(h), NEW i \in 1..Len(h), NEW j \in 1..Len(h), x[i] = x[j] PROVE i = j
  <2>1. h[t(i)] = h[t(j)] /\ t(i) \in 1..Len(h) /\ t(j) \in 1..Len(h)
    BY <1>2, <1>3, <1>6, Zenon
  <2>2. t(i) = t(j)
    BY <1>6, <2>1, Zenon DEF NoDup
  <2> QED
    BY <1>3, <2>2, Zenon
<1>7. x[a] = h[b] /\ x[b] = h[a] /\ \A i \in 1..Len(h) : i # a /\ i # b => x[i] = h[i]
  BY <1>2 DEF t
<1>8. NoDup(h) => NoDup(x)
  BY <1>1, <1>6 DEF NoDup
<1> QED
  BY <1>1, <1>5, <1>7, <1>8 DEF x

(* The first element is the earliest. *)
LEMMA RootIsEarliest ==
    ASSUME NEW h, IsHeap(h), h # <<>>
    PROVE  IsEarliest(h[1], Range(h))
<1> DEFINE S == {i \in 1..Len(h) : Before(h[i], h[1])}
<1>1. h \in Seq(Ev) /\ 1 \in 1..Len(h) /\ Len(h) \in Nat
  BY DEF IsHeap
<1>2. S = {}
  <2> SUFFICES ASSUME S # {} PROVE FALSE
    OBVIOUS
  <2>1. PICK m \in S : \A i \in S : m <= i
    <3>1. S \in SUBSET Nat
      OBVIOUS
    <3> QED
      BY <3>1, LeastNatural, Zenon
  <2>2. m \in 1..Len(h) /\ Before(h[m], h[1])
    OBVIOUS
  <2>3. m # 1
    BY <1>1, <2>2, BeforeOrder
  <2>4. m \div 2 \in 1..Len(h) /\ m \div 2 < m
    BY <2>2, <2>3, Halves
  <2>5. m \div 2 \notin S
    BY <2>1, <2>4
  <2>6. ~Before(h[m \div 2], h[1])
    BY <2>4, <2>5
  <2>7. ~Before(h[m], h[m \div 2])
    BY <2>2, <2>3 DEF IsHeap, HeapOrdered
  <2>8. h[1] \in Ev /\ h[m] \in Ev /\ h[m \div 2] \in Ev
    BY <1>1, <2>2, <2>4
  <2> QED
    BY <2>2, <2>6, <2>7, <2>8, NotBefore
<1>3. ASSUME NEW f \in Range(h) PROVE f = h[1] \/ Before(h[1], f)
  <2>1. PICK i \in 1..Len(h) : f = h[i]
    BY <1>1, RangeIs
  <2>2. ~Before(h[i], h[1]) /\ h[i] \in Ev /\ h[1] \in Ev
    BY <1>1, <1>2
  <2> QED
    BY <2>1, <2>2, BeforeOrder
<1> QED
  BY <1>1, <1>3, RangeIs DEF IsEarliest

(* What the loop of BottomUp keeps: the element at index may be before its  *)
(* parent, every other one is not, and neither are its children.            *)
RisingTo(n, S, i) ==
    {s \in [heap : Seq(Ev), index : Nat] :
       /\ Len(s.heap) = n /\ Range(s.heap) = S /\ NoDup(s.heap) /\ s.index \in 1..n
       /\ \A j \in 2..n : j # s.index => ~Before(s.heap[j], s.heap[j \div 2])
       /\ \A j \in 2..n : j \div 2 = s.index /\ s.index # 1
                            => ~Before(s.heap[j], s.heap[s.index \div 2])
       /\ \/ s.index <= n - i
          \/ s.index = 1
          \/ ~Before(s.heap[s.index], s.heap[s.index \div 2])}

(* A pass of BottomUp keeps that, one level higher. *)
LEMMA BottomUpPassIs ==
    ASSUME NEW n \in Nat, NEW S, NEW i \in 1..n, NEW s \in RisingTo(n, S, i-1)
    PROVE  BottomUpPass(s) \in RisingTo(n, S, i)
<1> DEFINE h == s.heap
           x == s.index
           p == x \div 2
           t == Exch(h, x, p)
<1>1. /\ h \in Seq(Ev) /\ Len(h) = n /\ Range(h) = S /\ NoDup(h) /\ x \in 1..n
      /\ s \in [heap : Seq(Ev), index : Nat] /\ s = [heap |-> h, index |-> x]
  BY DEF RisingTo
<1>2. \A j \in 2..n : j # x => ~Before(h[j], h[j \div 2])
  BY DEF RisingTo
<1>3. \A j \in 2..n : j \div 2 = x /\ x # 1 => ~Before(h[j], h[p])
  BY DEF RisingTo
<1>4. \A j \in 1..n : h[j] \in Ev
  BY <1>1
<1>5. \A j \in 2..n : j \div 2 \in 1..n /\ j \div 2 < j
  BY Halves
<1>6. CASE ~(x # 1 /\ Before(h[x], h[p]))
  <2>1. BottomUpPass(s) = s
    BY <1>6 DEF BottomUpPass, IsLessStrictly, Parent
  <2>2. x = 1 \/ ~Before(h[x], h[p])
    BY <1>6
  <2> QED
    BY <1>1, <1>2, <1>3, <2>1, <2>2 DEF RisingTo
<1>7. CASE x # 1 /\ Before(h[x], h[p])
  <2>1. BottomUpPass(s) = [heap |-> t, index |-> p]
    BY <1>7 DEF BottomUpPass, IsLessStrictly, Parent
  <2>2. x \in 2..n /\ p \in 1..n /\ p < x
    BY <1>1, <1>5, <1>7
  <2>3. x <= n - (i-1)
    <3>1. s.index <= n - (i-1) \/ s.index = 1 \/ ~Before(s.heap[s.index], s.heap[s.index \div 2])
      BY DEF RisingTo
    <3> QED
      BY <3>1, <1>7
  <2>4. p <= n - i
    BY <2>2, <2>3
  <2>5. /\ t \in Seq(Ev) /\ Len(t) = n /\ Range(t) = S /\ NoDup(t)
    <3> HIDE DEF h, x, p
    <3> QED
      BY <1>1, <2>2, ExchIs, ZenonT(60)
  <2>6. t[x] = h[p] /\ t[p] = h[x] /\ \A j \in 1..n : j # x /\ j # p => t[j] = h[j]
    <3> HIDE DEF h, x, p
    <3>1. h \in Seq(Ev) /\ x \in 1..Len(h) /\ p \in 1..Len(h) /\ Len(h) = n
      BY <1>1, <2>2
    <3>2. t[x] = h[p] /\ t[p] = h[x] /\ \A j \in 1..Len(h) : j # x /\ j # p => t[j] = h[j]
      BY <3>1, ExchIs, ZenonT(60)
    <3> QED
      BY <3>1, <3>2
  <2> HIDE DEF t
  <2>7. ASSUME NEW j \in 2..n, j # p PROVE ~Before(t[j], t[j \div 2])
    <3>1. j \in 1..n /\ j \div 2 \in 1..n /\ j \div 2 # j
      BY <1>5
    <3> HIDE DEF p, h, x
    <3>2. CASE j = x
      BY <3>2, <1>4, <1>7, <2>2, <2>6, BeforeOrder DEF p
    <3>3. CASE j # x /\ j \div 2 = x
      <4>1. t[j] = h[j] /\ t[j \div 2] = h[p] /\ ~Before(h[j], h[p])
        BY <3>1, <3>3, <2>6, <2>7, <1>3, <1>7
      <4> QED
        BY <4>1
    <3>4. CASE j # x /\ j \div 2 = p
      <4>1. t[j] = h[j] /\ t[j \div 2] = h[x] /\ ~Before(h[j], h[p])
        BY <3>1, <3>4, <2>6, <2>7, <1>2
      <4> QED
        BY <4>1, <3>1, <2>2, <1>1, <1>4, <1>7, NotBefore
    <3>5. CASE j # x /\ j \div 2 # x /\ j \div 2 # p
      <4>1. t[j] = h[j] /\ t[j \div 2] = h[j \div 2] /\ ~Before(h[j], h[j \div 2])
        BY <3>1, <3>5, <2>6, <2>7, <1>2
      <4> QED
        BY <4>1
    <3> QED
      BY <3>2, <3>3, <3>4, <3>5
  <2>8. ASSUME NEW j \in 2..n, j \div 2 = p, p # 1 PROVE ~Before(t[j], t[p \div 2])
    <3>1. p \in 2..n /\ p \div 2 \in 1..n /\ p \div 2 # p /\ p \div 2 # x
      BY <1>5, <2>2, <2>8
    <3>2. t[p \div 2] = h[p \div 2] /\ ~Before(h[p], h[p \div 2])
      BY <3>1, <2>2, <2>6, <1>2
    <3>3. j \in 1..n /\ j # p /\ p \in 1..n
      BY <1>5, <2>2, <2>8
    <3> HIDE DEF p, h, x
    <3>4. CASE j = x
      BY <3>2, <3>4, <2>6
    <3>5. CASE j # x
      <4>1. t[j] = h[j] /\ ~Before(h[j], h[p])
        BY <3>3, <3>5, <2>6, <2>8, <1>2
      <4> QED
        BY <4>1, <3>1, <3>2, <3>3, <1>4, NotBefore
    <3> QED
      BY <3>4, <3>5
  <2> DEFINE u == [heap |-> t, index |-> p]
  <2>9. u.heap = t /\ u.index = p /\ u \in [heap : Seq(Ev), index : Nat]
    BY <2>2, <2>5
  <2> HIDE DEF u, p
  <2>10. u \in RisingTo(n, S, i)
    BY <2>2, <2>4, <2>5, <2>7, <2>8, <2>9 DEF RisingTo
  <2> QED
    BY <2>1, <2>10 DEF u
<1> QED
  BY <1>6, <1>7

(* BottomUp ends with a heap of the same elements. *)
LEMMA BottomUpIs ==
    ASSUME NEW h \in Seq(Ev), NoDup(h), h # <<>>,
           \A j \in 2..Len(h)-1 : ~Before(h[j], h[j \div 2])
    PROVE  IsHeap(BottomUp(h)) /\ Range(BottomUp(h)) = Range(h) /\ Len(BottomUp(h)) = Len(h)
<1> DEFINE n == Len(h)
           S == Range(h)
           start == [heap |-> h, index |-> n]
           Y == [i \in 0..n |-> RisingTo(n, S, i)]
           step == [i \in 1..n |-> [x \in Y[i-1] |-> BottomUpPass(x)]]
           g == CHOOSE g : g = [i \in 0..n |-> IF i = 0 THEN start ELSE BottomUpPass(g[i-1])]
<1>1. n \in Nat /\ 0 \in 0..n /\ \A i \in 1..n : i-1 \in 0..n /\ i \in 0..n /\ i # 0
  OBVIOUS
<1>2. start \in Y[0]
  <2>1. start \in [heap : Seq(Ev), index : Nat] /\ start.heap = h /\ start.index = n /\ n \in 1..n
    OBVIOUS
  <2>2. \A j \in 2..n : j # n => j \in 2..n-1
    OBVIOUS
  <2>3. \A j \in 2..n : j \div 2 # n
    BY Halves
  <2> HIDE DEF start
  <2> QED
    BY <1>1, <2>1, <2>2, <2>3, SMTT(60) DEF RisingTo
<1>3. ASSUME NEW i \in 1..n, NEW s \in Y[i-1] PROVE BottomUpPass(s) \in Y[i]
  <2> HIDE DEF n, S
  <2> QED
    BY <1>1, BottomUpPassIs
<1>4. BottomUp(h) = g[n].heap
  BY DEF BottomUp, Loop
<1>5. Y[n] = RisingTo(n, S, n)
  BY <1>1
<1>6. ASSUME NEW i \in 1..n, NEW x \in Y[i-1]
      PROVE  step[i][x] = BottomUpPass(x) /\ step[i][x] \in Y[i]
  BY <1>3, Zenon
<1> HIDE DEF Y, step, n, start, S
<1>7. \E f : IsRun(f, Y, start, step, n)
  BY <1>1, <1>2, <1>6, RunExists, Zenon
<1>8. PICK f : IsRun(f, Y, start, step, n)
  BY <1>7
<1>9. f = [i \in 0..n |-> IF i = 0 THEN start ELSE BottomUpPass(f[i-1])]
  <2>1. \A i \in 0..n : i = 0 \/ (i \in 1..n /\ f[i-1] \in Y[i-1])
    BY <1>1, <1>8, RunStates
  <2>2. \A i \in 0..n : i = 0 \/ step[i][f[i-1]] = BottomUpPass(f[i-1])
    BY <2>1, <1>6
  <2> QED
    BY <1>8, <2>2, Zenon DEF IsRun
<1>10. g = [i \in 0..n |-> IF i = 0 THEN start ELSE BottomUpPass(g[i-1])]
  BY <1>9, Zenon
<1> HIDE DEF g
<1>11. \A i \in 0..n : g[i] \in Y[i]
  <2> DEFINE T == {i \in 0..n : g[i] \in Y[i]}
  <2>1. 0 \in T
    BY <1>1, <1>2, <1>10
  <2>2. ASSUME NEW i \in 1..n, i-1 \in T PROVE i \in T
    <3>1. g[i-1] \in Y[i-1] /\ i \in 0..n /\ i # 0
      BY <2>2, <1>1
    <3>2. g[i] = BottomUpPass(g[i-1])
      BY <3>1, <1>10, Zenon
    <3> QED
      BY <3>1, <3>2, <1>3
  <2> HIDE DEF T
  <2>3. \A i \in 0..n : i \in T
    BY <1>1, <2>1, <2>2, UpTo, Zenon
  <2> QED
    BY <2>3 DEF T
<1>12. g[n] \in RisingTo(n, S, n)
  BY <1>1, <1>5, <1>11
<1>13. ASSUME NEW j \in 2..n PROVE ~Before(g[n].heap[j], g[n].heap[j \div 2])
  <2>1. g[n].index \in 1..n /\ (j # g[n].index => ~Before(g[n].heap[j], g[n].heap[j \div 2]))
    BY <1>12 DEF RisingTo
  <2>2. \/ g[n].index <= n - n \/ g[n].index = 1
        \/ ~Before(g[n].heap[g[n].index], g[n].heap[g[n].index \div 2])
    BY <1>12, Zenon DEF RisingTo
  <2> QED
    BY <1>1, <2>1, <2>2
<1> QED
  BY <1>4, <1>12, <1>13, Zenon DEF RisingTo, IsHeap, HeapOrdered, n, S

(* Insert keeps the heap and adds the event. *)
LEMMA HeapInsertedIs ==
    ASSUME NEW h, IsHeap(h), NEW e \in Ev, e \notin Range(h)
    PROVE  IsHeap(HeapInserted(h, e)) /\ Range(HeapInserted(h, e)) = Range(h) \union {e}
<1> DEFINE t == Append(h, e)
<1>1. h \in Seq(Ev) /\ NoDup(h) /\ Len(h) \in Nat
  BY DEF IsHeap
<1>2. t \in Seq(Ev) /\ IsWith(t, h, Len(h) + 1, e)
  BY <1>1, AppendIs
<1>3. NoDup(t) /\ Range(t) = Range(h) \union {e}
  BY <1>1, <1>2, WithElements, Zenon
<1>4. Len(t) = Len(h) + 1 /\ \A j \in 1..Len(h) : t[j] = h[j]
  BY <1>1
<1>5. t # <<>>
  BY <1>1, <1>4
<1>6. ASSUME NEW j \in 2..Len(t)-1 PROVE ~Before(t[j], t[j \div 2])
  <2>1. j \in 2..Len(h) /\ j \in 1..Len(h) /\ j \div 2 \in 1..Len(h)
    BY <1>1, <1>4, Halves
  <2> QED
    BY <1>4, <2>1 DEF IsHeap, HeapOrdered
<1>7. HeapInserted(h, e) = BottomUp(t)
  BY DEF HeapInserted
<1> HIDE DEF t
<1> QED
  BY <1>2, <1>3, <1>5, <1>6, <1>7, BottomUpIs

(* What the loop of TopDown keeps: the children of the element at index may *)
(* be before it, but not before its parent, and no other element is before  *)
(* its parent.                                                              *)
SinkingTo(n, S, i) ==
    {s \in [heap : Seq(Ev), index : Nat] :
       /\ Len(s.heap) = n /\ Range(s.heap) = S /\ NoDup(s.heap) /\ s.index \in 1..n
       /\ \A j \in 2..n : j \div 2 # s.index => ~Before(s.heap[j], s.heap[j \div 2])
       /\ \A j \in 2..n : j \div 2 = s.index /\ s.index # 1
                            => ~Before(s.heap[j], s.heap[s.index \div 2])
       /\ \/ s.index >= 1 + i
          \/ \A j \in 2..n : j \div 2 = s.index => ~Before(s.heap[j], s.heap[s.index])}

(* The exchange of the element at x with its smaller child. *)
Sinks(n, h, x, c, t) ==
    /\ Len(h) = n /\ x \in 1..n /\ c \in 2..n /\ c \div 2 = x /\ Before(h[c], h[x])
    /\ \A j \in 2..n : j \div 2 = x => ~Before(h[j], h[c])
    /\ \A j \in 2..n : j \div 2 # x => ~Before(h[j], h[j \div 2])
    /\ \A j \in 2..n : j \div 2 = x /\ x # 1 => ~Before(h[j], h[x \div 2])
    /\ t[x] = h[c] /\ t[c] = h[x] /\ \A j \in 1..n : j # x /\ j # c => t[j] = h[j]

(* After it the heap is in order but for the children of the new place. *)
LEMMA SinkStep ==
    ASSUME NEW n \in Nat, NEW h \in Seq(Ev), NEW x, NEW c, NEW t, Sinks(n, h, x, c, t)
    PROVE  /\ \A j \in 2..n : j \div 2 # c => ~Before(t[j], t[j \div 2])
           /\ \A j \in 2..n : j \div 2 = c => ~Before(t[j], t[c \div 2])
<1> USE DEF Sinks
<1>1. \A j \in 1..n : h[j] \in Ev
  OBVIOUS
<1>2. \A j \in 2..n : j \in 1..n /\ j \div 2 \in 1..n /\ j \div 2 < j
  BY Halves
<1>3. x < c /\ c \in 1..n
  BY <1>2
<1>4. ASSUME NEW j \in 2..n, j \div 2 # c PROVE ~Before(t[j], t[j \div 2])
  <2>1. j \in 1..n /\ j \div 2 \in 1..n /\ j \div 2 # j
    BY <1>2
  <2>2. CASE j = c
    BY <2>2, <1>1, <1>3, BeforeOrder
  <2>3. CASE j # c /\ j \div 2 = x
    <3>1. t[j] = h[j] /\ t[j \div 2] = h[c] /\ ~Before(h[j], h[c])
      BY <2>1, <2>3
    <3> QED
      BY <3>1
  <2>4. CASE j = x
    <3>1. x # 1 /\ t[x] = h[c] /\ x \div 2 # x /\ x \div 2 # c
      BY <2>1, <2>4, <1>4
    <3>2. t[x \div 2] = h[x \div 2]
      BY <2>1, <2>4, <3>1
    <3> QED
      BY <2>4, <3>1, <3>2
  <2>5. CASE j # c /\ j # x /\ j \div 2 # x
    <3>1. t[j] = h[j] /\ t[j \div 2] = h[j \div 2] /\ ~Before(h[j], h[j \div 2])
      BY <2>1, <2>5, <1>4
    <3> QED
      BY <3>1
  <2> QED
    BY <2>2, <2>3, <2>4, <2>5
<1>5. ASSUME NEW j \in 2..n, j \div 2 = c PROVE ~Before(t[j], t[c \div 2])
  <2>1. j \in 1..n /\ j # c /\ j # x
    BY <1>2, <1>3, <1>5
  <2>2. t[j] = h[j] /\ t[c \div 2] = h[c] /\ ~Before(h[j], h[j \div 2])
    BY <2>1, <1>3, <1>5
  <2> QED
    BY <2>2, <1>5
<1> QED
  BY <1>4, <1>5

(* A pass of TopDown keeps that, one level lower. *)
LEMMA TopDownPassIs ==
    ASSUME NEW n \in Nat, NEW S, NEW i \in 1..n, NEW s \in SinkingTo(n, S, i-1)
    PROVE  TopDownPass(s) \in SinkingTo(n, S, i)
<1> DEFINE h == s.heap
           x == s.index
           c == IF 2*x + 1 > Len(h) THEN 2*x
                ELSE IF Before(h[2*x], h[2*x+1]) THEN 2*x ELSE 2*x+1
           t == Exch(h, x, c)
<1>1. /\ h \in Seq(Ev) /\ Len(h) = n /\ Range(h) = S /\ NoDup(h) /\ x \in 1..n
      /\ s \in [heap : Seq(Ev), index : Nat] /\ s = [heap |-> h, index |-> x]
  BY DEF SinkingTo
<1>2. \A j \in 2..n : j \div 2 # x => ~Before(h[j], h[j \div 2])
  BY DEF SinkingTo
<1>3. \A j \in 2..n : j \div 2 = x /\ x # 1 => ~Before(h[j], h[x \div 2])
  BY DEF SinkingTo
<1>4. x >= 1 + (i-1) \/ \A j \in 2..n : j \div 2 = x => ~Before(h[j], h[x])
  BY DEF SinkingTo
<1>5. \A j \in 1..n : h[j] \in Ev
  BY <1>1
<1>6. \A j \in 2..n : j \in 1..n /\ (j \div 2 = x <=> j = 2*x \/ j = 2*x + 1)
  BY <1>1, Halves
<1>7. TopDownPass(s) = IF 2*x > Len(h) \/ Before(h[x], h[c]) THEN s
                       ELSE [heap |-> t, index |-> c]
  BY DEF TopDownPass, IsBottom, IsLessStrictly, LeftChild, RightChild, Smallest
<1>8. ASSUME 2*x <= n
      PROVE  c \in 2..n /\ c \div 2 = x /\ \A j \in 2..n : j \div 2 = x => ~Before(h[j], h[c])
  <2>1. 2*x \in 2..n /\ (2*x+1 \in 2..n \/ 2*x+1 > n)
    BY <1>1, <1>8
  <2>2. c \in 2..n /\ c \div 2 = x
    BY <1>1, <1>6, <2>1, Zenon
  <2>3. ASSUME NEW j \in 2..n, j \div 2 = x PROVE ~Before(h[j], h[c])
    <3>1. j = 2*x \/ j = 2*x + 1
      BY <1>6, <2>3
    <3>2. h[j] \in Ev /\ h[2*x] \in Ev
      BY <1>5, <1>6, <2>1
    <3> HIDE DEF h, x
    <3> QED
      BY <1>1, <2>1, <2>3, <3>1, <3>2, BeforeOrder, SMTT(60)
  <2> QED
    BY <2>2, <2>3, Zenon
<1> HIDE DEF c
<1>9. ASSUME \A j \in 2..n : j \div 2 = x => ~Before(h[j], h[x]) PROVE s \in SinkingTo(n, S, i)
  BY <1>1, <1>2, <1>3, <1>9, Zenon DEF SinkingTo
<1>10. CASE 2*x > n
  <2>1. \A j \in 2..n : j \div 2 # x
    BY <1>1, <1>6, <1>10
  <2> QED
    BY <1>1, <1>7, <1>9, <1>10, <2>1, Zenon
<1>11. CASE 2*x <= n /\ Before(h[x], h[c])
  <2>1. h[x] \in Ev /\ h[c] \in Ev /\ \A j \in 2..n : h[j] \in Ev
    BY <1>1, <1>5, <1>6, <1>8, <1>11
  <2>2. \A j \in 2..n : j \div 2 = x => ~Before(h[j], h[x])
    BY <2>1, <1>8, <1>11, NotBefore, SMTT(60)
  <2> QED
    BY <1>7, <1>9, <1>11, <2>2
<1>12. CASE 2*x <= n /\ ~Before(h[x], h[c])
  <2>1. TopDownPass(s) = [heap |-> t, index |-> c]
    BY <1>1, <1>7, <1>12
  <2>2. c \in 2..n /\ c \in 1..n /\ c \div 2 = x /\ c # x /\ x < c
    BY <1>1, <1>6, <1>8, <1>12
  <2>3. Before(h[c], h[x])
    <3>1. h[x] # h[c]
      BY <1>1, <2>2 DEF NoDup
    <3> QED
      BY <3>1, <1>1, <1>5, <1>12, <2>2, BeforeOrder
  <2>4. c >= 1 + i
    BY <1>4, <2>2, <2>3
  <2> HIDE DEF h, x
  <2>5. /\ t \in Seq(Ev) /\ Len(t) = n /\ Range(t) = S /\ NoDup(t)
    BY <1>1, <2>2, ExchIs, SMTT(60)
  <2>6. t[x] = h[c] /\ t[c] = h[x] /\ \A j \in 1..n : j # x /\ j # c => t[j] = h[j]
    <3>1. h \in Seq(Ev) /\ x \in 1..Len(h) /\ c \in 1..Len(h) /\ Len(h) = n
      BY <1>1, <2>2
    <3>2. t[x] = h[c] /\ t[c] = h[x] /\ \A j \in 1..Len(h) : j # x /\ j # c => t[j] = h[j]
      BY <3>1, ExchIs, ZenonT(60)
    <3> QED
      BY <3>1, <3>2
  <2> HIDE DEF t
  <2>7. /\ \A j \in 2..n : j \div 2 # c => ~Before(t[j], t[j \div 2])
        /\ \A j \in 2..n : j \div 2 = c => ~Before(t[j], t[c \div 2])
    <3>1. \A j \in 2..n : j \div 2 = x => ~Before(h[j], h[c])
      BY <1>8, <1>12
    <3>2. h \in Seq(Ev) /\ Len(h) = n /\ x \in 1..n
      BY <1>1
    <3>3. Sinks(n, h, x, c, t)
      BY <1>2, <1>3, <2>2, <2>3, <2>6, <3>1, <3>2, Zenon DEF Sinks
    <3> QED
      BY <3>2, <3>3, SinkStep, Zenon
  <2> DEFINE u == [heap |-> t, index |-> c]
  <2>8. u.heap = t /\ u.index = c /\ u \in [heap : Seq(Ev), index : Nat]
    BY <2>2, <2>5
  <2> HIDE DEF u
  <2>9. u \in SinkingTo(n, S, i)
    BY <2>2, <2>4, <2>5, <2>7, <2>8, Zenon DEF SinkingTo
  <2> QED
    BY <2>1, <2>9 DEF u
<1> QED
  BY <1>1, <1>10, <1>11, <1>12

(* TopDown ends with a heap of the same elements. *)
LEMMA TopDownIs ==
    ASSUME NEW h \in Seq(Ev), NoDup(h),
           \A j \in 2..Len(h) : j \div 2 # 1 => ~Before(h[j], h[j \div 2])
    PROVE  IsHeap(TopDown(h, 1)) /\ Range(TopDown(h, 1)) = Range(h) /\ Len(TopDown(h, 1)) = Len(h)
<1> DEFINE n == Len(h)
           S == Range(h)
           start == [heap |-> h, index |-> 1]
           Y == [i \in 0..n |-> IF n = 0 THEN {start} ELSE SinkingTo(n, S, i)]
           step == [i \in 1..n |-> [x \in Y[i-1] |-> TopDownPass(x)]]
           g == CHOOSE g : g = [i \in 0..n |-> IF i = 0 THEN start ELSE TopDownPass(g[i-1])]
<1>1. n \in Nat /\ 0 \in 0..n /\ \A i \in 1..n : i-1 \in 0..n /\ i \in 0..n /\ i # 0
  OBVIOUS
<1>2. start \in Y[0]
  <2>1. start \in [heap : Seq(Ev), index : Nat] /\ start.heap = h /\ start.index = 1
        /\ (n = 0 \/ 1 \in 1..n)
    OBVIOUS
  <2>2. \A j \in 2..n : j \div 2 # 1 => ~Before(h[j], h[j \div 2])
    OBVIOUS
  <2> HIDE DEF start, n
  <2>3. n # 0 => start \in SinkingTo(n, S, 0)
    BY <1>1, <2>1, <2>2 DEF SinkingTo, n
  <2> QED
    BY <1>1, <2>3
<1>3. ASSUME NEW i \in 1..n, NEW s \in Y[i-1] PROVE TopDownPass(s) \in Y[i]
  <2>1. n # 0
    OBVIOUS
  <2> HIDE DEF n, S
  <2> QED
    BY <1>1, <2>1, TopDownPassIs
<1>4. TopDown(h, 1) = g[n].heap
  BY DEF TopDown, Loop
<1>5. Y[n] = IF n = 0 THEN {start} ELSE SinkingTo(n, S, n)
  BY <1>1
<1>6. ASSUME NEW i \in 1..n, NEW x \in Y[i-1]
      PROVE  step[i][x] = TopDownPass(x) /\ step[i][x] \in Y[i]
  BY <1>3, Zenon
<1> HIDE DEF Y, step, n, start, S
<1>7. \E f : IsRun(f, Y, start, step, n)
  BY <1>1, <1>2, <1>6, RunExists, Zenon
<1>8. PICK f : IsRun(f, Y, start, step, n)
  BY <1>7
<1>9. f = [i \in 0..n |-> IF i = 0 THEN start ELSE TopDownPass(f[i-1])]
  <2>1. \A i \in 0..n : i = 0 \/ (i \in 1..n /\ f[i-1] \in Y[i-1])
    BY <1>1, <1>8, RunStates
  <2>2. \A i \in 0..n : i = 0 \/ step[i][f[i-1]] = TopDownPass(f[i-1])
    BY <2>1, <1>6
  <2> QED
    BY <1>8, <2>2, Zenon DEF IsRun
<1>10. g = [i \in 0..n |-> IF i = 0 THEN start ELSE TopDownPass(g[i-1])]
  BY <1>9, Zenon
<1> HIDE DEF g
<1>11. \A i \in 0..n : g[i] \in Y[i]
  <2> DEFINE T == {i \in 0..n : g[i] \in Y[i]}
  <2>1. 0 \in T
    BY <1>1, <1>2, <1>10
  <2>2. ASSUME NEW i \in 1..n, i-1 \in T PROVE i \in T
    <3>1. g[i-1] \in Y[i-1] /\ i \in 0..n /\ i # 0
      BY <2>2, <1>1
    <3>2. g[i] = TopDownPass(g[i-1])
      BY <3>1, <1>10, Zenon
    <3> QED
      BY <3>1, <3>2, <1>3
  <2> HIDE DEF T
  <2>3. \A i \in 0..n : i \in T
    BY <1>1, <2>1, <2>2, UpTo, Zenon
  <2> QED
    BY <2>3 DEF T
<1>12. g[n] \in IF n = 0 THEN {start} ELSE SinkingTo(n, S, n)
  BY <1>1, <1>5, <1>11
<1>13. CASE n = 0
  <2>1. g[n].heap = h
    BY <1>12, <1>13 DEF start
  <2>2. \A j \in 2..Len(h) : FALSE
    BY <1>13 DEF n
  <2>3. IsHeap(h)
    BY <2>2 DEF IsHeap, HeapOrdered
  <2> QED
    BY <1>4, <2>1, <2>3
<1>14. CASE n # 0
  <2>1. ASSUME NEW j \in 2..n PROVE ~Before(g[n].heap[j], g[n].heap[j \div 2])
    <3>1. /\ g[n].index \in 1..n
          /\ j \div 2 # g[n].index => ~Before(g[n].heap[j], g[n].heap[j \div 2])
      BY <1>12, <1>14, Zenon DEF SinkingTo
    <3>2. \/ g[n].index >= 1 + n
          \/ j \div 2 = g[n].index => ~Before(g[n].heap[j], g[n].heap[g[n].index])
      BY <1>12, <1>14, Zenon DEF SinkingTo
    <3> QED
      BY <1>1, <3>1, <3>2
  <2> QED
    BY <1>4, <1>12, <1>14, <2>1, Zenon DEF SinkingTo, IsHeap, HeapOrdered, n, S
<1> QED
  BY <1>13, <1>14

(* RemoveNext keeps the heap and takes out its root. *)
LEMMA TakenOutIs ==
    ASSUME NEW h, IsHeap(h), h # <<>>
    PROVE  /\ IsHeap(TakenOut(h, 1)) /\ Range(TakenOut(h, 1)) = Range(h) \ {h[1]}
           /\ Len(TakenOut(h, 1)) = Len(h) - 1
<1> DEFINE n == Len(h)
           x == Exch(h, 1, n)
           t == RemoveAt(x, n)
<1>1. h \in Seq(Ev) /\ NoDup(h) /\ n \in Nat /\ 1 \in 1..n /\ n \in 1..n
  BY DEF IsHeap
<1>2. /\ x \in Seq(Ev) /\ Len(x) = n /\ Range(x) = Range(h) /\ NoDup(x) /\ x[n] = h[1]
      /\ x[1] = h[n]
  BY <1>1, ExchIs
<1>3. \A j \in 1..n : j # 1 /\ j # n => x[j] = h[j]
  BY <1>1, ExchIs, Zenon
<1> HIDE DEF x
<1>4. t \in Seq(Ev) /\ IsWith(x, t, n, h[1])
  <2> HIDE DEF n
  <2> QED
    BY <1>1, <1>2, RemoveAtIs
<1>5. NoDup(t) /\ h[1] \notin Range(t) /\ Range(x) = Range(t) \union {h[1]}
  <2> HIDE DEF t
  <2> QED
    BY <1>2, <1>4, WithElements
<1>6. Len(t) = n - 1 /\ \A j \in 1..n-1 : t[j] = x[j]
  <2> HIDE DEF t
  <2> QED
    BY <1>1, <1>2, <1>4 DEF IsWith
<1>7. ASSUME NEW j \in 2..Len(t), j \div 2 # 1 PROVE ~Before(t[j], t[j \div 2])
  <2>1. j \in 2..n /\ j \in 1..n-1 /\ j \div 2 \in 1..n-1 /\ j # 1 /\ j # n /\ j \div 2 # n
    BY <1>1, <1>6, Halves
  <2>2. t[j] = h[j] /\ t[j \div 2] = h[j \div 2]
    BY <1>1, <1>3, <1>6, <1>7, <2>1
  <2> QED
    BY <2>1, <2>2 DEF IsHeap, HeapOrdered
<1>8. TakenOut(h, 1) = TopDown(t, 1)
  BY DEF TakenOut, x
<1> HIDE DEF t
<1> QED
  BY <1>2, <1>4, <1>5, <1>6, <1>7, <1>8, TopDownIs, Zenon

(* The heap that SetScheduler fills holds the events it was given. *)
LEMMA HeapOfIs ==
    ASSUME NEW evs \in Seq(Ev), NoDup(evs)
    PROVE  IsHeap(HeapOf(evs)) /\ Range(HeapOf(evs)) = Range(evs)
<1> DEFINE n == Len(evs)
           Y == [i \in 0..n |-> {s \in Seq(Ev) : IsHeap(s) /\ Range(s) = Firsts(evs, i)}]
           step == [i \in 1..n |-> [x \in Y[i-1] |-> HeapInserted(x, evs[i])]]
           g == CHOOSE g : g = [i \in 0..n |-> IF i = 0 THEN <<>> ELSE HeapInserted(g[i-1], evs[i])]
<1>1. n \in Nat /\ 0 \in 0..n /\ \A i \in 1..n : i-1 \in 0..n /\ i \in 0..n /\ i # 0
  OBVIOUS
<1>2. <<>> \in Y[0]
  <2>1. IsHeap(<<>>)
    BY EmptyIs DEF IsHeap, HeapOrdered
  <2> QED
    BY <1>1, <2>1, FirstsStep, EmptyIs, Zenon
<1>3. ASSUME NEW i \in 1..n, NEW s \in Y[i-1] PROVE HeapInserted(s, evs[i]) \in Y[i]
  <2>1. /\ evs[i] \in Ev /\ evs[i] \notin Firsts(evs, i-1)
        /\ Firsts(evs, i) = Firsts(evs, i-1) \union {evs[i]}
    BY FirstsStep
  <2>2. IsHeap(s) /\ Range(s) = Firsts(evs, i-1)
    BY <1>1
  <2>3. IsHeap(HeapInserted(s, evs[i])) /\ Range(HeapInserted(s, evs[i])) = Firsts(evs, i)
    BY <2>1, <2>2, HeapInsertedIs
  <2> QED
    BY <1>1, <2>3 DEF IsHeap
<1>4. HeapOf(evs) = g[n]
  BY DEF HeapOf, Loop
<1>5. Y[n] = {s \in Seq(Ev) : IsHeap(s) /\ Range(s) = Firsts(evs, n)}
  BY <1>1
<1>6. ASSUME NEW i \in 1..n, NEW x \in Y[i-1]
      PROVE  step[i][x] = HeapInserted(x, evs[i]) /\ step[i][x] \in Y[i]
  BY <1>3, Zenon
<1> HIDE DEF Y, step, n
<1>7. \E f : IsRun(f, Y, <<>>, step, n)
  BY <1>1, <1>2, <1>6, RunExists, Zenon
<1>8. PICK f : IsRun(f, Y, <<>>, step, n)
  BY <1>7
<1>9. f = [i \in 0..n |-> IF i = 0 THEN <<>> ELSE HeapInserted(f[i-1], evs[i])]
  <2>1. \A i \in 0..n : i = 0 \/ (i \in 1..n /\ f[i-1] \in Y[i-1])
    BY <1>1, <1>8, RunStates
  <2>2. \A i \in 0..n : i = 0 \/ step[i][f[i-1]] = HeapInserted(f[i-1], evs[i])
    BY <2>1, <1>6
  <2> QED
    BY <1>8, <2>2, Zenon DEF IsRun
<1>10. g = [i \in 0..n |-> IF i = 0 THEN <<>> ELSE HeapInserted(g[i-1], evs[i])]
  BY <1>9, Zenon
<1> HIDE DEF g
<1>11. \A i \in 0..n : g[i] \in Y[i]
  <2> DEFINE T == {i \in 0..n : g[i] \in Y[i]}
  <2>1. 0 \in T
    BY <1>1, <1>2, <1>10
  <2>2. ASSUME NEW i \in 1..n, i-1 \in T PROVE i \in T
    <3>1. g[i-1] \in Y[i-1] /\ i \in 0..n /\ i # 0
      BY <2>2, <1>1
    <3>2. g[i] = HeapInserted(g[i-1], evs[i])
      BY <3>1, <1>10, Zenon
    <3> QED
      BY <3>1, <3>2, <1>3
  <2> HIDE DEF T
  <2>3. \A i \in 0..n : i \in T
    BY <1>1, <2>1, <2>2, UpTo
  <2> QED
    BY <2>3 DEF T
<1> QED
  BY <1>1, <1>4, <1>5, <1>11, FirstsStep, SMTT(60) DEF n

-----------------------------------------------------------------------------
(* The events in the order in which a list returns them. *)

(* A set of events that is not empty has an earliest one. *)
LEMMA EarliestExists ==
    ASSUME NEW S \in SUBSET Ev, S # {}
    PROVE  \E e : IsEarliest(e, S)
<1> DEFINE T == {e.ts : e \in S}
<1>1. PICK t \in T : \A u \in T : t <= u
  <2>1. T \in SUBSET Nat /\ T # {}
    BY DEF Ev
  <2> QED
    BY <2>1, LeastNatural, Zenon
<1> DEFINE U == {e.uid : e \in {f \in S : f.ts = t}}
<1>2. PICK u \in U : \A v \in U : u <= v
  <2>1. U \in SUBSET Nat /\ U # {}
    BY DEF Ev
  <2> QED
    BY <2>1, LeastNatural, Zenon
<1>3. PICK e \in S : e.ts = t /\ e.uid = u
  OBVIOUS
<1>4. ASSUME NEW f \in S PROVE f = e \/ Before(e, f)
  <2>1. f.ts \in T /\ (f.ts = t => f.uid \in U)
    OBVIOUS
  <2>2. t <= f.ts /\ (f.ts = t => u <= f.uid)
    BY <1>1, <1>2, <2>1
  <2>3. e \in Ev /\ f \in Ev
    OBVIOUS
  <2> QED
    BY <1>3, <2>2, <2>3 DEF Ev, Before
<1> QED
  BY <1>4 DEF IsEarliest

(* out holds the events of S that are not in rest. *)
Drained(S, rest, out) ==
    /\ out \in Seq(Ev) /\ NoDup(out)
    /\ \A e \in Range(out) : e \in S /\ e \notin rest
    /\ \A e \in S : e \in Range(out) \/ e \in rest
    /\ rest \subseteq S

(* RemoveNext moves one event from rest to out. *)
LEMMA DrainStep ==
    ASSUME NEW S \in SUBSET Ev, NEW rest, NEW out, Drained(S, rest, out), NEW e \in rest,
           NEW left, left = rest \ {e}
    PROVE  Drained(S, left, Append(out, e))
<1>1. out \in Seq(Ev) /\ e \in Ev /\ e \notin Range(out)
  BY DEF Drained
<1>2. Append(out, e) \in Seq(Ev) /\ IsWith(Append(out, e), out, Len(out) + 1, e)
  BY <1>1, AppendIs
<1>3. NoDup(Append(out, e)) /\ Range(Append(out, e)) = Range(out) \union {e}
  BY <1>1, <1>2, WithElements, Zenon DEF Drained
<1> QED
  BY <1>2, <1>3 DEF Drained

(* At the start all events are left. *)
LEMMA DrainStart ==
    ASSUME NEW S \in SUBSET Ev
    PROVE  Drained(S, S, <<>>)
BY EmptyIs DEF Drained

(* At the end out holds all of them. *)
LEMMA DrainEnd ==
    ASSUME NEW S \in SUBSET Ev, NEW out, Drained(S, {}, out)
    PROVE  out \in Seq(Ev) /\ NoDup(out) /\ Range(out) = S
BY Zenon DEF Drained

(* Calling RemoveNext until the heap is empty returns every event once. *)
LEMMA HeapInTurnIs ==
    ASSUME NEW h, IsHeap(h)
    PROVE  /\ HeapInTurn(h) \in Seq(Ev) /\ NoDup(HeapInTurn(h))
           /\ Range(HeapInTurn(h)) = Range(h)
<1> DEFINE n == Len(h)
           S == Range(h)
           start == [heap |-> h, out |-> <<>>]
           Pass(s) == [heap |-> TakenOut(s.heap, 1), out |-> Append(s.out, s.heap[1])]
           Y == [i \in 0..n |-> {s \in [heap : Seq(Ev), out : Seq(Ev)] :
                  IsHeap(s.heap) /\ Len(s.heap) = n - i /\ Drained(S, Range(s.heap), s.out)}]
           step == [i \in 1..n |-> [x \in Y[i-1] |-> Pass(x)]]
           g == CHOOSE g : g = [i \in 0..n |-> IF i = 0 THEN start ELSE Pass(g[i-1])]
<1>1. h \in Seq(Ev) /\ S \in SUBSET Ev
  BY RangeIs DEF IsHeap
<1>2. n \in Nat /\ 0 \in 0..n /\ \A i \in 1..n : i-1 \in 0..n /\ i \in 0..n /\ i # 0
  BY <1>1
<1>3. start \in Y[0]
  <2>1. start \in [heap : Seq(Ev), out : Seq(Ev)] /\ start.heap = h /\ start.out = <<>>
    BY <1>1, EmptyIs
  <2>2. Drained(S, S, <<>>)
    BY <1>1, DrainStart
  <2> HIDE DEF start
  <2> QED
    BY <1>2, <2>1, <2>2
<1>4. ASSUME NEW i \in 1..n, NEW s \in Y[i-1] PROVE Pass(s) \in Y[i]
  <2>1. /\ IsHeap(s.heap) /\ Len(s.heap) = n - (i-1) /\ Drained(S, Range(s.heap), s.out)
        /\ s.heap \in Seq(Ev)
    BY <1>2, Zenon
  <2>2. s.heap # <<>> /\ 1 \in 1..Len(s.heap)
    BY <1>2, <2>1
  <2>3. /\ IsHeap(TakenOut(s.heap, 1)) /\ Len(TakenOut(s.heap, 1)) = Len(s.heap) - 1
        /\ Range(TakenOut(s.heap, 1)) = Range(s.heap) \ {s.heap[1]}
    BY <2>1, <2>2, TakenOutIs
  <2>4. s.heap[1] \in Range(s.heap)
    BY <2>1, <2>2, RangeIs
  <2>5. Drained(S, Range(TakenOut(s.heap, 1)), Append(s.out, s.heap[1]))
    BY <1>1, <2>1, <2>3, <2>4, DrainStep
  <2>6. /\ Pass(s).heap = TakenOut(s.heap, 1) /\ Pass(s).out = Append(s.out, s.heap[1])
        /\ Pass(s) \in [heap : Seq(Ev), out : Seq(Ev)]
    BY <2>3, <2>5, Zenon DEF IsHeap, Drained
  <2>7. Len(TakenOut(s.heap, 1)) = n - i
    BY <1>2, <2>1, <2>3
  <2> HIDE DEF Pass, n, S
  <2> QED
    BY <1>2, <2>3, <2>5, <2>6, <2>7, Zenon
<1>5. HeapInTurn(h) = g[n].out
  BY DEF HeapInTurn, Loop
<1>6. Y[n] = {s \in [heap : Seq(Ev), out : Seq(Ev)] :
                IsHeap(s.heap) /\ Len(s.heap) = n - n /\ Drained(S, Range(s.heap), s.out)}
  BY <1>2
<1>7. ASSUME NEW i \in 1..n, NEW x \in Y[i-1]
      PROVE  step[i][x] = Pass(x) /\ step[i][x] \in Y[i]
  BY <1>4, Zenon
<1> HIDE DEF Y, step, n, start, S, Pass
<1>8. \E f : IsRun(f, Y, start, step, n)
  BY <1>2, <1>3, <1>7, RunExists, Zenon
<1>9. PICK f : IsRun(f, Y, start, step, n)
  BY <1>8
<1>10. f = [i \in 0..n |-> IF i = 0 THEN start ELSE Pass(f[i-1])]
  <2>1. \A i \in 0..n : i = 0 \/ (i \in 1..n /\ f[i-1] \in Y[i-1])
    BY <1>2, <1>9, RunStates
  <2>2. \A i \in 0..n : i = 0 \/ step[i][f[i-1]] = Pass(f[i-1])
    BY <2>1, <1>7
  <2> QED
    BY <1>9, <2>2, Zenon DEF IsRun
<1>11. g = [i \in 0..n |-> IF i = 0 THEN start ELSE Pass(g[i-1])]
  BY <1>10, Zenon
<1> HIDE DEF g
<1>12. \A i \in 0..n : g[i] \in Y[i]
  <2> DEFINE T == {i \in 0..n : g[i] \in Y[i]}
  <2>1. 0 \in T
    BY <1>2, <1>3, <1>11
  <2>2. ASSUME NEW i \in 1..n, i-1 \in T PROVE i \in T
    <3>1. g[i-1] \in Y[i-1] /\ i \in 0..n /\ i # 0
      BY <2>2, <1>2
    <3>2. g[i] = Pass(g[i-1])
      BY <3>1, <1>11, Zenon
    <3> QED
      BY <3>1, <3>2, <1>4
  <2> HIDE DEF T
  <2>3. \A i \in 0..n : i \in T
    BY <1>2, <2>1, <2>2, UpTo
  <2> QED
    BY <2>3 DEF T
<1>13. g[n].heap \in Seq(Ev) /\ Len(g[n].heap) = 0 /\ Drained(S, Range(g[n].heap), g[n].out)
  BY <1>2, <1>6, <1>12
<1>14. g[n].heap = <<>>
  BY <1>13
<1>15. Drained(S, {}, g[n].out)
  BY <1>13, <1>14, EmptyIs
<1> QED
  BY <1>1, <1>5, <1>15, DrainEnd DEF S

(* Earliest, the first element of the std::map. *)
LEMMA EarliestIs ==
    ASSUME NEW S \in SUBSET Ev, S # {}
    PROVE  IsEarliest(Earliest(S), S)
<1>1. PICK e : IsEarliest(e, S)
  BY EarliestExists
<1>2. e \in S /\ \A f \in S : e = f \/ Before(e, f)
  BY <1>1 DEF IsEarliest
<1>3. Earliest(S) \in S /\ \A f \in S : Earliest(S) = f \/ Before(Earliest(S), f)
  BY <1>2, Zenon DEF Earliest
<1> QED
  BY <1>3 DEF IsEarliest

(* Calling RemoveNext until the map is empty returns every event once. *)
LEMMA MapInTurnIs ==
    ASSUME NEW S \in SUBSET Ev, IsFiniteSet(S)
    PROVE  /\ MapInTurn(S) \in Seq(Ev) /\ NoDup(MapInTurn(S)) /\ Range(MapInTurn(S)) = S
<1> DEFINE n == Cardinality(S)
           start == [map |-> S, out |-> <<>>]
           Pass(s) == [map |-> s.map \ {Earliest(s.map)}, out |-> Append(s.out, Earliest(s.map))]
           Y == [i \in 0..n |-> {s \in [map : SUBSET Ev, out : Seq(Ev)] :
                  IsFiniteSet(s.map) /\ Cardinality(s.map) = n - i /\ Drained(S, s.map, s.out)}]
           step == [i \in 1..n |-> [x \in Y[i-1] |-> Pass(x)]]
           g == CHOOSE g : g = [i \in 0..n |-> IF i = 0 THEN start ELSE Pass(g[i-1])]
<1>1. n \in Nat
  BY FS_CardinalityType
<1>2. n \in Nat /\ 0 \in 0..n /\ \A i \in 1..n : i-1 \in 0..n /\ i \in 0..n /\ i # 0
  BY <1>1
<1>3. start \in Y[0]
  <2>1. start \in [map : SUBSET Ev, out : Seq(Ev)] /\ start.map = S /\ start.out = <<>>
    BY EmptyIs
  <2>2. Drained(S, S, <<>>)
    BY DrainStart
  <2>3. Cardinality(S) = n - 0
    BY <1>1
  <2> HIDE DEF start, n
  <2> QED
    BY <1>2, <2>1, <2>2, <2>3
<1>4. ASSUME NEW i \in 1..n, NEW s \in Y[i-1] PROVE Pass(s) \in Y[i]
  <2> DEFINE e == Earliest(s.map)
  <2>1. /\ IsFiniteSet(s.map) /\ Cardinality(s.map) = n - (i-1) /\ Drained(S, s.map, s.out)
        /\ s.map \in SUBSET Ev
    BY <1>2
  <2>2. s.map # {}
    BY <1>2, <2>1, FS_EmptySet
  <2>3. e \in s.map
    BY <2>1, <2>2, EarliestIs DEF IsEarliest
  <2>4. IsFiniteSet(s.map \ {e}) /\ Cardinality(s.map \ {e}) = n - i
    <3> HIDE DEF n, e
    <3>1. /\ IsFiniteSet(s.map \ {e})
          /\ Cardinality(s.map \ {e}) = IF e \in s.map THEN Cardinality(s.map) - 1 ELSE Cardinality(s.map)
      BY <2>1, FS_RemoveElement, Zenon
    <3> QED
      BY <1>2, <2>1, <2>3, <3>1
  <2>5. Drained(S, s.map \ {e}, Append(s.out, e))
    BY <2>1, <2>3, DrainStep
  <2>6. /\ Pass(s).map = s.map \ {e} /\ Pass(s).out = Append(s.out, e)
        /\ Pass(s) \in [map : SUBSET Ev, out : Seq(Ev)]
    BY <2>1, <2>5, Zenon DEF Drained
  <2> HIDE DEF Pass, n, e
  <2> QED
    BY <1>2, <2>4, <2>5, <2>6, Zenon
<1>5. MapInTurn(S) = g[n].out
  BY DEF MapInTurn, Loop
<1>6. Y[n] = {s \in [map : SUBSET Ev, out : Seq(Ev)] :
                IsFiniteSet(s.map) /\ Cardinality(s.map) = n - n /\ Drained(S, s.map, s.out)}
  BY <1>2
<1>7. ASSUME NEW i \in 1..n, NEW x \in Y[i-1]
      PROVE  step[i][x] = Pass(x) /\ step[i][x] \in Y[i]
  BY <1>4, Zenon
<1> HIDE DEF Y, step, n, start, Pass
<1>8. \E f : IsRun(f, Y, start, step, n)
  BY <1>2, <1>3, <1>7, RunExists
<1>9. PICK f : IsRun(f, Y, start, step, n)
  BY <1>8
<1>10. f = [i \in 0..n |-> IF i = 0 THEN start ELSE Pass(f[i-1])]
  <2>1. \A i \in 0..n : i = 0 \/ (i \in 1..n /\ f[i-1] \in Y[i-1])
    BY <1>2, <1>9, RunStates
  <2>2. \A i \in 0..n : i = 0 \/ step[i][f[i-1]] = Pass(f[i-1])
    BY <2>1, <1>7
  <2> QED
    BY <1>9, <2>2, Zenon DEF IsRun
<1>11. g = [i \in 0..n |-> IF i = 0 THEN start ELSE Pass(g[i-1])]
  BY <1>10, Zenon
<1> HIDE DEF g
<1>12. \A i \in 0..n : g[i] \in Y[i]
  <2> DEFINE T == {i \in 0..n : g[i] \in Y[i]}
  <2>1. 0 \in T
    BY <1>2, <1>3, <1>11
  <2>2. ASSUME NEW i \in 1..n, i-1 \in T PROVE i \in T
    <3>1. g[i-1] \in Y[i-1] /\ i \in 0..n /\ i # 0
      BY <2>2, <1>2
    <3>2. g[i] = Pass(g[i-1])
      BY <3>1, <1>11, Zenon
    <3> QED
      BY <3>1, <3>2, <1>4
  <2> HIDE DEF T
  <2>3. \A i \in 0..n : i \in T
    BY <1>2, <2>1, <2>2, UpTo
  <2> QED
    BY <2>3 DEF T
<1>13. IsFiniteSet(g[n].map) /\ Cardinality(g[n].map) = 0 /\ Drained(S, g[n].map, g[n].out)
  BY <1>2, <1>6, <1>12
<1>14. g[n].map = {}
  BY <1>13, FS_EmptySet
<1>15. Drained(S, {}, g[n].out)
  BY <1>13, <1>14
<1> QED
  BY <1>5, <1>15, DrainEnd

-----------------------------------------------------------------------------
(* Days, years and buckets. *)

(* Division with remainder. *)
LEMMA DivMod ==
    ASSUME NEW a \in Nat, NEW n \in Nat \ {0}
    PROVE  /\ a \div n \in Nat /\ a % n \in Nat /\ a % n \in 0..n-1 /\ a % n < n
           /\ a = n * (a \div n) + (a % n)
OBVIOUS

(* The day of a later time is no earlier. *)
LEMMA DivMono ==
    ASSUME NEW a \in Nat, NEW b \in Nat, NEW n \in Nat \ {0}, a <= b
    PROVE  a \div n <= b \div n
<1>1. /\ a \div n \in Nat /\ a = n * (a \div n) + (a % n) /\ a % n \in Nat
      /\ b \div n \in Nat /\ b = n * (b \div n) + (b % n) /\ b % n \in Nat /\ b % n < n
  BY DivMod
<1> DEFINE p == a \div n
           q == b \div n
<1>2. SUFFICES ASSUME q < p PROVE FALSE
  BY <1>1
<1>3. p >= q + 1 /\ p \in Nat /\ q \in Nat
  BY <1>1, <1>2
<1>4. n * p >= n * (q + 1)
  <2> HIDE DEF p, q
  <2>1. p - (q + 1) \in Nat
    BY <1>3
  <2>2. n * (p - (q + 1)) \in Nat
    BY <2>1
  <2>3. n * p = n * (q + 1) + n * (p - (q + 1))
    BY <1>3
  <2>4. n * (q + 1) \in Nat
    BY <1>3
  <2> QED
    BY <2>2, <2>3, <2>4
<1>5. n * (q + 1) = n * q + n /\ n * p \in Nat /\ n * q \in Nat
  <2> HIDE DEF p, q
  <2> QED
    BY <1>3
<1> HIDE DEF p, q
<1>6. a = n * p + (a % n) /\ b = n * q + (b % n)
  BY <1>1 DEF p, q
<1> QED
  BY <1>1, <1>4, <1>5, <1>6

(* a is of a day up to k just when it is before the end of day k. *)
LEMMA DayEnd ==
    ASSUME NEW a \in Nat, NEW k \in Nat, NEW n \in Nat \ {0}
    PROVE  a < (k + 1) * n <=> a \div n <= k
<1>1. k * n \in Nat /\ (k + 1) * n \in Nat /\ (k + 1) * n = k * n + n
  OBVIOUS
<1>2. (k * n) \div n = k /\ ((k + 1) * n) \div n = k + 1
  OBVIOUS
<1>3. a >= (k + 1) * n => a \div n >= k + 1
  BY <1>1, <1>2, DivMono
<1>4. a \div n >= k + 1 => a >= (k + 1) * n
  <2> SUFFICES ASSUME a \div n >= k + 1 PROVE a >= (k + 1) * n
    OBVIOUS
  <2> DEFINE q == a \div n
  <2>1. q \in Nat /\ q >= k + 1 /\ a = n * q + (a % n) /\ a % n \in Nat
    BY DivMod
  <2> HIDE DEF q
  <2>2. q \in Nat /\ q - (k + 1) \in Nat /\ a = n * q + (a % n) /\ a % n \in Nat
    BY <2>1
  <2>3. n * q = (k + 1) * n + n * (q - (k + 1))
    BY <2>2
  <2>4. n * (q - (k + 1)) \in Nat
    BY <2>2
  <2> QED
    BY <1>1, <2>2, <2>3, <2>4
<1>5. a \div n \in Nat
  BY DivMod
<1> QED
  BY <1>1, <1>3, <1>4, <1>5

(* The remainder is unique. *)
LEMMA ModUnique ==
    ASSUME NEW n \in Nat \ {0}, NEW p \in Nat, NEW q \in Nat, NEW r \in 0..n-1, NEW s \in 0..n-1,
           n * p + r = n * q + s
    PROVE  p = q /\ r = s
<1>1. ASSUME NEW u \in Nat, NEW v \in Nat, NEW x \in 0..n-1, NEW y \in 0..n-1,
             n * u + x = n * v + y, u < v
      PROVE  FALSE
  <2>1. v - u - 1 \in Nat
    BY <1>1
  <2>2. n * (v - u - 1) \in Nat
    BY <2>1
  <2>3. n * v = n * u + n + n * (v - u - 1)
    BY <2>1
  <2>4. n * u \in Nat
    OBVIOUS
  <2> QED
    BY <1>1, <2>2, <2>3, <2>4
<1>2. ~(p < q) /\ ~(q < p)
  BY <1>1
<1>3. p = q
  BY <1>2
<1>4. n * p \in Nat
  OBVIOUS
<1> QED
  BY <1>3, <1>4

(* Adding before or after taking the remainder. *)
LEMMA ModAdd ==
    ASSUME NEW n \in Nat \ {0}, NEW a \in Nat, NEW k \in Nat
    PROVE  ((a % n) + k) % n = (a + k) % n
<1> DEFINE q == a \div n
           r == a % n
           m == (r + k) \div n
           t == (r + k) % n
           u == (a + k) \div n
           v == (a + k) % n
<1>1. q \in Nat /\ r \in Nat /\ a = n * q + r
  BY DivMod
<1>2. r + k \in Nat /\ a + k \in Nat
  BY <1>1
<1>3. m \in Nat /\ t \in 0..n-1 /\ r + k = n * m + t
  BY <1>2, DivMod, Zenon
<1>4. u \in Nat /\ v \in 0..n-1 /\ a + k = n * u + v
  BY <1>2, DivMod, Zenon
<1> HIDE DEF q, r, m, t, u, v
<1>5. n * (q + m) = n * q + n * m /\ n * q \in Nat /\ n * m \in Nat /\ n * u \in Nat
  BY <1>1, <1>3, <1>4
<1>6. n * (q + m) + t = n * u + v /\ q + m \in Nat
  BY <1>1, <1>3, <1>4, <1>5
<1>7. t = v
  <2> DEFINE z == q + m
  <2>1. z \in Nat /\ n * z + t = n * u + v
    BY <1>6
  <2> HIDE DEF z
  <2> QED
    BY <1>3, <1>4, <2>1, ModUnique
<1> QED
  BY <1>7 DEF t, v, r

(* Numbers less than n apart with the same remainder are equal. *)
LEMMA SameMod ==
    ASSUME NEW n \in Nat \ {0}, NEW a \in Nat, NEW b \in Nat, a <= b, b < a + n, a % n = b % n
    PROVE  a = b
<1> DEFINE p == a \div n
           q == b \div n
           r == a % n
<1>1. /\ p \in Nat /\ r \in 0..n-1 /\ a = n * p + r
      /\ q \in Nat /\ b = n * q + r
  BY DivMod, Zenon
<1> HIDE DEF p, q, r
<1>2. b - a \in 0..n-1
  OBVIOUS
<1>3. n * q = n * p + (b - a) /\ n * p \in Nat /\ n * q \in Nat
  BY <1>1
<1>4. n * q + 0 = n * p + (b - a) /\ 0 \in 0..n-1
  BY <1>3
<1>5. b - a = 0
  BY <1>1, <1>2, <1>4, ModUnique
<1> QED
  BY <1>5

-----------------------------------------------------------------------------
(* CalendarScheduler: the calendars, their buckets and where the scan is. *)

Positive == Nat \ {0}

BucketLists == UNION {[0..n-1 -> Seq(Ev)] : n \in Positive}

Calendars ==
    {c \in [buckets : BucketLists, nBuckets : Positive, width : Positive,
            lastPrio : Nat, lastBucket : Nat, bucketTop : Nat] :
       c.buckets \in [0..c.nBuckets-1 -> Seq(Ev)]}

(* Every bucket is in order and holds events of its days. *)
InBuckets(r, c) ==
    /\ c \in Calendars
    /\ \A b \in 0..c.nBuckets-1 : /\ Ordered(r, c.buckets[b])
                                  /\ \A e \in Range(c.buckets[b]) : Hash(c, e.ts) = b

ScanAt(c) ==
    /\ c.bucketTop = (c.lastPrio \div c.width + 1) * c.width
    /\ c.lastBucket = Hash(c, c.lastPrio)

NotBehind(c) == \A e \in CalendarEvents(c) : c.lastPrio <= e.ts

(* Two calendars of the same shape. *)
SameDays(c, d) == c.nBuckets = d.nBuckets /\ c.width = d.width
SameScan(c, d) ==
    c.lastPrio = d.lastPrio /\ c.lastBucket = d.lastBucket /\ c.bucketTop = d.bucketTop

(* The members of a calendar. *)
LEMMA CalendarIs ==
    ASSUME NEW c \in Calendars
    PROVE  /\ c.nBuckets \in Positive /\ c.width \in Positive /\ c.lastPrio \in Nat
           /\ c.lastBucket \in Nat /\ c.bucketTop \in Nat
           /\ c.nBuckets \in Nat /\ c.width \in Nat /\ c.nBuckets >= 1 /\ c.width >= 1
           /\ c.buckets \in [0..c.nBuckets-1 -> Seq(Ev)]
           /\ \A b \in 0..c.nBuckets-1 : c.buckets[b] \in Seq(Ev)
BY DEF Calendars, Positive

(* The events of a calendar are those of its buckets. *)
LEMMA EventsIs ==
    ASSUME NEW c \in Calendars
    PROVE  /\ CalendarEvents(c) \in SUBSET Ev
           /\ \A b \in 0..c.nBuckets-1 : Range(c.buckets[b]) \subseteq CalendarEvents(c)
           /\ \A e \in CalendarEvents(c) : \E b \in 0..c.nBuckets-1 : e \in Range(c.buckets[b])
<1>1. \A b \in 0..c.nBuckets-1 : c.buckets[b] \in Seq(Ev)
  BY CalendarIs
<1>2. \A b \in 0..c.nBuckets-1 : Range(c.buckets[b]) \in SUBSET Ev
  BY <1>1, RangeIs
<1> QED
  BY <1>2 DEF CalendarEvents

(* Hash is the index of a bucket. *)
LEMMA HashIs ==
    ASSUME NEW c \in Calendars, NEW t \in Nat
    PROVE  /\ Hash(c, t) \in 0..c.nBuckets-1 /\ Hash(c, t) = (t \div c.width) % c.nBuckets
           /\ t \div c.width \in Nat
<1>1. c.width \in Nat \ {0} /\ c.nBuckets \in Nat \ {0}
  BY CalendarIs DEF Positive
<1>2. t \div c.width \in Nat
  BY <1>1, DivMod
<1> QED
  BY <1>1, <1>2, DivMod, Zenon DEF Hash

(* An event is in the bucket of its day. *)
LEMMA InItsBucket ==
    ASSUME NEW r, NEW c, InBuckets(r, c), NEW e \in CalendarEvents(c)
    PROVE  /\ e \in Ev /\ e.ts \in Nat /\ Hash(c, e.ts) \in 0..c.nBuckets-1
           /\ e \in Range(c.buckets[Hash(c, e.ts)])
<1>1. c \in Calendars
  BY DEF InBuckets
<1>2. PICK b \in 0..c.nBuckets-1 : e \in Range(c.buckets[b])
  BY <1>1, EventsIs
<1>3. Hash(c, e.ts) = b
  BY <1>2 DEF InBuckets
<1>4. e \in Ev
  BY <1>1, EventsIs
<1> QED
  BY <1>2, <1>3, <1>4 DEF Ev

(* The event at the end SetReverse chose is the earliest of a bucket. *)
LEMMA NextEventIs ==
    ASSUME NEW s \in Seq(Ev), Ordered(m_reverse, s), s # <<>>
    PROVE  /\ IsEarliest(NextEvent(s), Range(s))
           /\ Pop(s) \in Seq(Ev) /\ Ordered(m_reverse, Pop(s))
           /\ Range(Pop(s)) = Range(s) \ {NextEvent(s)}
<1>1. /\ Len(s) \in 1..Len(s) /\ 1 \in 1..Len(s)
      /\ m_reverse => IsEarliest(s[Len(s)], Range(s))
      /\ ~m_reverse => IsEarliest(s[1], Range(s))
  BY EndIsEarliest
<1>2. CASE m_reverse
  <2>1. NextEvent(s) = s[Len(s)] /\ Pop(s) = RemoveAt(s, Len(s))
    BY <1>2 DEF NextEvent, Pop
  <2>2. /\ RemoveAt(s, Len(s)) \in Seq(Ev) /\ Ordered(m_reverse, RemoveAt(s, Len(s)))
        /\ Range(RemoveAt(s, Len(s))) = Range(s) \ {s[Len(s)]}
    BY <1>1, RemoveInOrder, Zenon
  <2> QED
    BY <1>1, <1>2, <2>1, <2>2, Zenon
<1>3. CASE ~m_reverse
  <2>1. NextEvent(s) = s[1] /\ Pop(s) = RemoveAt(s, 1)
    BY <1>3 DEF NextEvent, Pop
  <2>2. /\ RemoveAt(s, 1) \in Seq(Ev) /\ Ordered(m_reverse, RemoveAt(s, 1))
        /\ Range(RemoveAt(s, 1)) = Range(s) \ {s[1]}
    BY <1>1, RemoveInOrder, Zenon
  <2> QED
    BY <1>1, <1>3, <2>1, <2>2
<1> QED
  BY <1>2, <1>3

(* In d bucket b of c is replaced by s. *)
IsChange(r, c, b, s, d) ==
    /\ InBuckets(r, c) /\ b \in 0..c.nBuckets-1
    /\ s \in Seq(Ev) /\ Ordered(r, s) /\ \A e \in Range(s) : Hash(c, e.ts) = b
    /\ d.nBuckets = c.nBuckets /\ d.width = c.width /\ d \in Calendars
    /\ d.buckets = [c.buckets EXCEPT ![b] = s]

Exchanged(c, b, s, d) ==
    CalendarEvents(d) = (CalendarEvents(c) \ Range(c.buckets[b])) \union Range(s)

(* A calendar in which one bucket changed. *)
LEMMA BucketChanged ==
    ASSUME NEW r, NEW c, NEW b, NEW s, NEW d, IsChange(r, c, b, s, d)
    PROVE  InBuckets(r, d) /\ Exchanged(c, b, s, d)
<1> USE DEF IsChange
<1>1. c \in Calendars /\ c.buckets \in [0..c.nBuckets-1 -> Seq(Ev)]
  BY CalendarIs, Zenon DEF InBuckets
<1>2. d.buckets[b] = s /\ \A a \in 0..c.nBuckets-1 : a # b => d.buckets[a] = c.buckets[a]
  BY <1>1, Zenon
<1>3. \A t : Hash(d, t) = Hash(c, t)
  BY DEF Hash
<1>4. InBuckets(r, d)
  BY <1>2, <1>3, Zenon DEF InBuckets
<1>5. ASSUME NEW e \in CalendarEvents(d)
      PROVE  e \in (CalendarEvents(c) \ Range(c.buckets[b])) \union Range(s)
  <2>1. PICK a \in 0..d.nBuckets-1 : e \in Range(d.buckets[a])
    BY EventsIs, Zenon
  <2>2. CASE a = b
    BY <1>2, <2>1, <2>2
  <2>3. CASE a # b
    <3>1. e \in Range(c.buckets[a]) /\ a \in 0..c.nBuckets-1
      BY <1>2, <2>1, <2>3
    <3>2. Hash(c, e.ts) = a /\ e \in CalendarEvents(c)
      BY <1>1, <3>1, EventsIs, Zenon DEF InBuckets
    <3>3. e \notin Range(c.buckets[b])
      BY <3>2, <2>3 DEF InBuckets
    <3> QED
      BY <3>2, <3>3, Zenon
  <2> QED
    BY <2>2, <2>3, Zenon
<1>6. ASSUME NEW e \in Range(s) PROVE e \in CalendarEvents(d)
  BY <1>2, <1>6, EventsIs, Zenon
<1>7. ASSUME NEW e \in CalendarEvents(c), e \notin Range(c.buckets[b]) PROVE e \in CalendarEvents(d)
  <2>1. PICK a \in 0..c.nBuckets-1 : e \in Range(c.buckets[a])
    BY <1>1, EventsIs, Zenon
  <2>2. a # b /\ e \in Range(d.buckets[a])
    BY <1>2, <1>7, <2>1, Zenon
  <2> QED
    BY <2>1, <2>2, EventsIs, Zenon
<1> QED
  BY <1>4, <1>5, <1>6, <1>7, Zenon DEF Exchanged

(* DoInsert adds one event, and changes nothing else. *)
LEMMA DoInsertIs ==
    ASSUME NEW c, InBuckets(m_reverse, c), NEW e \in Ev, e \notin CalendarEvents(c)
    PROVE  /\ InBuckets(m_reverse, DoInsert(c, e))
           /\ CalendarEvents(DoInsert(c, e)) = CalendarEvents(c) \union {e}
           /\ SameDays(c, DoInsert(c, e)) /\ SameScan(c, DoInsert(c, e))
<1> DEFINE b == Hash(c, e.ts)
           s == c.buckets[b]
           later == {i \in 1..Len(s) : Order(e, s[i])}
           place == Min(later \union {Len(s) + 1})
           t == InsertAt(s, place, e)
           d == [c EXCEPT !.buckets = [c.buckets EXCEPT ![b] = t]]
<1>1. c \in Calendars /\ c.buckets \in [0..c.nBuckets-1 -> Seq(Ev)]
  BY CalendarIs, Zenon DEF InBuckets
<1>2. e.ts \in Nat /\ b \in 0..c.nBuckets-1
  BY <1>1, HashIs, Zenon DEF Ev
<1>3. s \in Seq(Ev) /\ Ordered(m_reverse, s) /\ Range(s) \subseteq CalendarEvents(c)
  BY <1>1, <1>2, EventsIs, Zenon DEF InBuckets
<1>4. DoInsert(c, e) = d
  BY DEF DoInsert
<1> HIDE DEF s
<1>5. place \in later \union {Len(s) + 1} /\ \A i \in later : place <= i
  <2> DEFINE P == later \union {Len(s) + 1}
  <2>1. P \in SUBSET Nat /\ P # {}
    BY <1>3
  <2>2. Min(P) \in P /\ \A i \in P : Min(P) <= i
    <3> HIDE DEF P
    <3> QED
      BY <2>1, MinNat
  <2> QED
    BY <2>2
<1>6. place \in 1..Len(s)+1 /\ (place <= Len(s) => Precedes(m_reverse, e, s[place]))
  BY <1>3, <1>5, SMTT(60) DEF Order, Precedes
<1>7. ASSUME NEW j \in 1..place-1 PROVE ~Precedes(m_reverse, e, s[j])
  <2> HIDE DEF place
  <2>1. j \in 1..Len(s) /\ ~(place <= j)
    BY <1>3, <1>6
  <2>2. j \notin later
    BY <1>5, <2>1
  <2> QED
    BY <2>1, <2>2 DEF Order, Precedes
<1> HIDE DEF place
<1>8. t \in Seq(Ev) /\ Ordered(m_reverse, t) /\ Range(t) = Range(s) \union {e}
  BY <1>3, <1>6, <1>7, InsertInOrder
<1> HIDE DEF t
<1>9. /\ d.nBuckets = c.nBuckets /\ d.width = c.width /\ d.lastPrio = c.lastPrio
      /\ d.lastBucket = c.lastBucket /\ d.bucketTop = c.bucketTop
      /\ d.buckets = [c.buckets EXCEPT ![b] = t]
  BY <1>1 DEF Calendars
<1>10. d \in Calendars
  <2>1. [c.buckets EXCEPT ![b] = t] \in [0..c.nBuckets-1 -> Seq(Ev)]
    BY <1>1, <1>2, <1>8, Zenon
  <2>2. [c.buckets EXCEPT ![b] = t] \in BucketLists
    BY <1>1, <2>1, CalendarIs, Zenon DEF BucketLists
  <2> HIDE DEF b
  <2> QED
    BY <1>1, <1>9, <2>1, <2>2, Zenon DEF Calendars
<1>11. \A f \in Range(t) : Hash(c, f.ts) = b
  BY <1>2, <1>8 DEF InBuckets, s
<1> HIDE DEF b, d
<1>12. InBuckets(m_reverse, d) /\ Exchanged(c, b, t, d)
  <2>1. IsChange(m_reverse, c, b, t, d)
    BY <1>2, <1>8, <1>9, <1>10, <1>11, Zenon DEF IsChange
  <2> QED
    BY <2>1, BucketChanged, Zenon
<1>13. CalendarEvents(d) = CalendarEvents(c) \union {e}
  BY <1>3, <1>8, <1>12 DEF s, Exchanged
<1> QED
  BY <1>4, <1>9, <1>12, <1>13, Zenon DEF SameDays, SameScan

(* The scan of PeekNext: visit k is of the day that is k days after that of *)
(* lastPrio.                                                                *)
LEMMA VisitIs ==
    ASSUME NEW c \in Calendars, ScanAt(c), NEW k \in Nat
    PROVE  /\ Visited(c, k) = (c.lastPrio \div c.width + k) % c.nBuckets
           /\ Visited(c, k) \in 0..c.nBuckets-1
           /\ TopAt(c, k) = (c.lastPrio \div c.width + k + 1) * c.width
           /\ c.lastPrio \div c.width \in Nat
<1> DEFINE w == c.width
           n == c.nBuckets
           D == c.lastPrio \div w
<1>1. w \in Nat \ {0} /\ n \in Nat \ {0} /\ c.lastPrio \in Nat
  BY CalendarIs DEF Positive
<1>2. D \in Nat
  BY <1>1, DivMod
<1>3. c.lastBucket = D % n /\ c.bucketTop = (D + 1) * w
  BY DEF ScanAt, Hash
<1>4. Visited(c, k) = ((D % n) + k) % n /\ TopAt(c, k) = (D + 1) * w + k * w
  BY <1>3 DEF Visited, TopAt
<1> HIDE DEF D, w, n
<1>5. ((D % n) + k) % n = (D + k) % n
  BY <1>1, <1>2, ModAdd, Zenon
<1>6. (D + k) % n \in 0..n-1
  <2>1. D + k \in Nat
    BY <1>2
  <2> QED
    BY <1>1, <2>1, DivMod
<1>7. (D + 1) * w + k * w = (D + k + 1) * w
  BY <1>1, <1>2
<1> QED
  BY <1>2, <1>4, <1>5, <1>6, <1>7 DEF D, w, n

(* A visit finds a due event just when there is one of its day. *)
LEMMA DueIs ==
    ASSUME NEW c, InBuckets(m_reverse, c), ScanAt(c), NotBehind(c),
           NEW k \in 0..c.nBuckets-1
    PROVE  /\ Due(c, k) => /\ c.buckets[Visited(c, k)] # <<>>
                           /\ NextEvent(c.buckets[Visited(c, k)]) \in CalendarEvents(c)
                           /\ NextEvent(c.buckets[Visited(c, k)]).ts \div c.width
                                = c.lastPrio \div c.width + k
           /\ \A f \in CalendarEvents(c) : f.ts \div c.width = c.lastPrio \div c.width + k
                                             => Due(c, k) /\ f \in Range(c.buckets[Visited(c, k)])
<1> DEFINE w == c.width
           n == c.nBuckets
           D == c.lastPrio \div w
           v == Visited(c, k)
           s == c.buckets[v]
           x == NextEvent(s)
<1>1. c \in Calendars /\ w \in Nat \ {0} /\ n \in Nat \ {0} /\ c.lastPrio \in Nat /\ k \in Nat
  BY CalendarIs, SMTT(60) DEF InBuckets, Positive
<1>2. /\ v = (D + k) % n /\ v \in 0..n-1 /\ TopAt(c, k) = (D + k + 1) * w /\ D \in Nat
  BY <1>1, VisitIs
<1>3. s \in Seq(Ev) /\ Ordered(m_reverse, s) /\ Range(s) \subseteq CalendarEvents(c)
  BY <1>1, <1>2, CalendarIs, EventsIs, Zenon DEF InBuckets
<1>4. s # <<>> => IsEarliest(x, Range(s))
  BY <1>3, NextEventIs, Zenon
<1>5. Due(c, k) <=> s # <<>> /\ x.ts < TopAt(c, k)
  BY Zenon DEF Due
<1>6. ASSUME NEW f \in CalendarEvents(c)
      PROVE  /\ f.ts \in Nat /\ f.ts \div w \in Nat /\ D <= f.ts \div w
             /\ f.ts < (D + k + 1) * w <=> f.ts \div w <= D + k
  <2>1. f.ts \in Nat /\ c.lastPrio <= f.ts
    BY InItsBucket, Zenon DEF NotBehind
  <2>2. D + k \in Nat
    BY <1>1, <1>2
  <2> HIDE DEF w
  <2> QED
    BY <1>1, <2>1, <2>2, DivMod, DivMono, DayEnd, Zenon
<1> HIDE DEF s, x, v, D, w, n
<1>7. ASSUME Due(c, k) PROVE s # <<>> /\ x \in CalendarEvents(c) /\ x.ts \div w = D + k
  <2>1. s # <<>> /\ x \in Range(s) /\ x \in CalendarEvents(c) /\ x.ts < (D + k + 1) * w
    BY <1>2, <1>3, <1>4, <1>5, <1>7 DEF IsEarliest
  <2>2. x.ts \in Nat /\ x.ts \div w \in Nat /\ D <= x.ts \div w /\ x.ts \div w <= D + k
    BY <1>6, <2>1
  <2>3. (x.ts \div w) % n = v
    BY <1>2, <2>1, Zenon DEF InBuckets, Hash, s, w, n
  <2> DEFINE a == x.ts \div w
             b == D + k
  <2>4. a \in Nat /\ b \in Nat /\ a <= b /\ b < a + n /\ a % n = b % n
    <3>1. k < n /\ k \in Nat /\ n \in Nat
      BY <1>1 DEF n
    <3> QED
      BY <1>1, <1>2, <2>2, <2>3, <3>1
  <2> HIDE DEF a, b
  <2>5. a = b
    BY <1>1, <2>4, SameMod, Zenon
  <2> QED
    BY <2>1, <2>5 DEF a, b
<1>8. ASSUME NEW f \in CalendarEvents(c), f.ts \div w = D + k
      PROVE  Due(c, k) /\ f \in Range(s)
  <2>1. f \in Ev /\ f \in Range(c.buckets[Hash(c, f.ts)]) /\ Hash(c, f.ts) = v
    BY <1>2, <1>8, InItsBucket, Zenon DEF Hash, w, n
  <2>2. f \in Range(s)
    BY <2>1 DEF s
  <2>3. s # <<>>
    BY <2>2, EmptyIs
  <2>4. IsEarliest(x, Range(s)) /\ x \in Ev /\ x \in CalendarEvents(c)
    BY <1>1, <1>3, <1>4, <2>3, EventsIs, Zenon DEF IsEarliest
  <2>5. x.ts <= f.ts
    BY <2>1, <2>2, <2>4, BeforeOrder DEF IsEarliest
  <2>6. x.ts \in Nat /\ f.ts \in Nat /\ x.ts \div w <= f.ts \div w
    BY <1>1, <1>6, <1>8, <2>4, <2>5, DivMono
  <2>7. x.ts < (D + k + 1) * w
    BY <1>6, <1>8, <2>4, <2>6
  <2> QED
    BY <1>2, <1>5, <2>2, <2>3, <2>7
<1> QED
  BY <1>7, <1>8, Zenon DEF s, x, v, D, w, n

(* The bucket PeekNext takes its event from. *)
PeekBucket(c) ==
    IF DueVisits(c) # {} THEN Visited(c, Min(DueVisits(c))) ELSE EarliestBucket(c)

(* The first due event that a visit finds is the earliest of all. *)
LEMMA PeekDue ==
    ASSUME NEW c, InBuckets(m_reverse, c), ScanAt(c), NotBehind(c), DueVisits(c) # {}
    PROVE  /\ PeekBucket(c) \in 0..c.nBuckets-1 /\ c.buckets[PeekBucket(c)] # <<>>
           /\ PeekNext(c) = NextEvent(c.buckets[PeekBucket(c)])
           /\ IsEarliest(PeekNext(c), CalendarEvents(c))
           /\ TopAt(c, Min(DueVisits(c))) = (PeekNext(c).ts \div c.width + 1) * c.width
<1> DEFINE k == Min(DueVisits(c))
           w == c.width
           D == c.lastPrio \div w
           v == Visited(c, k)
           x == NextEvent(c.buckets[v])
<1>1. c \in Calendars /\ w \in Nat \ {0} /\ c.nBuckets \in Nat
  BY CalendarIs, Zenon DEF InBuckets, Positive
<1>2. k \in DueVisits(c) /\ \A m \in DueVisits(c) : k <= m
  <2>1. DueVisits(c) \in SUBSET Nat
    BY DEF DueVisits
  <2> QED
    BY <2>1, MinNat
<1>3. k \in 0..c.nBuckets-1 /\ k \in Nat /\ Due(c, k)
  BY <1>1, <1>2 DEF DueVisits
<1>4. PeekBucket(c) = v /\ PeekNext(c) = x
  BY DEF PeekBucket, PeekNext
<1> HIDE DEF k
<1>5. v \in 0..c.nBuckets-1 /\ TopAt(c, k) = (D + k + 1) * w /\ D \in Nat
  BY <1>1, <1>3, VisitIs
<1>6. c.buckets[v] # <<>> /\ x \in CalendarEvents(c) /\ x.ts \div w = D + k
  BY <1>3, DueIs, Zenon
<1>7. IsEarliest(x, Range(c.buckets[v]))
  BY <1>1, <1>5, <1>6, CalendarIs, NextEventIs, Zenon DEF InBuckets
<1> HIDE DEF x, v, D, w
<1>8. ASSUME NEW f \in CalendarEvents(c) PROVE f = x \/ Before(x, f)
  <2> DEFINE m == (f.ts \div w) - D
  <2>1. f \in Ev /\ f.ts \in Nat /\ c.lastPrio <= f.ts /\ x \in Ev /\ x.ts \in Nat
    BY <1>6, InItsBucket, Zenon DEF NotBehind
  <2>2. f.ts \div w \in Nat /\ D <= f.ts \div w
    <3>1. c.lastPrio \in Nat
      BY <1>1, CalendarIs
    <3> QED
      BY <1>1, <2>1, <3>1, DivMod, DivMono DEF D
  <2>3. CASE f.ts \div w < D + k
    <3>1. m \in 0..c.nBuckets-1 /\ m < k /\ f.ts \div w = D + m
      BY <1>1, <1>3, <1>5, <2>2, <2>3
    <3> HIDE DEF m
    <3>2. Due(c, m)
      BY <3>1, DueIs, Zenon DEF D, w
    <3>3. m \in DueVisits(c) /\ ~(k <= m)
      BY <1>1, <1>3, <3>1, <3>2 DEF DueVisits
    <3> QED
      BY <1>2, <3>3
  <2>4. CASE f.ts \div w = D + k
    <3>1. f \in Range(c.buckets[v])
      BY <1>3, <2>4, DueIs, Zenon DEF D, w, v
    <3> QED
      BY <1>7, <3>1 DEF IsEarliest
  <2>5. CASE f.ts \div w > D + k
    <3>1. ~(f.ts <= x.ts)
      <4>1. ~(f.ts \div w <= x.ts \div w)
        BY <1>3, <1>5, <1>6, <2>2, <2>5
      <4> QED
        BY <1>1, <2>1, <4>1, DivMono
    <3>2. x.ts < f.ts
      BY <2>1, <3>1
    <3> QED
      BY <2>1, <3>2, BeforeOrder
  <2> QED
    BY <1>3, <1>5, <2>2, <2>3, <2>4, <2>5
<1>9. IsEarliest(x, CalendarEvents(c))
  BY <1>6, <1>8, Zenon DEF IsEarliest
<1> QED
  BY <1>4, <1>5, <1>6, <1>9, Zenon DEF x, v, D, w, k

(* After a year without one, the earliest of the first events is. *)
LEMMA PeekYear ==
    ASSUME NEW c, InBuckets(m_reverse, c), CalendarEvents(c) # {}, DueVisits(c) = {}
    PROVE  /\ PeekBucket(c) \in 0..c.nBuckets-1 /\ c.buckets[PeekBucket(c)] # <<>>
           /\ PeekNext(c) = NextEvent(c.buckets[PeekBucket(c)])
           /\ IsEarliest(PeekNext(c), CalendarEvents(c))
<1> DEFINE n == c.nBuckets
           First(i) == /\ c.buckets[i] # <<>>
                       /\ \A j \in 0..n-1 :
                            \/ c.buckets[j] = <<>>
                            \/ ~Before(NextEvent(c.buckets[j]), NextEvent(c.buckets[i]))
           b == CHOOSE i \in 0..n-1 : First(i)
<1>1. c \in Calendars /\ CalendarEvents(c) \in SUBSET Ev
  BY EventsIs, Zenon DEF InBuckets
<1>2. ASSUME NEW j \in 0..n-1, c.buckets[j] # <<>>
      PROVE  /\ IsEarliest(NextEvent(c.buckets[j]), Range(c.buckets[j]))
             /\ NextEvent(c.buckets[j]) \in CalendarEvents(c) /\ NextEvent(c.buckets[j]) \in Ev
  <2>1. c.buckets[j] \in Seq(Ev) /\ Ordered(m_reverse, c.buckets[j])
    BY <1>1, CalendarIs, Zenon DEF InBuckets
  <2>2. IsEarliest(NextEvent(c.buckets[j]), Range(c.buckets[j]))
    BY <1>2, <2>1, NextEventIs, Zenon
  <2>3. NextEvent(c.buckets[j]) \in CalendarEvents(c)
    BY <1>1, <2>2, EventsIs, Zenon DEF IsEarliest
  <2> QED
    BY <1>1, <2>2, <2>3, Zenon
<1>3. \E i \in 0..n-1 : First(i)
  <2>1. PICK e : IsEarliest(e, CalendarEvents(c))
    BY <1>1, EarliestExists
  <2>2. e \in CalendarEvents(c) /\ e \in Ev
    BY <1>1, <2>1 DEF IsEarliest
  <2>3. PICK i \in 0..n-1 : e \in Range(c.buckets[i])
    BY <1>1, <2>2, EventsIs, Zenon
  <2>4. c.buckets[i] # <<>>
    BY <2>3, EmptyIs
  <2>5. NextEvent(c.buckets[i]) = e
    BY <1>2, <2>1, <2>2, <2>3, <2>4, BeforeOrder, Zenon DEF IsEarliest
  <2>6. \A j \in 0..n-1 : c.buckets[j] = <<>> \/ ~Before(NextEvent(c.buckets[j]), e)
    <3> SUFFICES ASSUME NEW j \in 0..n-1, c.buckets[j] # <<>>
                 PROVE  ~Before(NextEvent(c.buckets[j]), e)
      OBVIOUS
    <3> DEFINE f == NextEvent(c.buckets[j])
    <3>1. f \in Ev /\ (f = e \/ Before(e, f))
      BY <1>2, <2>1, Zenon DEF IsEarliest
    <3> HIDE DEF f
    <3>2. ~Before(f, e)
      BY <2>2, <3>1, BeforeOrder, Zenon
    <3> QED
      BY <3>2 DEF f
  <2> QED
    BY <2>4, <2>5, <2>6, Zenon
<1>4. b \in 0..n-1 /\ First(b)
  <2> HIDE DEF First
  <2> QED
    BY <1>3, Zenon
<1>5. PeekBucket(c) = b /\ PeekNext(c) = NextEvent(c.buckets[b])
  BY Zenon DEF PeekBucket, PeekNext, EarliestBucket
<1> HIDE DEF b
<1>6. ASSUME NEW f \in CalendarEvents(c)
      PROVE  f = NextEvent(c.buckets[b]) \/ Before(NextEvent(c.buckets[b]), f)
  <2>1. PICK j \in 0..n-1 : f \in Range(c.buckets[j])
    BY <1>1, EventsIs, Zenon
  <2>2. c.buckets[j] # <<>>
    BY <2>1, EmptyIs, Zenon
  <2> DEFINE y == NextEvent(c.buckets[j])
             x == NextEvent(c.buckets[b])
  <2>3. y \in Ev /\ x \in Ev /\ f \in Ev /\ (f = y \/ Before(y, f)) /\ ~Before(y, x)
    BY <1>1, <1>2, <1>4, <2>1, <2>2, Zenon DEF IsEarliest
  <2> HIDE DEF y, x
  <2>4. f = x \/ Before(x, f)
    BY <2>3, BeforeOrder
  <2> QED
    BY <2>4 DEF x
<1> QED
  BY <1>2, <1>4, <1>5, <1>6, Zenon DEF IsEarliest

(* A calendar in a good state, with its events and their number. *)
InOrder(r, c) == InBuckets(r, c) /\ ScanAt(c) /\ NotBehind(c)

(* PeekNext returns the earliest event. *)
LEMMA PeekNextIs ==
    ASSUME NEW c, InOrder(m_reverse, c), CalendarEvents(c) # {}
    PROVE  /\ PeekBucket(c) \in 0..c.nBuckets-1 /\ c.buckets[PeekBucket(c)] # <<>>
           /\ PeekNext(c) = NextEvent(c.buckets[PeekBucket(c)])
           /\ IsEarliest(PeekNext(c), CalendarEvents(c))
           /\ PeekBucket(c) = Hash(c, PeekNext(c).ts)
           /\ DueVisits(c) # {} =>
                TopAt(c, Min(DueVisits(c))) = (PeekNext(c).ts \div c.width + 1) * c.width
<1> USE DEF InOrder
<1>1. /\ PeekBucket(c) \in 0..c.nBuckets-1 /\ c.buckets[PeekBucket(c)] # <<>>
      /\ PeekNext(c) = NextEvent(c.buckets[PeekBucket(c)])
      /\ IsEarliest(PeekNext(c), CalendarEvents(c))
  BY PeekDue, PeekYear, Zenon
<1>2. PeekNext(c) \in Range(c.buckets[PeekBucket(c)])
  <2>1. c.buckets[PeekBucket(c)] \in Seq(Ev) /\ Ordered(m_reverse, c.buckets[PeekBucket(c)])
    BY <1>1, CalendarIs, Zenon DEF InBuckets
  <2> QED
    BY <1>1, <2>1, NextEventIs, Zenon DEF IsEarliest
<1>3. PeekBucket(c) = Hash(c, PeekNext(c).ts)
  BY <1>1, <1>2, Zenon DEF InBuckets
<1> QED
  BY <1>1, <1>3, PeekDue, Zenon

(* DoRemoveNext takes it out, and the scan goes on from its day. *)
LEMMA DoRemoveNextIs ==
    ASSUME NEW c, InOrder(m_reverse, c), CalendarEvents(c) # {}
    PROVE  /\ InOrder(m_reverse, DoRemoveNext(c))
           /\ CalendarEvents(DoRemoveNext(c)) = CalendarEvents(c) \ {PeekNext(c)}
           /\ SameDays(c, DoRemoveNext(c)) /\ DoRemoveNext(c).lastPrio = PeekNext(c).ts
<1> DEFINE x == PeekNext(c)
           ts == x.ts
           b == PeekBucket(c)
           s == c.buckets[b]
           d == [c EXCEPT !.lastPrio = ts, !.lastBucket = Hash(c, ts),
                          !.bucketTop = (ts \div c.width + 1) * c.width,
                          !.buckets = [c.buckets EXCEPT ![b] = Pop(s)]]
<1>1. /\ b \in 0..c.nBuckets-1 /\ s # <<>> /\ x = NextEvent(s) /\ IsEarliest(x, CalendarEvents(c))
      /\ b = Hash(c, ts)
      /\ DueVisits(c) # {} => TopAt(c, Min(DueVisits(c))) = (ts \div c.width + 1) * c.width
  BY PeekNextIs, Zenon
<1>2. /\ c \in Calendars /\ InBuckets(m_reverse, c) /\ s \in Seq(Ev) /\ Ordered(m_reverse, s)
      /\ c.buckets \in [0..c.nBuckets-1 -> Seq(Ev)]
  BY <1>1, CalendarIs, Zenon DEF InOrder, InBuckets
<1>3. DoRemoveNext(c) = d
  <2>1. CASE DueVisits(c) # {}
    <3>1. b = Visited(c, Min(DueVisits(c)))
      BY <2>1 DEF PeekBucket
    <3> QED
      BY <1>1, <2>1, <3>1, Zenon DEF DoRemoveNext
  <2>2. CASE DueVisits(c) = {}
    <3>1. b = EarliestBucket(c)
      BY <2>2 DEF PeekBucket
    <3> QED
      BY <2>2, <3>1 DEF DoRemoveNext
  <2> QED
    BY <2>1, <2>2
<1>4. /\ Pop(s) \in Seq(Ev) /\ Ordered(m_reverse, Pop(s)) /\ Range(Pop(s)) = Range(s) \ {x}
  BY <1>1, <1>2, NextEventIs, Zenon
<1>5. x \in CalendarEvents(c) /\ ts \in Nat /\ \A f \in CalendarEvents(c) : f = x \/ Before(x, f)
  BY <1>1, <1>2, InItsBucket, Zenon DEF IsEarliest
<1>6. Hash(c, ts) \in Nat /\ (ts \div c.width + 1) * c.width \in Nat
  <2>1. Hash(c, ts) \in 0..c.nBuckets-1 /\ ts \div c.width \in Nat /\ c.width \in Nat
    BY <1>2, <1>5, HashIs, CalendarIs, Zenon
  <2> QED
    BY <2>1
<1> HIDE DEF s, b, x
<1> DEFINE B == [c.buckets EXCEPT ![b] = Pop(s)]
           h == Hash(c, ts)
           top == (ts \div c.width + 1) * c.width
<1>7. B \in [0..c.nBuckets-1 -> Seq(Ev)] /\ B \in BucketLists
  <2>1. B \in [0..c.nBuckets-1 -> Seq(Ev)]
    BY <1>1, <1>2, <1>4, Zenon
  <2> HIDE DEF B
  <2> QED
    BY <1>2, <2>1, CalendarIs, Zenon DEF BucketLists
<1>8. d = [c EXCEPT !.lastPrio = ts, !.lastBucket = h, !.bucketTop = top, !.buckets = B]
  OBVIOUS
<1>9. h \in Nat /\ top \in Nat
  BY <1>6
<1> HIDE DEF d, h, top, B, ts
<1>10. /\ d.nBuckets = c.nBuckets /\ d.width = c.width /\ d.lastPrio = ts /\ d.lastBucket = h
       /\ d.bucketTop = top /\ d.buckets = B /\ d \in Calendars
  BY <1>2, <1>5, <1>7, <1>8, <1>9, Zenon DEF Calendars
<1>11. \A f \in Range(Pop(s)) : Hash(c, f.ts) = b
  BY <1>1, <1>2, <1>4, Zenon DEF InBuckets, s
<1>12. InBuckets(m_reverse, d) /\ Exchanged(c, b, Pop(s), d)
  <2>1. IsChange(m_reverse, c, b, Pop(s), d)
    BY <1>1, <1>2, <1>4, <1>10, <1>11, Zenon DEF IsChange, B
  <2> QED
    BY <2>1, BucketChanged, Zenon
<1>13. CalendarEvents(d) = CalendarEvents(c) \ {x}
  <2>1. Range(s) \subseteq CalendarEvents(c) /\ x \in Range(s)
    <3>1. Range(s) \subseteq CalendarEvents(c)
      BY <1>1, <1>2, EventsIs, Zenon DEF s
    <3>2. x \in Range(s)
      BY <1>1, <1>2, NextEventIs, Zenon DEF IsEarliest
    <3> QED
      BY <3>1, <3>2
  <2> QED
    BY <1>4, <1>12, <2>1 DEF s, Exchanged
<1>14. ScanAt(d)
  BY <1>10 DEF ScanAt, Hash, h, top
<1>15. NotBehind(d)
  <2> SUFFICES ASSUME NEW f \in CalendarEvents(d) PROVE ts <= f.ts
    BY <1>10 DEF NotBehind
  <2>1. f \in CalendarEvents(c) /\ Before(x, f) /\ f \in Ev /\ x \in Ev
    BY <1>2, <1>5, <1>13, EventsIs, Zenon
  <2> QED
    BY <2>1, BeforeOrder DEF ts
<1> QED
  BY <1>3, <1>10, <1>12, <1>13, <1>14, <1>15, Zenon DEF InOrder, SameDays, x, ts
=============================================================================

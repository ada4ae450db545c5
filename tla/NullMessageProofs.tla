------------------------- MODULE NullMessageProofs -------------------------
(***************************************************************************)
(* Proofs about the null message engine, for any number of ranks and any   *)
(* network in which at most one link joins two ranks (OneLinkPerPair; with *)
(* two parallel links the guarantee of one does not hold for the other),   *)
(* any delays, any number of events and packets.                           *)
(*                                                                         *)
(* A rank gives a guarantee long before it sends the next packet, and by   *)
(* then its queue is another one. The invariant says what stands behind    *)
(* the last guarantee that was given on a link (Backed): it is no later    *)
(* than the safe time plus the delay of the link, no later than the end of *)
(* the transmission under way plus the delay, and, as long as the device   *)
(* is idle, no later than any event from which a packet may leave, plus    *)
(* the delay. While the device is busy the guarantee may be later than     *)
(* user events, because the packets they send wait for TransmitComplete.   *)
(* The guarantees in transit are in order (InOrder), so that the one a     *)
(* rank holds, and its safe time, stay below what is still to come.        *)
(***************************************************************************)
EXTENDS NullMessage, WellFoundedInduction, TLAPS

-----------------------------------------------------------------------------
(* Least elements, and what InsertEvent does to a queue. *)

(* A set of times has a least one. *)
LEMMA LeastNatural ==
    ASSUME NEW S \in SUBSET Nat, S # {}
    PROVE  \E n \in S : \A m \in S : n <= m
<1>1. PICK n \in S : \A m \in S : ~ (<<m, n>> \in OpToRel(<, Nat))
  BY NatLessThanWellFounded, WFMin
<1>2. \A a, b \in Nat : a < b => <<a, b>> \in OpToRel(<, Nat)
  BY SMT DEF OpToRel
<1>3. \A m \in S : ~(m < n)
  BY <1>1, <1>2, Zenon
<1> QED
  BY <1>3

LEMMA MinNat ==
    ASSUME NEW S \in SUBSET Nat, S # {}
    PROVE  Min(S) \in S /\ \A m \in S : Min(S) <= m
BY LeastNatural DEF Min

(* r is q with ev inserted at pos, after all that is not later. *)
Inserted(r, q, pos, ev) ==
    /\ Len(r) = Len(q) + 1
    /\ \A i \in 1..pos-1 : r[i] = q[i] /\ q[i].ts <= ev.ts
    /\ r[pos] = ev
    /\ \A i \in pos+1..Len(q)+1 : r[i] = q[i-1] /\ ev.ts < q[i-1].ts

(* What InsertEvent does to a sorted queue. *)
LEMMA InsertFacts ==
    ASSUME NEW E, NEW q \in Seq(E), NEW ev \in E, \A e \in E : e.ts \in Nat, Sorted(q)
    PROVE  /\ InsertEvent(q, ev) \in Seq(E)
           /\ \E pos \in 1..Len(q)+1 : Inserted(InsertEvent(q, ev), q, pos, ev)
<1> DEFINE S == {i \in 1..Len(q)+1 : i = Len(q)+1 \/ q[i].ts > ev.ts}
<1>1. Len(q) \in Nat /\ DOMAIN q = 1..Len(q) /\ ev.ts \in Nat
      /\ \A i \in 1..Len(q) : q[i] \in E /\ q[i].ts \in Nat
  OBVIOUS
<1>2. PICK pos \in S : \A i \in S : pos <= i
  <2>1. S \in SUBSET Nat /\ S # {}
    BY <1>1
  <2> HIDE DEF S
  <2> QED
    BY <2>1, LeastNatural, Zenon
<1>3. pos \in 1..Len(q)+1 /\ (pos = Len(q)+1 \/ q[pos].ts > ev.ts)
  OBVIOUS
<1>4. \A i \in 1..pos-1 : i \in 1..Len(q) /\ q[i].ts <= ev.ts
  BY <1>1, <1>2
<1>5. \A i \in pos..Len(q) : i \in 1..Len(q) /\ q[i].ts > ev.ts
  <2>1. ASSUME NEW i \in pos..Len(q)
        PROVE  i \in 1..Len(q) /\ pos \in 1..Len(q) /\ pos <= i /\ q[pos].ts > ev.ts
    BY <1>1, <1>3
  <2>2. \A i, j \in 1..Len(q) : i <= j => q[i].ts <= q[j].ts
    BY <1>1, Zenon DEF Sorted
  <2> QED
    BY <1>1, <2>1, <2>2
<1> HIDE DEF S
<1>6. PICK r : r = InsertEvent(q, ev)
  OBVIOUS
<1>7. \A i \in 1..Len(q)+1 :
        r[i] = IF i \in 1..Len(q) /\ q[i].ts <= ev.ts THEN q[i]
               ELSE IF i = 1 \/ (i-1 \in 1..Len(q) /\ q[i-1].ts <= ev.ts) THEN ev
               ELSE q[i-1]
  BY <1>1, <1>6, Zenon DEF InsertEvent
<1>8. DOMAIN r = 1..Len(q)+1 /\ r = [i \in 1..Len(q)+1 |-> r[i]]
  BY <1>1, <1>6, Zenon DEF InsertEvent
<1>9. \A i \in 1..pos-1 : i \in 1..Len(q)+1 /\ r[i] = q[i]
  BY <1>1, <1>3, <1>4, <1>7
<1>10. r[pos] = ev
  <2>1. pos \in 1..Len(q) => ~(q[pos].ts <= ev.ts)
    BY <1>1, <1>3
  <2>2. pos = 1 \/ (pos-1 \in 1..Len(q) /\ q[pos-1].ts <= ev.ts)
    BY <1>1, <1>3, <1>4
  <2> QED
    BY <1>3, <1>7, <2>1, <2>2, Zenon
<1>11. ASSUME NEW i \in pos+1..Len(q)+1 PROVE r[i] = q[i-1] /\ ev.ts < q[i-1].ts /\ i-1 \in 1..Len(q)
  <2>1. i \in 1..Len(q)+1 /\ i-1 \in pos..Len(q) /\ i # 1 /\ (i \in 1..Len(q) => i \in pos..Len(q))
    BY <1>1, <1>3
  <2>2. ev.ts < q[i-1].ts /\ i-1 \in 1..Len(q) /\ ~(q[i-1].ts <= ev.ts)
    BY <1>1, <1>5, <2>1
  <2>3. i \in 1..Len(q) => ~(q[i].ts <= ev.ts)
    BY <1>1, <1>5, <2>1
  <2> QED
    BY <1>7, <2>1, <2>2, <2>3, Zenon
<1>12. r \in Seq(E)
  <2>1. \A i \in 1..Len(q)+1 : i \in 1..pos-1 \/ i = pos \/ i \in pos+1..Len(q)+1
    BY <1>1, <1>3
  <2>2. \A i \in 1..Len(q)+1 : r[i] \in E
    BY <1>1, <1>4, <1>9, <1>10, <1>11, <2>1, Zenon
  <2>3. r \in [1..Len(q)+1 -> E] /\ Len(q)+1 \in Nat
    BY <1>1, <1>8, <2>2
  <2> QED
    BY <2>3
<1>13. Len(r) = Len(q) + 1
  BY <1>1, <1>8, <1>12
<1>14. Inserted(r, q, pos, ev)
  BY <1>4, <1>9, <1>10, <1>11, <1>13, Zenon DEF Inserted
<1> QED
  BY <1>3, <1>6, <1>12, <1>14, Zenon

(* An insertion keeps the queue in order, adds the event and nothing else. *)
LEMMA InsertSorted ==
    ASSUME NEW E, NEW q \in Seq(E), NEW ev \in E, \A e \in E : e.ts \in Nat, Sorted(q)
    PROVE  /\ InsertEvent(q, ev) \in Seq(E)
           /\ Sorted(InsertEvent(q, ev))
           /\ InsertEvent(q, ev) # <<>>
           /\ Range(InsertEvent(q, ev)) = Range(q) \union {ev}
<1>1. PICK r \in Seq(E) : r = InsertEvent(q, ev) /\ \E pos \in 1..Len(q)+1 : Inserted(r, q, pos, ev)
  BY InsertFacts, Zenon
<1>2. PICK pos \in 1..Len(q)+1 : Inserted(r, q, pos, ev)
  BY <1>1
<1>3. \A i \in 1..Len(q) : q[i] \in E /\ q[i].ts \in Nat /\ ev.ts \in Nat
  OBVIOUS
<1>4. DOMAIN r = 1..Len(q)+1 /\ DOMAIN q = 1..Len(q) /\ r # <<>>
  BY <1>2 DEF Inserted
<1>5. /\ \A i \in 1..Len(q)+1 : i < pos => i \in 1..Len(q) /\ r[i] = q[i] /\ q[i].ts <= ev.ts
      /\ \A i \in 1..Len(q)+1 : i > pos => i-1 \in 1..Len(q) /\ r[i] = q[i-1] /\ ev.ts < q[i-1].ts
      /\ r[pos] = ev
  <2>1. \A i \in 1..Len(q)+1 : /\ i < pos => i \in 1..pos-1 /\ i \in 1..Len(q)
                               /\ i > pos => i \in pos+1..Len(q)+1 /\ i-1 \in 1..Len(q)
    OBVIOUS
  <2> QED
    BY <1>2, <2>1, Zenon DEF Inserted
<1>6. \A i \in 1..Len(q)+1 : r[i] = ev \/ \E j \in 1..Len(q) : r[i] = q[j]
  <2>1. \A i \in 1..Len(q)+1 : i < pos \/ i = pos \/ i > pos
    OBVIOUS
  <2> QED
    BY <1>5, <2>1
<1>7. \A i, j \in 1..Len(q) : i <= j => q[i].ts <= q[j].ts
  BY <1>4 DEF Sorted
<1>8. ASSUME NEW i \in 1..Len(q)+1, NEW j \in 1..Len(q)+1, i <= j PROVE r[i].ts <= r[j].ts
  <2>1. CASE i < pos /\ j < pos
    BY <1>5, <1>7, <1>8, <2>1
  <2>2. CASE i < pos /\ j = pos
    BY <1>5, <2>2
  <2>3. CASE i < pos /\ j > pos
    <3>1. r[i] = q[i] /\ r[j] = q[j-1] /\ i \in 1..Len(q) /\ j-1 \in 1..Len(q) /\ i <= j-1
      BY <1>5, <2>3
    <3> QED
      BY <1>7, <3>1
  <2>4. CASE i = pos /\ j = pos
    BY <1>3, <1>5, <2>4
  <2>5. CASE i = pos /\ j > pos
    <3>1. r[i] = ev /\ r[j] = q[j-1] /\ j-1 \in 1..Len(q) /\ ev.ts < q[j-1].ts
      BY <1>5, <2>5
    <3> QED
      BY <1>3, <3>1
  <2>6. CASE i > pos /\ j > pos
    <3>1. r[i] = q[i-1] /\ r[j] = q[j-1] /\ i-1 \in 1..Len(q) /\ j-1 \in 1..Len(q) /\ i-1 <= j-1
      BY <1>5, <1>8, <2>6
    <3> QED
      BY <1>7, <3>1
  <2> QED
    BY <1>8, <2>1, <2>2, <2>3, <2>4, <2>5, <2>6
<1>9. ASSUME NEW j \in 1..Len(q) PROVE \E i \in 1..Len(q)+1 : r[i] = q[j]
  <2>1. CASE j < pos
    BY <1>5, <2>1
  <2>2. CASE ~(j < pos)
    <3>1. j + 1 \in 1..Len(q)+1 /\ j + 1 > pos /\ (j + 1) - 1 = j
      BY <2>2
    <3>2. r[j+1] = q[j]
      BY <1>5, <3>1
    <3> QED
      BY <3>1, <3>2
  <2> QED
    BY <2>1, <2>2
<1>10. Range(r) = Range(q) \union {ev}
  <2>1. Range(r) = {r[i] : i \in 1..Len(q)+1} /\ Range(q) = {q[i] : i \in 1..Len(q)}
    BY <1>4 DEF Range
  <2>2. \A e \in Range(r) : e \in Range(q) \union {ev}
    BY <1>6, <2>1
  <2>3. \A e \in Range(q) \union {ev} : e \in Range(r)
    BY <1>5, <1>9, <2>1
  <2> QED
    BY <2>2, <2>3
<1>11. Sorted(r)
  BY <1>4, <1>8 DEF Sorted
<1> QED
  BY <1>1, <1>4, <1>10, <1>11, Zenon

(* No event of the queue is before t. *)
NotBefore(q, t) == \A i \in DOMAIN q : q[i].ts >= t

LEMMA InsertNotBefore ==
    ASSUME NEW E, NEW q \in Seq(E), NEW ev \in E, \A e \in E : e.ts \in Nat, Sorted(q),
           NEW t, NotBefore(q, t), ev.ts >= t
    PROVE  NotBefore(InsertEvent(q, ev), t)
<1>1. PICK r \in Seq(E) : r = InsertEvent(q, ev) /\ Range(r) = Range(q) \union {ev}
  BY InsertSorted, Zenon
<1>2. \A i \in DOMAIN r : r[i] \in Range(q) \union {ev}
  BY <1>1 DEF Range
<1>3. \A e \in Range(q) \union {ev} : e.ts >= t
  BY DEF NotBefore, Range
<1> QED
  BY <1>1, <1>2, <1>3, Zenon DEF NotBefore

(* The head of a sorted queue is the earliest event. *)
LEMMA TailFacts ==
    ASSUME NEW E, NEW q \in Seq(E), q # <<>>, \A e \in E : e.ts \in Nat, Sorted(q)
    PROVE  /\ Head(q) \in E /\ Head(q).ts \in Nat /\ Head(q) = q[1]
           /\ NotBefore(q, Head(q).ts)
           /\ Tail(q) \in Seq(E) /\ Sorted(Tail(q))
           /\ \A t : NotBefore(q, t) => Head(q).ts >= t /\ NotBefore(Tail(q), t)
<1>1. Len(q) \in Nat \ {0} /\ 1 \in DOMAIN q /\ Head(q) = q[1] /\ DOMAIN q = 1..Len(q)
  OBVIOUS
<1>2. PICK r \in Seq(E) : r = Tail(q) /\ Len(r) = Len(q) - 1 /\ \A i \in 1..Len(r) : r[i] = q[i+1]
  <2>1. Tail(q) \in Seq(E) /\ Len(Tail(q)) = Len(q) - 1
        /\ \A i \in 1..Len(Tail(q)) : Tail(q)[i] = q[i+1]
    BY <1>1
  <2> QED
    BY <2>1, Zenon
<1>3. DOMAIN r = 1..Len(q)-1 /\ \A i \in 1..Len(q)-1 : i+1 \in DOMAIN q
  BY <1>1, <1>2
<1>4. \A i, j \in 1..Len(q) : i <= j => q[i].ts <= q[j].ts
  BY <1>1 DEF Sorted
<1>5. Sorted(r)
  <2>1. \A i, j \in 1..Len(q)-1 : i <= j => r[i].ts <= r[j].ts
    BY <1>1, <1>2, <1>3, <1>4
  <2> QED
    BY <1>3, <2>1 DEF Sorted
<1>6. Head(q) \in E /\ Head(q).ts \in Nat
  BY <1>1
<1>7. ASSUME NEW i \in DOMAIN q PROVE q[i].ts >= Head(q).ts
  <2>1. q[1].ts <= q[i].ts /\ q[i] \in E
    BY <1>1, <1>4
  <2> QED
    BY <1>1, <1>6, <2>1
<1>8. \A t : NotBefore(q, t) => Head(q).ts >= t /\ NotBefore(r, t)
  BY <1>1, <1>2, <1>3 DEF NotBefore
<1> QED
  BY <1>1, <1>2, <1>5, <1>6, <1>7, <1>8 DEF NotBefore


-----------------------------------------------------------------------------
EventType == [ts : Nat, kind : {"user", "null", "complete", "stop", "cancelled"}, peer : Nat]
MsgType == [rx : Nat, guarantee : Nat]

(* The bundles of rank s in the network n, their delays and the time        *)
(* between their null messages.                                             *)
Neighbours(n, s) == {n.to[d] : d \in {e \in n.devices : n.from[e] = s}}
LinkDelay(n, s, k) == Min({n.delay[d] : d \in {e \in n.devices : n.from[e] = s /\ n.to[e] = k}})
NullPeriod(n, s, k) == (2 * n.tune * LinkDelay(n, s, k) + 100) \div 200

(* One link at most from a rank to another. *)
OneLinkPerPair ==
    \A n \in Networks : \A d, e \in n.devices :
        n.from[d] = n.from[e] /\ n.to[d] = n.to[e] => d = e

(* The kinds of events that the proofs tell apart, and the places in Run. *)
LEMMA NamesDiffer ==
    /\ "complete" # "null" /\ "complete" # "user" /\ "complete" # "stop" /\ "complete" # "cancelled"
    /\ "null" # "user" /\ "null" # "stop" /\ "null" # "cancelled"
    /\ "receive" # "start" /\ "receive" # "handler"
OBVIOUS

IsNull(e, k) == e.kind = "null" /\ e.peer = k

(* No two null message events of the same bundle. *)
NullsOnce(q) ==
    \A i, j \in DOMAIN q :
        q[i].kind = "null" /\ q[j].kind = "null" /\ q[i].peer = q[j].peer => i = j

Queue(q, t) == q \in Seq(EventType) /\ Sorted(q) /\ NotBefore(q, t) /\ NullsOnce(q)

-----------------------------------------------------------------------------
(* The network. *)

LEMMA SameNetwork ==
    ASSUME NEW n, network = n, NEW r, NEW s
    PROVE  /\ Ranks = n.ranks /\ Devices = n.devices /\ From = n.from /\ To = n.to
           /\ Delay = n.delay /\ TxTime = n.txTime
           /\ Bundles(r) = Neighbours(n, r)
           /\ BundleDelay(r, s) = LinkDelay(n, r, s)
           /\ Period(r, s) = NullPeriod(n, r, s)
<1>1. Ranks = n.ranks /\ Devices = n.devices /\ From = n.from /\ To = n.to
      /\ Delay = n.delay /\ TxTime = n.txTime
  BY DEF Ranks, Devices, From, To, Delay, TxTime
<1>2. Bundles(r) = Neighbours(n, r) /\ BundleDelay(r, s) = LinkDelay(n, r, s)
  BY <1>1, Zenon DEF Bundles, Neighbours, BundleDelay, LinkDelay
<1> QED
  BY <1>1, <1>2, Zenon DEF Period, NullPeriod

LEMMA DeviceFacts ==
    ASSUME NEW n \in Networks, NEW d \in n.devices
    PROVE  /\ n.from[d] \in n.ranks /\ n.to[d] \in n.ranks /\ n.from[d] # n.to[d]
           /\ n.delay[d] \in Nat /\ n.txTime[d] \in Nat /\ n.interframeGap[d] \in Nat
           /\ n.from[d] \in Nat /\ n.to[d] \in Nat /\ d \in Nat
           /\ n.to[d] \in Neighbours(n, n.from[d]) /\ n.from[d] \in Neighbours(n, n.to[d])
<1>1. IsNetwork(n)
  BY NetworksAssumption
<1>2. /\ n.ranks \subseteq Nat /\ n.devices \subseteq Nat
      /\ n.from \in [n.devices -> n.ranks] /\ n.to \in [n.devices -> n.ranks]
      /\ n.delay \in [n.devices -> Nat \ {0}] /\ n.txTime \in [n.devices -> Nat]
      /\ n.interframeGap \in [n.devices -> Nat]
  BY <1>1, Zenon DEF IsNetwork
<1>3. n.from[d] # n.to[d] /\ \E e \in n.devices : n.from[e] = n.to[d] /\ n.to[e] = n.from[d]
  BY <1>1, Zenon DEF IsNetwork
<1>4. n.to[d] \in Neighbours(n, n.from[d]) /\ n.from[d] \in Neighbours(n, n.to[d])
  BY <1>3, Zenon DEF Neighbours
<1> QED
  BY <1>2, <1>3, <1>4

LEMMA NeighbourFacts ==
    ASSUME NEW n \in Networks, NEW s
    PROVE  /\ Neighbours(n, s) \subseteq n.ranks
           /\ \A k \in Neighbours(n, s) : /\ \E d \in n.devices : n.from[d] = s /\ n.to[d] = k
                                          /\ s \in n.ranks /\ s \in Neighbours(n, k)
                                          /\ k \in Nat
           /\ s \in n.ranks => Neighbours(n, s) # {} /\ s \in Nat
<1>1. IsNetwork(n)
  BY NetworksAssumption
<1>2. \A k \in Neighbours(n, s) : \E d \in n.devices : n.from[d] = s /\ n.to[d] = k
  BY Zenon DEF Neighbours
<1>3. \A k \in Neighbours(n, s) : k \in n.ranks /\ s \in n.ranks /\ s \in Neighbours(n, k) /\ k \in Nat
  BY <1>2, DeviceFacts, ZenonT(60)
<1>4. s \in n.ranks => \E d \in n.devices : n.from[d] = s
  BY <1>1, Zenon DEF IsNetwork
<1>5. s \in n.ranks => s \in Nat
  BY <1>1, Zenon DEF IsNetwork
<1>6. s \in n.ranks => Neighbours(n, s) # {}
  BY <1>4, DeviceFacts, Zenon
<1> QED
  BY <1>2, <1>3, <1>5, <1>6, Zenon

LEMMA PeriodFacts ==
    ASSUME NEW n \in Networks, NEW s, NEW k \in Neighbours(n, s)
    PROVE  LinkDelay(n, s, k) \in Nat /\ NullPeriod(n, s, k) \in Nat
<1> DEFINE S == {n.delay[d] : d \in {e \in n.devices : n.from[e] = s /\ n.to[e] = k}}
<1>1. S \in SUBSET Nat
  BY DeviceFacts
<1>2. S # {}
  <2>1. PICK d \in n.devices : n.from[d] = s /\ n.to[d] = k
    BY Zenon DEF Neighbours
  <2>2. n.delay[d] \in S
    BY <2>1
  <2> QED
    BY <2>2
<1>3. Min(S) \in S
  <2> HIDE DEF S
  <2> QED
    BY <1>1, <1>2, MinNat
<1>4. LinkDelay(n, s, k) \in Nat
  BY <1>1, <1>3, Zenon DEF LinkDelay
<1>5. n.tune \in Nat
  BY NetworksAssumption DEF IsNetwork
<1>6. \A a, b \in Nat : (2 * a * b + 100) \div 200 \in Nat
  OBVIOUS
<1> QED
  BY <1>4, <1>5, <1>6, Zenon DEF NullPeriod

LEMMA OneDelay ==
    ASSUME OneLinkPerPair, NEW n \in Networks, NEW d \in n.devices
    PROVE  LinkDelay(n, n.from[d], n.to[d]) = n.delay[d]
<1> DEFINE L == {e \in n.devices : n.from[e] = n.from[d] /\ n.to[e] = n.to[d]}
<1>1. L = {d}
  BY Zenon DEF OneLinkPerPair
<1>2. {n.delay[e] : e \in L} = {n.delay[d]}
  BY <1>1
<1>3. n.delay[d] \in Nat
  BY DeviceFacts
<1>4. Min({n.delay[d]}) = n.delay[d]
  BY <1>3, MinNat
<1> QED
  BY <1>2, <1>4, Zenon DEF LinkDelay

-----------------------------------------------------------------------------
(* The queue of a rank. *)

LEMMA EventTimes == \A e \in EventType : e.ts \in Nat
BY DEF EventType

LEMMA QueueElements ==
    ASSUME NEW t, NEW q, Queue(q, t)
    PROVE  /\ DOMAIN q = 1..Len(q) /\ Len(q) \in Nat
           /\ Range(q) = {q[i] : i \in 1..Len(q)}
           /\ \A e \in Range(q) : e \in EventType /\ e.ts \in Nat /\ e.ts >= t
<1>1. q \in Seq(EventType) /\ NotBefore(q, t)
  BY Zenon DEF Queue
<1>2. DOMAIN q = 1..Len(q) /\ Len(q) \in Nat /\ \A i \in 1..Len(q) : q[i] \in EventType
  BY <1>1
<1>3. Range(q) = {q[i] : i \in 1..Len(q)}
  BY <1>2, Zenon DEF Range
<1>4. \A i \in 1..Len(q) : q[i].ts >= t
  BY <1>1, <1>2, Zenon DEF NotBefore
<1> QED
  BY <1>2, <1>3, <1>4, EventTimes

(* An event may be inserted, a null message event only once per bundle. *)
LEMMA QueueInsert ==
    ASSUME NEW t \in Nat, NEW q, Queue(q, t), NEW ev \in EventType, ev.ts >= t,
           ev.kind = "null" => \A e \in Range(q) : ~IsNull(e, ev.peer)
    PROVE  Queue(InsertEvent(q, ev), t) /\ Range(InsertEvent(q, ev)) = Range(q) \union {ev}
<1>1. q \in Seq(EventType) /\ Sorted(q) /\ NotBefore(q, t) /\ NullsOnce(q)
  BY Zenon DEF Queue
<1>2. PICK r \in Seq(EventType) :
        /\ r = InsertEvent(q, ev) /\ Sorted(r) /\ NotBefore(r, t)
        /\ Range(r) = Range(q) \union {ev}
        /\ \E pos \in 1..Len(q)+1 : Inserted(r, q, pos, ev)
  <2>1. /\ InsertEvent(q, ev) \in Seq(EventType)
        /\ \E pos \in 1..Len(q)+1 : Inserted(InsertEvent(q, ev), q, pos, ev)
    BY <1>1, EventTimes, InsertFacts, Zenon
  <2>2. Sorted(InsertEvent(q, ev)) /\ Range(InsertEvent(q, ev)) = Range(q) \union {ev}
    BY <1>1, EventTimes, InsertSorted, Zenon
  <2>3. NotBefore(InsertEvent(q, ev), t)
    BY <1>1, EventTimes, InsertNotBefore, Zenon
  <2> QED
    BY <2>1, <2>2, <2>3, Zenon
<1>3. PICK pos \in 1..Len(q)+1 : Inserted(r, q, pos, ev)
  BY <1>2
<1>4. DOMAIN r = 1..Len(q)+1 /\ DOMAIN q = 1..Len(q) /\ Len(q) \in Nat
  BY <1>1, <1>3 DEF Inserted
<1>5. /\ \A i \in 1..Len(q)+1 : i < pos => i \in 1..Len(q) /\ r[i] = q[i]
      /\ \A i \in 1..Len(q)+1 : i > pos => i-1 \in 1..Len(q) /\ r[i] = q[i-1]
      /\ r[pos] = ev
  <2>1. \A i \in 1..Len(q)+1 : /\ i < pos => i \in 1..pos-1 /\ i \in 1..Len(q)
                               /\ i > pos => i \in pos+1..Len(q)+1 /\ i-1 \in 1..Len(q)
    BY <1>4
  <2> QED
    BY <1>3, <2>1, Zenon DEF Inserted
<1> DEFINE old(i) == IF i < pos THEN i ELSE i-1
<1>6. \A i \in 1..Len(q)+1 : i # pos => old(i) \in 1..Len(q) /\ r[i] = q[old(i)] /\ r[i] \in Range(q)
  <2>1. \A i \in 1..Len(q)+1 : i # pos => i < pos \/ i > pos
    BY <1>4
  <2>2. \A i \in 1..Len(q)+1 : i # pos => old(i) \in 1..Len(q) /\ r[i] = q[old(i)]
    BY <1>5, <2>1
  <2> QED
    BY <1>4, <2>2, Zenon DEF Range
<1>7. \A i, j \in 1..Len(q)+1 : i # pos /\ j # pos /\ old(i) = old(j) => i = j
  BY <1>4
<1> HIDE DEF old
<1>8. ASSUME NEW i \in 1..Len(q)+1, NEW j \in 1..Len(q)+1,
             r[i].kind = "null", r[j].kind = "null", r[i].peer = r[j].peer
      PROVE  i = j
  <2>1. CASE i # pos /\ j # pos
    <3>1. old(i) = old(j)
      BY <1>1, <1>4, <1>6, <1>8, <2>1, Zenon DEF NullsOnce
    <3> QED
      BY <1>7, <2>1, <3>1, Zenon
  <2>2. i = pos /\ j # pos => FALSE
    BY <1>5, <1>6, <1>8, Zenon DEF IsNull
  <2>3. i # pos /\ j = pos => FALSE
    BY <1>5, <1>6, <1>8, Zenon DEF IsNull
  <2> QED
    BY <2>1, <2>2, <2>3
<1>9. NullsOnce(r)
  BY <1>4, <1>8, Zenon DEF NullsOnce
<1> QED
  BY <1>2, <1>9, Zenon DEF Queue

(* The first event may be taken off. *)
LEMMA QueueTail ==
    ASSUME NEW t \in Nat, NEW q, Queue(q, t), q # <<>>
    PROVE  /\ Head(q) \in EventType /\ Head(q).ts \in Nat /\ Head(q).ts >= t
           /\ Head(q) \in Range(q) /\ Range(q) = Range(Tail(q)) \union {Head(q)}
           /\ Queue(Tail(q), Head(q).ts)
           /\ \A e \in Range(q) : e.ts >= Head(q).ts
           /\ Head(q).kind = "null" => \A e \in Range(Tail(q)) : ~IsNull(e, Head(q).peer)
<1>1. q \in Seq(EventType) /\ Sorted(q) /\ NotBefore(q, t) /\ NullsOnce(q)
  BY Zenon DEF Queue
<1>2. /\ Head(q) \in EventType /\ Head(q).ts \in Nat /\ Head(q) = q[1]
      /\ NotBefore(q, Head(q).ts) /\ Head(q).ts >= t
      /\ Tail(q) \in Seq(EventType) /\ Sorted(Tail(q)) /\ NotBefore(Tail(q), Head(q).ts)
  BY <1>1, EventTimes, TailFacts, Zenon
<1>3. /\ DOMAIN q = 1..Len(q) /\ Len(q) \in Nat /\ Len(q) >= 1
      /\ DOMAIN Tail(q) = 1..Len(q)-1
      /\ \A i \in 1..Len(q)-1 : Tail(q)[i] = q[i+1] /\ i+1 \in 1..Len(q)
  BY <1>1
<1>4. \A i \in 1..Len(q) : i = 1 \/ (i - 1 \in 1..Len(q)-1 /\ (i - 1) + 1 = i)
  BY <1>3
<1>5. Range(q) = Range(Tail(q)) \union {Head(q)}
  <2>1. Range(q) = {q[i] : i \in 1..Len(q)} /\ Range(Tail(q)) = {Tail(q)[i] : i \in 1..Len(q)-1}
    BY <1>3, Zenon DEF Range
  <2>2. 1 \in 1..Len(q)
    BY <1>3
  <2>3. \A i \in 1..Len(q) : q[i] \in Range(Tail(q)) \union {Head(q)}
    BY <1>2, <1>3, <1>4, <2>1
  <2>4. \A i \in 1..Len(q)-1 : Tail(q)[i] \in Range(q)
    BY <1>3, <2>1
  <2>5. Head(q) \in Range(q)
    BY <1>2, <2>1, <2>2
  <2> QED
    BY <2>1, <2>3, <2>4, <2>5
<1>6. NullsOnce(Tail(q))
  <2>1. \A i, j \in 1..Len(q)-1 : i + 1 = j + 1 => i = j
    BY <1>3
  <2> QED
    BY <1>1, <1>3, <2>1, ZenonT(60) DEF NullsOnce
<1>7. Head(q).kind = "null" => \A e \in Range(Tail(q)) : ~IsNull(e, Head(q).peer)
  <2>1. \A i \in 1..Len(q)-1 : i + 1 # 1 /\ 1 \in 1..Len(q)
    BY <1>3
  <2>2. ASSUME NEW i \in 1..Len(q)-1, Head(q).kind = "null" PROVE ~IsNull(Tail(q)[i], Head(q).peer)
    BY <1>1, <1>2, <1>3, <2>1, <2>2, Zenon DEF NullsOnce, IsNull
  <2> QED
    BY <1>3, <2>2, Zenon DEF Range
<1>8. \A e \in Range(q) : e.ts >= Head(q).ts
  BY <1>2, Zenon DEF NotBefore, Range
<1> QED
  BY <1>2, <1>5, <1>6, <1>7, <1>8, Zenon DEF Queue

(* What CancelNull(k) does to the events old of a queue. *)
Cancelled(new, old, k) ==
    /\ \A x \in new : \/ x \in old /\ ~IsNull(x, k)
                      \/ x.kind = "cancelled" /\ \E y \in old : IsNull(y, k) /\ x.ts = y.ts
    /\ \A x \in old : ~IsNull(x, k) => x \in new

LEMMA QueueCancel ==
    ASSUME NEW t \in Nat, NEW q, Queue(q, t), NEW k
    PROVE  Queue(CancelNull(q, k), t) /\ Cancelled(Range(CancelNull(q, k)), Range(q), k)
<1>1. /\ Sorted(q) /\ NotBefore(q, t) /\ NullsOnce(q)
      /\ DOMAIN q = 1..Len(q) /\ Len(q) \in Nat
      /\ \A i \in 1..Len(q) : q[i] \in EventType
  BY DEF Queue
<1>2. PICK c : c = CancelNull(q, k)
  OBVIOUS
<1>3. /\ DOMAIN c = 1..Len(q)
      /\ \A i \in 1..Len(q) : c[i] = IF q[i].kind = "null" /\ q[i].peer = k
                                     THEN [q[i] EXCEPT !.kind = "cancelled"] ELSE q[i]
      /\ c = [i \in 1..Len(q) |-> c[i]]
  BY <1>1, <1>2, Zenon DEF CancelNull
<1>4. \A i \in 1..Len(q) : /\ c[i] \in EventType /\ c[i].ts = q[i].ts
                           /\ IsNull(q[i], k) => c[i].kind = "cancelled"
                           /\ ~IsNull(q[i], k) => c[i] = q[i]
  <2>1. \A e \in EventType : /\ [e EXCEPT !.kind = "cancelled"] \in EventType
                             /\ [e EXCEPT !.kind = "cancelled"].ts = e.ts
                             /\ [e EXCEPT !.kind = "cancelled"].kind = "cancelled"
    BY DEF EventType
  <2>2. ASSUME NEW i \in 1..Len(q), IsNull(q[i], k)
        PROVE  c[i] \in EventType /\ c[i].ts = q[i].ts /\ c[i].kind = "cancelled"
    <3>1. c[i] = [q[i] EXCEPT !.kind = "cancelled"]
      BY <1>3, <2>2, Zenon DEF IsNull
    <3> QED
      BY <1>1, <2>1, <3>1, ZenonT(60)
  <2>3. ASSUME NEW i \in 1..Len(q), ~IsNull(q[i], k) PROVE c[i] = q[i]
    BY <1>3, <2>3, Zenon DEF IsNull
  <2> QED
    BY <1>1, <2>2, <2>3, Zenon
<1>5. c \in Seq(EventType)
  <2>1. c \in [1..Len(q) -> EventType]
    BY <1>3, <1>4
  <2> QED
    BY <1>1, <2>1
<1>6. Sorted(c) /\ NotBefore(c, t)
  BY <1>1, <1>3, <1>4, Zenon DEF Sorted, NotBefore
<1>7. NullsOnce(c)
  <2>1. "cancelled" # "null"
    OBVIOUS
  <2>2. \A i \in 1..Len(q) : c[i].kind = "null" => c[i] = q[i]
    BY <1>4, <2>1, Zenon
  <2> QED
    BY <1>1, <1>3, <2>2, Zenon DEF NullsOnce
<1>8. Cancelled(Range(c), Range(q), k)
  <2>1. Range(c) = {c[i] : i \in 1..Len(q)} /\ Range(q) = {q[i] : i \in 1..Len(q)}
    BY <1>1, <1>3, Zenon DEF Range
  <2>2. \A i \in 1..Len(q) : q[i] \in Range(q) /\ c[i] \in Range(c)
    BY <2>1, Zenon
  <2>3. \A x \in Range(c) : \E i \in 1..Len(q) : x = c[i]
    BY <2>1, Zenon
  <2>4. \A x \in Range(q) : \E i \in 1..Len(q) : x = q[i]
    BY <2>1, Zenon
  <2>5. ASSUME NEW i \in 1..Len(q)
        PROVE  \/ c[i] \in Range(q) /\ ~IsNull(c[i], k)
               \/ c[i].kind = "cancelled" /\ \E y \in Range(q) : IsNull(y, k) /\ c[i].ts = y.ts
    <3>1. CASE IsNull(q[i], k)
      BY <1>4, <2>2, <3>1, Zenon
    <3>2. CASE ~IsNull(q[i], k)
      BY <1>4, <2>2, <3>2, Zenon
    <3> QED
      BY <3>1, <3>2
  <2>6. ASSUME NEW i \in 1..Len(q), ~IsNull(q[i], k) PROVE q[i] \in Range(c)
    BY <1>4, <2>2, <2>6, Zenon
  <2>7. ASSUME NEW x \in Range(c)
        PROVE  \/ x \in Range(q) /\ ~IsNull(x, k)
               \/ x.kind = "cancelled" /\ \E y \in Range(q) : IsNull(y, k) /\ x.ts = y.ts
    <3>1. PICK i \in 1..Len(q) : x = c[i]
      BY <2>3, Zenon
    <3> QED
      BY <2>5, <3>1, Zenon
  <2>8. ASSUME NEW x \in Range(q), ~IsNull(x, k) PROVE x \in Range(c)
    BY <2>4, <2>6, <2>8, Zenon
  <2> QED
    BY <2>7, <2>8, Zenon DEF Cancelled
<1> QED
  BY <1>2, <1>5, <1>6, <1>7, <1>8, Zenon DEF Queue

(* The queue after TransmitStart put TransmitComplete (c) into q and        *)
(* replaced the null message event of the bundle k by m.                    *)
Transmitted(q, c, m, k) == InsertEvent(CancelNull(InsertEvent(q, c), k), m)

PutOff(new, old, c, m, k) ==
    /\ \A x \in new : \/ x = c \/ x = m
                      \/ x \in old /\ ~IsNull(x, k)
                      \/ x.kind = "cancelled" /\ \E y \in old : IsNull(y, k) /\ x.ts = y.ts
    /\ m \in new
    /\ \A x \in old : ~IsNull(x, k) => x \in new

(* The first of the events after TransmitComplete is scheduled. *)
Earliest(q, c, ts) ==
    ts \in Nat /\ \A e \in Range(q) \union {c} : ts <= e.ts

LEMMA QueueTransmit ==
    ASSUME NEW t \in Nat, NEW q, Queue(q, t), NEW k,
           NEW c \in EventType, c.kind = "complete", c.ts >= t,
           NEW m \in EventType, IsNull(m, k), m.ts >= t
    PROVE  /\ Queue(Transmitted(q, c, m, k), t)
           /\ PutOff(Range(Transmitted(q, c, m, k)), Range(q), c, m, k)
           /\ Earliest(q, c, Head(InsertEvent(q, c)).ts)
           /\ Head(InsertEvent(q, c)).ts >= t
<1>0. "complete" # "null" /\ "cancelled" # "null"
  OBVIOUS
<1>1. PICK w : w = InsertEvent(q, c) /\ Queue(w, t) /\ Range(w) = Range(q) \union {c}
  BY <1>0, QueueInsert, Zenon
<1>2. PICK v : v = CancelNull(w, k) /\ Queue(v, t) /\ Cancelled(Range(v), Range(w), k)
  BY <1>1, QueueCancel, Zenon
<1>3. \A x \in Range(v) : ~IsNull(x, k)
  <2>1. \A x : x.kind = "cancelled" => ~IsNull(x, k)
    BY <1>0, Zenon DEF IsNull
  <2> QED
    BY <1>2, <2>1, Zenon DEF Cancelled
<1>4. PICK u : u = InsertEvent(v, m) /\ Queue(u, t) /\ Range(u) = Range(v) \union {m}
  <2>1. \A x \in Range(v) : ~IsNull(x, m.peer)
    BY <1>3, Zenon DEF IsNull
  <2>2. Queue(InsertEvent(v, m), t) /\ Range(InsertEvent(v, m)) = Range(v) \union {m}
    BY <1>2, <2>1, QueueInsert
  <2> QED
    BY <2>2, Zenon
<1>5. u = Transmitted(q, c, m, k)
  BY <1>1, <1>2, <1>4, Zenon DEF Transmitted
<1>6. PutOff(Range(u), Range(q), c, m, k)
  <2>1. ~IsNull(c, k)
    BY <1>0, Zenon DEF IsNull
  <2>2. ASSUME NEW x \in Range(v)
        PROVE  \/ x = c \/ x = m
               \/ x \in Range(q) /\ ~IsNull(x, k)
               \/ x.kind = "cancelled" /\ \E y \in Range(q) : IsNull(y, k) /\ x.ts = y.ts
    <3>1. CASE x \in Range(w) /\ ~IsNull(x, k)
      BY <1>1, <3>1, Zenon
    <3>2. CASE x.kind = "cancelled" /\ \E y \in Range(w) : IsNull(y, k) /\ x.ts = y.ts
      <4>1. PICK y \in Range(w) : IsNull(y, k) /\ x.ts = y.ts
        BY <3>2, Zenon
      <4>2. y \in Range(q)
        BY <1>1, <2>1, <4>1, Zenon
      <4> QED
        BY <3>2, <4>1, <4>2, Zenon
    <3> QED
      BY <1>2, <3>1, <3>2, Zenon DEF Cancelled
  <2>3. \A x \in Range(q) : ~IsNull(x, k) => x \in Range(u)
    BY <1>1, <1>2, <1>4, Zenon DEF Cancelled
  <2>4. ASSUME NEW x \in Range(u)
        PROVE  \/ x = c \/ x = m
               \/ x \in Range(q) /\ ~IsNull(x, k)
               \/ x.kind = "cancelled" /\ \E y \in Range(q) : IsNull(y, k) /\ x.ts = y.ts
    BY <1>4, <2>2, Zenon
  <2>5. m \in Range(u)
    BY <1>4, Zenon
  <2> QED
    BY <2>3, <2>4, <2>5, Zenon DEF PutOff
<1>7. Head(w).ts \in Nat /\ Head(w).ts >= t /\ \A e \in Range(w) : Head(w).ts <= e.ts
  <2>1. w # <<>>
    <3>1. Range(<<>>) = {}
      BY DEF Range
    <3> QED
      BY <1>1, <3>1
  <2>2. Head(w).ts \in Nat /\ Head(w).ts >= t /\ \A e \in Range(w) : e.ts >= Head(w).ts
    BY <1>1, <2>1, QueueTail, Zenon
  <2>3. \A e \in Range(w) : e.ts \in Nat
    BY <1>1, QueueElements, Zenon
  <2> QED
    BY <2>2, <2>3
<1>8. Earliest(q, c, Head(w).ts)
  BY <1>1, <1>7, Zenon DEF Earliest
<1> QED
  BY <1>1, <1>4, <1>5, <1>6, <1>7, <1>8, Zenon

-----------------------------------------------------------------------------
(* The events of rank s: q is the queue, t the time, stop tells whether     *)
(* Simulator::Stop ran, and init are the bundles with no null message yet.  *)

HasStop(q) == \E e \in Range(q) : e.kind = "stop"
OwnDevices(n, s, q) ==
    \A e \in Range(q) : e.kind = "complete" => e.peer \in n.devices /\ n.from[e.peer] = s
NullsSoon(n, s, q, t, init) ==
    \A e \in Range(q) : e.kind = "null" =>
        e.peer \in Neighbours(n, s) \ init /\ e.ts <= t + NullPeriod(n, s, e.peer)
NullsThere(n, s, q, init) ==
    \A k \in Neighbours(n, s) \ init : \E e \in Range(q) : IsNull(e, k)

RankQueue(n, s, q, t, stop, init) ==
    /\ Queue(q, t)
    /\ stop = FALSE => HasStop(q)
    /\ OwnDevices(n, s, q)
    /\ NullsSoon(n, s, q, t, init)
    /\ NullsThere(n, s, q, init)

(* A user event. *)
LEMMA RankInsert ==
    ASSUME NEW n \in Networks, NEW s, NEW q, NEW t \in Nat, NEW stop, NEW init,
           RankQueue(n, s, q, t, stop, init),
           NEW ev \in EventType, ev.kind = "user", ev.ts >= t
    PROVE  /\ RankQueue(n, s, InsertEvent(q, ev), t, stop, init)
           /\ Range(InsertEvent(q, ev)) = Range(q) \union {ev}
<1>0. "user" # "null" /\ "user" # "complete"
  OBVIOUS
<1>1. PICK r : r = InsertEvent(q, ev) /\ Queue(r, t) /\ Range(r) = Range(q) \union {ev}
  BY <1>0, QueueInsert, Zenon DEF RankQueue
<1>2. stop = FALSE => HasStop(r)
  BY <1>1, Zenon DEF RankQueue, HasStop
<1>3. OwnDevices(n, s, r)
  BY <1>0, <1>1, Zenon DEF RankQueue, OwnDevices
<1>4. NullsSoon(n, s, r, t, init)
  BY <1>0, <1>1, Zenon DEF RankQueue, NullsSoon
<1>5. NullsThere(n, s, r, init)
  BY <1>1, Zenon DEF RankQueue, NullsThere
<1> QED
  BY <1>1, <1>2, <1>3, <1>4, <1>5, Zenon DEF RankQueue

(* What stays when the first event is taken off. *)
LEMMA RankTail ==
    ASSUME NEW n \in Networks, NEW s, NEW q, NEW t \in Nat, NEW stop, NEW init,
           RankQueue(n, s, q, t, stop, init), q # <<>>
    PROVE  /\ Head(q) \in EventType /\ Head(q).ts \in Nat /\ Head(q).ts >= t
           /\ Queue(Tail(q), Head(q).ts)
           /\ Range(q) = Range(Tail(q)) \union {Head(q)}
           /\ stop = FALSE /\ Head(q).kind # "stop" => HasStop(Tail(q))
           /\ OwnDevices(n, s, Tail(q))
           /\ NullsSoon(n, s, Tail(q), Head(q).ts, init)
<1>1. /\ Head(q) \in EventType /\ Head(q).ts \in Nat /\ Head(q).ts >= t
      /\ Range(q) = Range(Tail(q)) \union {Head(q)} /\ Queue(Tail(q), Head(q).ts)
  BY QueueTail, Zenon DEF RankQueue
<1>2. stop = FALSE /\ Head(q).kind # "stop" => HasStop(Tail(q))
  BY <1>1, Zenon DEF RankQueue, HasStop
<1>3. OwnDevices(n, s, Tail(q))
  BY <1>1, Zenon DEF RankQueue, OwnDevices
<1>4. NullsSoon(n, s, Tail(q), Head(q).ts, init)
  <2> SUFFICES ASSUME NEW e \in Range(Tail(q)), e.kind = "null"
               PROVE  e.peer \in Neighbours(n, s) \ init /\ e.ts <= Head(q).ts + NullPeriod(n, s, e.peer)
    BY Zenon DEF NullsSoon
  <2>1. e \in Range(q)
    BY <1>1, Zenon
  <2>2. e.peer \in Neighbours(n, s) \ init /\ e.ts <= t + NullPeriod(n, s, e.peer)
    BY <2>1, Zenon DEF RankQueue, NullsSoon
  <2>3. e.ts \in Nat /\ NullPeriod(n, s, e.peer) \in Nat
    BY <1>1, <2>2, QueueElements, PeriodFacts, Zenon
  <2> QED
    BY <1>1, <2>2, <2>3
<1> QED
  BY <1>1, <1>2, <1>3, <1>4, Zenon

(* stop2 tells whether Stop ran after the event h. *)
StopKept(stop, stop2, h) == stop2 = FALSE => stop = FALSE /\ h.kind # "stop"

(* An event other than a null message event. *)
LEMMA RankPop ==
    ASSUME NEW n \in Networks, NEW s, NEW q, NEW t \in Nat, NEW stop, NEW init,
           RankQueue(n, s, q, t, stop, init), q # <<>>, Head(q).kind # "null",
           NEW stop2, StopKept(stop, stop2, Head(q))
    PROVE  RankQueue(n, s, Tail(q), Head(q).ts, stop2, init)
<1>1. /\ Range(q) = Range(Tail(q)) \union {Head(q)} /\ Queue(Tail(q), Head(q).ts)
      /\ stop2 = FALSE => HasStop(Tail(q))
      /\ OwnDevices(n, s, Tail(q)) /\ NullsSoon(n, s, Tail(q), Head(q).ts, init)
  BY RankTail, Zenon DEF StopKept
<1>2. NullsThere(n, s, Tail(q), init)
  BY <1>1, Zenon DEF RankQueue, NullsThere, IsNull
<1> QED
  BY <1>1, <1>2, Zenon DEF RankQueue

(* A null message event: it comes back after a period. *)
LEMMA RankNull ==
    ASSUME NEW n \in Networks, NEW s, NEW q, NEW t \in Nat, NEW stop, NEW init, NEW k,
           RankQueue(n, s, q, t, stop, init), q # <<>>, IsNull(Head(q), k),
           NEW m \in EventType, IsNull(m, k), m.ts = Head(q).ts + NullPeriod(n, s, k)
    PROVE  /\ RankQueue(n, s, InsertEvent(Tail(q), m), Head(q).ts, stop, init)
           /\ Range(InsertEvent(Tail(q), m)) = Range(Tail(q)) \union {m}
<1>0. "null" # "stop" /\ "null" # "complete"
  OBVIOUS
<1>1. /\ Range(q) = Range(Tail(q)) \union {Head(q)} /\ Queue(Tail(q), Head(q).ts)
      /\ Head(q).ts \in Nat
      /\ stop = FALSE => HasStop(Tail(q))
      /\ OwnDevices(n, s, Tail(q)) /\ NullsSoon(n, s, Tail(q), Head(q).ts, init)
  BY <1>0, RankTail, Zenon DEF IsNull
<1>2. \A e \in Range(Tail(q)) : ~IsNull(e, k)
  BY QueueTail, Zenon DEF IsNull, RankQueue
<1>3. k \in Neighbours(n, s) \ init
  BY <1>1, Zenon DEF RankQueue, NullsSoon, IsNull
<1>4. m.ts >= Head(q).ts /\ m.ts <= Head(q).ts + NullPeriod(n, s, k)
  BY <1>1, <1>3, PeriodFacts
<1>5. PICK r : r = InsertEvent(Tail(q), m) /\ Queue(r, Head(q).ts) /\ Range(r) = Range(Tail(q)) \union {m}
  <2>1. \A e \in Range(Tail(q)) : ~IsNull(e, m.peer)
    BY <1>2, Zenon DEF IsNull
  <2>2. /\ Queue(InsertEvent(Tail(q), m), Head(q).ts)
        /\ Range(InsertEvent(Tail(q), m)) = Range(Tail(q)) \union {m}
    BY <1>1, <1>4, <2>1, QueueInsert
  <2> QED
    BY <2>2, Zenon
<1>6. stop = FALSE => HasStop(r)
  BY <1>1, <1>5, Zenon DEF HasStop
<1>7. OwnDevices(n, s, r)
  BY <1>0, <1>1, <1>5, Zenon DEF OwnDevices, IsNull
<1>8. NullsSoon(n, s, r, Head(q).ts, init)
  BY <1>1, <1>3, <1>4, <1>5, Zenon DEF NullsSoon, IsNull
<1>9. NullsThere(n, s, r, init)
  <2> SUFFICES ASSUME NEW j \in Neighbours(n, s) \ init PROVE \E e \in Range(r) : IsNull(e, j)
    BY Zenon DEF NullsThere
  <2>1. CASE j = k
    BY <1>5, <2>1, Zenon
  <2>2. CASE j # k
    <3>1. PICK e \in Range(q) : IsNull(e, j)
      BY Zenon DEF RankQueue, NullsThere
    <3>2. e # Head(q)
      BY <2>2, <3>1, Zenon DEF IsNull
    <3> QED
      BY <1>1, <1>5, <3>1, <3>2, Zenon
  <2> QED
    BY <2>1, <2>2
<1> QED
  BY <1>5, <1>6, <1>7, <1>8, <1>9, Zenon DEF RankQueue

(* The start of a transmission. *)
LEMMA RankTransmit ==
    ASSUME NEW n \in Networks, NEW s, NEW q, NEW t \in Nat, NEW stop, NEW init, NEW d \in n.devices,
           RankQueue(n, s, q, t, stop, init), n.from[d] = s, n.to[d] \notin init,
           NEW c \in EventType, c.kind = "complete", c.peer = d, c.ts >= t,
           NEW m \in EventType, IsNull(m, n.to[d]), m.ts = t + NullPeriod(n, s, n.to[d])
    PROVE  /\ RankQueue(n, s, Transmitted(q, c, m, n.to[d]), t, stop, init)
           /\ PutOff(Range(Transmitted(q, c, m, n.to[d])), Range(q), c, m, n.to[d])
           /\ Earliest(q, c, Head(InsertEvent(q, c)).ts)
           /\ Head(InsertEvent(q, c)).ts >= t
<1> DEFINE k == n.to[d]
<1>0. /\ "complete" # "null" /\ "cancelled" # "null" /\ "null" # "stop"
      /\ "complete" # "cancelled" /\ "null" # "complete"
  OBVIOUS
<1>1. k \in Neighbours(n, s) \ init /\ NullPeriod(n, s, k) \in Nat
  BY DeviceFacts, PeriodFacts
<1>2. m.ts >= t /\ m.ts <= t + NullPeriod(n, s, k)
  BY <1>1
<1>3. PICK r : /\ r = Transmitted(q, c, m, k) /\ Queue(r, t)
               /\ PutOff(Range(r), Range(q), c, m, k)
               /\ Earliest(q, c, Head(InsertEvent(q, c)).ts)
               /\ Head(InsertEvent(q, c)).ts >= t
  BY <1>2, QueueTransmit, Zenon DEF RankQueue
<1>4. m.kind = "null" /\ m.peer = k
  BY Zenon DEF IsNull
<1> HIDE DEF k
<1>5. \A x \in Range(r) : \/ x = c \/ x = m
                          \/ x \in Range(q) /\ ~IsNull(x, k)
                          \/ x.kind = "cancelled"
  BY <1>3, Zenon DEF PutOff
<1>6. m \in Range(r) /\ \A x \in Range(q) : ~IsNull(x, k) => x \in Range(r)
  BY <1>3, Zenon DEF PutOff
<1>7. stop = FALSE => HasStop(r)
  <2>1. \A x : x.kind = "stop" => ~IsNull(x, k)
    BY <1>0, Zenon DEF IsNull
  <2> QED
    BY <1>6, <2>1, Zenon DEF RankQueue, HasStop
<1>8. OwnDevices(n, s, r)
  <2>1. ASSUME NEW x \in Range(r), x.kind = "complete" PROVE x = c \/ x \in Range(q)
    BY <1>0, <1>4, <1>5, <2>1, Zenon
  <2> QED
    BY <2>1, Zenon DEF RankQueue, OwnDevices
<1>9. NullsSoon(n, s, r, t, init)
  <2>1. ASSUME NEW x \in Range(r), x.kind = "null" PROVE x = m \/ x \in Range(q)
    BY <1>0, <1>5, <2>1, Zenon
  <2> QED
    BY <1>1, <1>2, <1>4, <2>1, Zenon DEF RankQueue, NullsSoon
<1>10. NullsThere(n, s, r, init)
  <2> SUFFICES ASSUME NEW j \in Neighbours(n, s) \ init PROVE \E e \in Range(r) : IsNull(e, j)
    BY Zenon DEF NullsThere
  <2>1. CASE j = k
    BY <1>4, <1>6, <2>1, Zenon DEF IsNull
  <2>2. CASE j # k
    <3>1. PICK e \in Range(q) : IsNull(e, j)
      BY Zenon DEF RankQueue, NullsThere
    <3>2. ~IsNull(e, k)
      BY <2>2, <3>1, Zenon DEF IsNull
    <3> QED
      BY <1>6, <3>1, <3>2, Zenon
  <2> QED
    BY <2>1, <2>2
<1>11. RankQueue(n, s, r, t, stop, init)
  BY <1>3, <1>7, <1>8, <1>9, <1>10, Zenon DEF RankQueue
<1> QED
  BY <1>3, <1>11, Zenon DEF k

(* The first null message event of a bundle. *)
LEMMA RankInitialize ==
    ASSUME NEW n \in Networks, NEW s, NEW q, NEW t \in Nat, NEW stop, NEW init, NEW k \in init,
           RankQueue(n, s, q, t, stop, init), k \in Neighbours(n, s),
           NEW m \in EventType, IsNull(m, k), m.ts = t + NullPeriod(n, s, k)
    PROVE  /\ RankQueue(n, s, InsertEvent(q, m), t, stop, init \ {k})
           /\ Range(InsertEvent(q, m)) = Range(q) \union {m}
<1>0. "null" # "complete"
  OBVIOUS
<1>1. m.kind = "null" /\ m.peer = k
  BY Zenon DEF IsNull
<1>2. m.ts >= t /\ m.ts <= t + NullPeriod(n, s, k)
  BY PeriodFacts
<1>3. \A e \in Range(q) : ~IsNull(e, m.peer)
  BY <1>1, Zenon DEF RankQueue, NullsSoon, IsNull
<1>4. PICK r : r = InsertEvent(q, m) /\ Queue(r, t) /\ Range(r) = Range(q) \union {m}
  <2>1. Queue(InsertEvent(q, m), t) /\ Range(InsertEvent(q, m)) = Range(q) \union {m}
    BY <1>2, <1>3, QueueInsert DEF RankQueue
  <2> QED
    BY <2>1, Zenon
<1>5. stop = FALSE => HasStop(r)
  BY <1>4, Zenon DEF RankQueue, HasStop
<1>6. OwnDevices(n, s, r)
  BY <1>0, <1>1, <1>4, Zenon DEF RankQueue, OwnDevices
<1>7. NullsSoon(n, s, r, t, init \ {k})
  BY <1>1, <1>2, <1>4, Zenon DEF RankQueue, NullsSoon
<1>8. NullsThere(n, s, r, init \ {k})
  <2> SUFFICES ASSUME NEW j \in Neighbours(n, s) \ (init \ {k}) PROVE \E e \in Range(r) : IsNull(e, j)
    BY Zenon DEF NullsThere
  <2>1. CASE j = k
    BY <1>4, <2>1, Zenon
  <2>2. CASE j # k
    BY <1>4, <2>2, Zenon DEF RankQueue, NullsThere
  <2> QED
    BY <2>1, <2>2
<1> QED
  BY <1>4, <1>5, <1>6, <1>7, <1>8, Zenon DEF RankQueue

-----------------------------------------------------------------------------
(* What stands behind a guarantee g that rank s gave on its link d to rank  *)
(* k.  The next packet on d leaves in a user event, when the device is idle *)
(* (then every event but the null messages for k is at g less the delay, or *)
(* later), or when the transmission under way completes.  A guarantee given *)
(* with a packet may be later than the other events, as long as the device  *)
(* is busy; it is then no later than the next null message for k.           *)

(* Here q, t, p, b and safe are the queue, the time, the state, the device  *)
(* being busy and the safe time of the sender.                              *)
Beyond(delay, k, g, q, t, p) ==
    /\ \A e \in Range(q) : ~IsNull(e, k) => g <= delay + e.ts
    /\ p = "handler" => g <= delay + t

UpToNull(delay, k, g, q) == \A e \in Range(q) : IsNull(e, k) => g <= delay + e.ts

UpToComplete(delay, d, g, q) ==
    \A e \in Range(q) : e.kind = "complete" /\ e.peer = d => g <= delay + e.ts

Backed(n, d, g, q, t, p, b, safe) ==
    /\ g <= n.delay[d] + safe
    /\ UpToComplete(n.delay[d], d, g, q)
    /\ \/ Beyond(n.delay[d], n.to[d], g, q, t, p)
       \/ b = TRUE /\ UpToNull(n.delay[d], n.to[d], g, q)

(* The safe time goes forward, or a handler returns. *)
LEMMA BackedLater ==
    ASSUME NEW n \in Networks, NEW d \in n.devices, NEW g \in Nat, NEW q, NEW t, NEW p, NEW b,
           NEW safe \in Nat, Backed(n, d, g, q, t, p, b, safe),
           NEW safe2 \in Nat, safe2 >= safe, NEW p2, p2 = "handler" => p = "handler"
    PROVE  Backed(n, d, g, q, t, p2, b, safe2)
<1>1. g <= n.delay[d] + safe2
  <2>1. g <= n.delay[d] + safe /\ n.delay[d] \in Nat
    BY DeviceFacts, Zenon DEF Backed
  <2> QED
    BY <2>1
<1> QED
  BY <1>1, Zenon DEF Backed, Beyond

(* An event that is neither the null message of the bundle nor the end of   *)
(* a transmission on the link is added: by a handler, or not before the     *)
(* safe time.                                                               *)
LEMMA BackedInsert ==
    ASSUME NEW n \in Networks, NEW d \in n.devices, NEW g \in Nat, NEW q, NEW t \in Nat, NEW p, NEW b,
           NEW safe \in Nat, Backed(n, d, g, q, t, p, b, safe),
           NEW q2, NEW ev \in EventType, Range(q2) = Range(q) \union {ev},
           ~IsNull(ev, n.to[d]), ~(ev.kind = "complete" /\ ev.peer = d),
           (p = "handler" /\ ev.ts >= t) \/ ev.ts >= safe
    PROVE  Backed(n, d, g, q2, t, p, b, safe)
<1>1. n.delay[d] \in Nat /\ ev.ts \in Nat
  BY DeviceFacts, EventTimes
<1>2. UpToComplete(n.delay[d], d, g, q2)
  BY Zenon DEF Backed, UpToComplete
<1>3. CASE Beyond(n.delay[d], n.to[d], g, q, t, p)
  <2>1. g <= n.delay[d] + ev.ts
    <3>1. g <= n.delay[d] + safe /\ (p = "handler" => g <= n.delay[d] + t)
      BY <1>3, Zenon DEF Backed, Beyond
    <3> QED
      BY <1>1, <3>1
  <2>2. Beyond(n.delay[d], n.to[d], g, q2, t, p)
    BY <1>3, <2>1, Zenon DEF Beyond
  <2> QED
    BY <1>2, <2>2, Zenon DEF Backed
<1>4. CASE b = TRUE /\ UpToNull(n.delay[d], n.to[d], g, q)
  <2>1. UpToNull(n.delay[d], n.to[d], g, q2)
    BY <1>4, Zenon DEF UpToNull
  <2> QED
    BY <1>2, <1>4, <2>1, Zenon DEF Backed
<1> QED
  BY <1>3, <1>4, Zenon DEF Backed

(* The first event is taken off; its time becomes the time of the rank. *)
LEMMA BackedPop ==
    ASSUME NEW n \in Networks, NEW d \in n.devices, NEW g \in Nat, NEW q, NEW t, NEW p, NEW b,
           NEW safe \in Nat, Backed(n, d, g, q, t, p, b, safe),
           Head(q) \in Range(q), Range(Tail(q)) \subseteq Range(q), ~IsNull(Head(q), n.to[d]),
           NEW p2
    PROVE  Backed(n, d, g, Tail(q), Head(q).ts, p2, b, safe)
<1>1. UpToComplete(n.delay[d], d, g, Tail(q))
  BY Zenon DEF Backed, UpToComplete
<1>2. CASE Beyond(n.delay[d], n.to[d], g, q, t, p)
  <2>1. Beyond(n.delay[d], n.to[d], g, Tail(q), Head(q).ts, p2)
    BY <1>2, Zenon DEF Beyond
  <2> QED
    BY <1>1, <2>1, Zenon DEF Backed
<1>3. CASE b = TRUE /\ UpToNull(n.delay[d], n.to[d], g, q)
  <2>1. UpToNull(n.delay[d], n.to[d], g, Tail(q))
    BY <1>3, Zenon DEF UpToNull
  <2> QED
    BY <1>1, <1>3, <2>1, Zenon DEF Backed
<1> QED
  BY <1>2, <1>3, Zenon DEF Backed

(* The transmission on the link completes, and nothing waits for it. *)
LEMMA BackedIdle ==
    ASSUME NEW n \in Networks, NEW d \in n.devices, NEW g \in Nat, NEW q, NEW t \in Nat, NEW p, NEW b,
           NEW safe \in Nat, Backed(n, d, g, q, t, p, b, safe), Queue(q, t), q # <<>>,
           Head(q).kind = "complete", Head(q).peer = d, NEW b2
    PROVE  /\ g <= n.delay[d] + Head(q).ts
           /\ Backed(n, d, g, Tail(q), Head(q).ts, "receive", b2, safe)
<1>1. /\ Head(q).ts \in Nat /\ Head(q) \in Range(q) /\ Range(q) = Range(Tail(q)) \union {Head(q)}
      /\ \A e \in Range(q) : e.ts >= Head(q).ts
  BY QueueTail, Zenon
<1>2. \A e \in Range(q) : e.ts \in Nat
  BY QueueElements, Zenon
<1>3. g <= n.delay[d] + Head(q).ts
  BY <1>1, Zenon DEF Backed, UpToComplete
<1>4. \A e \in Range(Tail(q)) : g <= n.delay[d] + e.ts
  <2>1. \A x, y, z \in Nat : g <= x + y /\ z >= y => g <= x + z
    OBVIOUS
  <2>2. n.delay[d] \in Nat
    BY DeviceFacts, Zenon
  <2> QED
    BY <1>1, <1>2, <1>3, <2>1, <2>2, Zenon
<1>5. "receive" # "handler"
  OBVIOUS
<1>6. Beyond(n.delay[d], n.to[d], g, Tail(q), Head(q).ts, "receive")
  BY <1>4, <1>5, Zenon DEF Beyond
<1>7. UpToComplete(n.delay[d], d, g, Tail(q))
  BY <1>4, Zenon DEF UpToComplete
<1> QED
  BY <1>3, <1>6, <1>7, Zenon DEF Backed

(* A transmission on another link, to another rank, starts. *)
LEMMA BackedElsewhere ==
    ASSUME NEW n \in Networks, NEW d \in n.devices, NEW g \in Nat, NEW q, NEW t \in Nat, NEW b,
           NEW safe, Backed(n, d, g, q, t, "handler", b, safe),
           NEW q2, NEW k, k # n.to[d],
           NEW c \in EventType, c.kind = "complete", c.peer # d, c.ts >= t,
           NEW m \in EventType, IsNull(m, k), m.ts >= t,
           PutOff(Range(q2), Range(q), c, m, k)
    PROVE  Backed(n, d, g, q2, t, "handler", b, safe)
<1>0. /\ "complete" # "null" /\ "cancelled" # "null" /\ "cancelled" # "complete"
  OBVIOUS
<1>1. n.delay[d] \in Nat /\ c.ts \in Nat /\ m.ts \in Nat
  BY DeviceFacts, EventTimes
<1>2. ~IsNull(c, n.to[d]) /\ ~IsNull(m, n.to[d]) /\ m.kind # "complete"
  BY <1>0, Zenon DEF IsNull
<1>3. UpToComplete(n.delay[d], d, g, q2)
  <2>1. ASSUME NEW x \in Range(q2), x.kind = "complete", x.peer = d PROVE x \in Range(q)
    BY <1>0, <1>2, <2>1, Zenon DEF PutOff
  <2> QED
    BY <2>1, Zenon DEF Backed, UpToComplete
<1>4. CASE Beyond(n.delay[d], n.to[d], g, q, t, "handler")
  <2>1. g <= n.delay[d] + t
    BY <1>4, Zenon DEF Beyond
  <2>2. g <= n.delay[d] + c.ts /\ g <= n.delay[d] + m.ts
    BY <1>1, <2>1
  <2>3. ASSUME NEW x \in Range(q2), ~IsNull(x, n.to[d]) PROVE g <= n.delay[d] + x.ts
    <3>1. CASE x = c \/ x = m
      BY <2>2, <3>1, Zenon
    <3>2. CASE x \in Range(q)
      BY <1>4, <2>3, <3>2, Zenon DEF Beyond
    <3>3. CASE \E y \in Range(q) : IsNull(y, k) /\ x.ts = y.ts
      <4>1. PICK y \in Range(q) : IsNull(y, k) /\ x.ts = y.ts
        BY <3>3, Zenon
      <4>2. ~IsNull(y, n.to[d])
        BY <4>1, Zenon DEF IsNull
      <4>3. g <= n.delay[d] + y.ts
        BY <1>4, <4>2, Zenon DEF Beyond
      <4> QED
        BY <4>1, <4>3, Zenon
    <3> QED
      BY <3>1, <3>2, <3>3, Zenon DEF PutOff
  <2>4. Beyond(n.delay[d], n.to[d], g, q2, t, "handler")
    BY <2>1, <2>3, Zenon DEF Beyond
  <2> QED
    BY <1>3, <2>4, Zenon DEF Backed
<1>5. CASE b = TRUE /\ UpToNull(n.delay[d], n.to[d], g, q)
  <2>1. ASSUME NEW x \in Range(q2), IsNull(x, n.to[d]) PROVE x \in Range(q)
    <3>1. x.kind # "cancelled"
      BY <1>0, <2>1, Zenon DEF IsNull
    <3> QED
      BY <1>2, <2>1, <3>1, Zenon DEF PutOff
  <2>2. UpToNull(n.delay[d], n.to[d], g, q2)
    BY <1>5, <2>1, Zenon DEF UpToNull
  <2> QED
    BY <1>3, <1>5, <2>2, Zenon DEF Backed
<1> QED
  BY <1>4, <1>5, Zenon DEF Backed

LEMMA SumLater ==
    ASSUME NEW a \in Nat, NEW b \in Nat, NEW g, g = a + b
    PROVE  g \in Nat /\ \A x \in Nat : x >= a => g <= b + x
OBVIOUS

LEMMA MinTwo ==
    ASSUME NEW a \in Nat, NEW b \in Nat
    PROVE  Min({a, b}) \in Nat /\ Min({a, b}) <= a /\ Min({a, b}) <= b /\ Min({a, b}) \in {a, b}
<1>1. {a, b} \in SUBSET Nat /\ {a, b} # {}
  OBVIOUS
<1>2. Min({a, b}) \in {a, b} /\ \A x \in {a, b} : Min({a, b}) <= x
  BY <1>1, MinNat, Zenon
<1> QED
  BY <1>2

(* The guarantee g takes the place of old. *)
Renewed(n, d, old, g, q, t, p, b, safe) ==
    g \in Nat /\ old <= g /\ Backed(n, d, g, q, t, p, b, safe)

(* The guarantee sent with a packet. *)
LEMMA BackedTransmit ==
    ASSUME NEW n \in Networks, NEW d \in n.devices, NEW q, NEW t \in Nat, Queue(q, t),
           NEW p, NEW safe \in Nat, NEW q2,
           NEW c \in EventType, c.kind = "complete",
           NEW m \in EventType, IsNull(m, n.to[d]),
           PutOff(Range(q2), Range(q), c, m, n.to[d]),
           NEW y \in Range(q), y.ts <= m.ts,
           NEW ts, Earliest(q, c, ts), ts >= t,
           NEW g, g = Min({ts, safe}) + n.delay[d],
           NEW old \in Nat, old <= n.delay[d] + t, old <= n.delay[d] + safe, NEW b, b = TRUE
    PROVE  Renewed(n, d, old, g, q2, t, p, b, safe)
<1>0. "complete" # "null" /\ "cancelled" # "null" /\ "cancelled" # "complete"
  OBVIOUS
<1>1. n.delay[d] \in Nat /\ c.ts \in Nat /\ m.ts \in Nat /\ ts \in Nat
  BY DeviceFacts, EventTimes DEF Earliest
<1>2. PICK low \in Nat : low = Min({ts, safe}) /\ low <= ts /\ low <= safe /\ low \in {ts, safe}
  BY <1>1, MinTwo
<1>3. g \in Nat /\ g = low + n.delay[d]
  BY <1>1, <1>2
<1>4. \A x \in Nat : x >= low => g <= n.delay[d] + x
  BY <1>1, <1>3
<1>5. \A e \in Range(q) \union {c} : e.ts \in Nat /\ e.ts >= low
  <2>1. \A e \in Range(q) \union {c} : e.ts \in Nat /\ ts <= e.ts
    BY <1>1, QueueElements, Zenon DEF Earliest
  <2> QED
    BY <1>1, <1>2, <2>1
<1>6. \A e \in Range(q) \union {c} : g <= n.delay[d] + e.ts
  BY <1>4, <1>5, Zenon
<1>7. m.kind # "complete"
  BY <1>0, Zenon DEF IsNull
<1>8. UpToComplete(n.delay[d], d, g, q2)
  <2>1. ASSUME NEW x \in Range(q2), x.kind = "complete" PROVE x \in Range(q) \union {c}
    BY <1>0, <1>7, <2>1, Zenon DEF PutOff
  <2> QED
    BY <1>6, <2>1, Zenon DEF UpToComplete
<1>9. g <= n.delay[d] + m.ts
  <2>1. y.ts \in Nat /\ y.ts >= low
    BY <1>5, Zenon
  <2> QED
    BY <1>1, <1>3, <2>1
<1>10. UpToNull(n.delay[d], n.to[d], g, q2)
  <2>1. ASSUME NEW x \in Range(q2), IsNull(x, n.to[d]) PROVE x = m
    <3>1. x.kind # "cancelled" /\ x # c
      BY <1>0, <2>1, Zenon DEF IsNull
    <3> QED
      BY <2>1, <3>1, Zenon DEF PutOff
  <2> QED
    BY <1>9, <2>1, Zenon DEF UpToNull
<1>11. g <= n.delay[d] + safe
  BY <1>2, <1>4, Zenon
<1>12. old <= g
  BY <1>1, <1>2, <1>3
<1> QED
  BY <1>3, <1>8, <1>10, <1>11, <1>12, Zenon DEF Backed, Renewed

(* The guarantee of a null message: h is its event, and rest is the queue   *)
(* without it, with f as its first event.                                   *)
After(rest, h, f, k) ==
    \A e \in Range(rest) : e.ts \in Nat /\ e.ts >= h.ts /\ e.ts >= f.ts /\ ~IsNull(e, k)

LEMMA BackedNull ==
    ASSUME NEW n \in Networks, NEW d \in n.devices, NEW q, NEW t, NEW p, NEW b,
           NEW old \in Nat, NEW safe \in Nat, Backed(n, d, old, q, t, p, b, safe),
           NEW h \in Range(q), IsNull(h, n.to[d]), h.ts \in Nat,
           NEW rest, Range(rest) \subseteq Range(q), NEW f \in Range(rest),
           After(rest, h, f, n.to[d]),
           NEW m \in EventType, IsNull(m, n.to[d]),
           NEW q2, Range(q2) = Range(rest) \union {m}, NEW t2,
           NEW g, g = Min({f.ts, safe}) + n.delay[d]
    PROVE  Renewed(n, d, old, g, q2, t2, "receive", b, safe)
<1>0. "null" # "complete" /\ "receive" # "handler"
  OBVIOUS
<1>1. n.delay[d] \in Nat
  BY DeviceFacts, Zenon
<1> USE DEF After
<1>2. PICK ts \in Nat : ts = f.ts /\ g = Min({ts, safe}) + n.delay[d]
  BY Zenon
<1>3. PICK low \in Nat : low = Min({ts, safe}) /\ low <= ts /\ low <= safe /\ low \in {ts, safe}
  BY MinTwo
<1>4. g = low + n.delay[d]
  BY <1>2, <1>3, Zenon
<1>5. g \in Nat /\ \A x \in Nat : x >= low => g <= n.delay[d] + x
  BY <1>1, <1>4, SumLater, Zenon
<1>6. \A e \in Range(rest) : g <= n.delay[d] + e.ts
  <2>1. \A x \in Nat : x >= ts => x >= low
    BY <1>3
  <2> QED
    BY <1>2, <1>5, <2>1, Zenon
<1>7. old <= g
  <2>1. old <= n.delay[d] + safe
    BY Zenon DEF Backed
  <2>2. old <= n.delay[d] + f.ts
    <3>1. CASE Beyond(n.delay[d], n.to[d], old, q, t, p)
      BY <3>1, Zenon DEF Beyond
    <3>2. CASE UpToNull(n.delay[d], n.to[d], old, q)
      <4>1. old <= n.delay[d] + h.ts
        BY <3>2, Zenon DEF UpToNull
      <4>2. f.ts >= h.ts /\ f.ts \in Nat
        BY Zenon
      <4> QED
        BY <1>1, <4>1, <4>2
    <3> QED
      BY <3>1, <3>2, Zenon DEF Backed
  <2>3. old <= n.delay[d] + ts
    BY <1>2, <2>2, Zenon
  <2> QED
    BY <1>1, <1>3, <1>4, <2>1, <2>3
<1>8. Beyond(n.delay[d], n.to[d], g, q2, t2, "receive")
  BY <1>0, <1>6, Zenon DEF Beyond
<1>9. UpToComplete(n.delay[d], d, g, q2)
  BY <1>0, <1>6, Zenon DEF UpToComplete, IsNull
<1>10. g <= n.delay[d] + safe
  BY <1>3, <1>5, Zenon
<1> QED
  BY <1>5, <1>7, <1>8, <1>9, <1>10, Zenon DEF Backed, Renewed

-----------------------------------------------------------------------------
(* The messages ms from a rank to another that holds the guarantee g. *)

InOrder(g, ms) ==
    /\ \A i \in DOMAIN ms : g <= ms[i].guarantee /\ (ms[i].rx > 0 => ms[i].rx >= g)
    /\ \A i, j \in DOMAIN ms :
         i < j => /\ ms[i].guarantee <= ms[j].guarantee
                  /\ ms[j].rx > 0 => ms[j].rx >= ms[i].guarantee

(* The last guarantee the sender gave. *)
Latest(g, ms) == IF ms = <<>> THEN g ELSE ms[Len(ms)].guarantee

LEMMA LatestFacts ==
    ASSUME NEW g \in Nat, NEW ms \in Seq(MsgType), InOrder(g, ms)
    PROVE  /\ Latest(g, ms) \in Nat /\ g <= Latest(g, ms)
           /\ \A i \in DOMAIN ms : ms[i].guarantee \in Nat /\ ms[i].rx \in Nat
                                   /\ ms[i].guarantee <= Latest(g, ms)
<1>1. DOMAIN ms = 1..Len(ms) /\ Len(ms) \in Nat
      /\ \A i \in DOMAIN ms : ms[i].guarantee \in Nat /\ ms[i].rx \in Nat
  <2>1. DOMAIN ms = 1..Len(ms) /\ Len(ms) \in Nat /\ \A i \in DOMAIN ms : ms[i] \in MsgType
    OBVIOUS
  <2>2. \A msg \in MsgType : msg.guarantee \in Nat /\ msg.rx \in Nat
    BY DEF MsgType
  <2> QED
    BY <2>1, <2>2, Zenon
<1>2. CASE ms = <<>>
  <2>1. DOMAIN ms = {} /\ g <= g
    BY <1>1, <1>2
  <2>2. Latest(g, ms) = g
    BY <1>2, Zenon DEF Latest
  <2> QED
    BY <2>1, <2>2
<1>3. CASE ms # <<>>
  <2>1. Len(ms) \in DOMAIN ms /\ Latest(g, ms) = ms[Len(ms)].guarantee
    BY <1>1, <1>3 DEF Latest
  <2>2. g <= Latest(g, ms)
    BY <2>1, Zenon DEF InOrder
  <2>3. ASSUME NEW i \in DOMAIN ms PROVE ms[i].guarantee <= Latest(g, ms)
    <3>1. CASE i = Len(ms)
      BY <1>1, <2>1, <3>1
    <3>2. CASE i # Len(ms)
      <4>1. i < Len(ms)
        BY <1>1, <3>2
      <4> QED
        BY <2>1, <4>1, Zenon DEF InOrder
    <3> QED
      BY <3>1, <3>2
  <2> QED
    BY <1>1, <2>1, <2>2, <2>3, Zenon
<1> QED
  BY <1>2, <1>3

(* A message is sent. *)
LEMMA OrderAppend ==
    ASSUME NEW g \in Nat, NEW ms \in Seq(MsgType), InOrder(g, ms), NEW msg \in MsgType,
           Latest(g, ms) <= msg.guarantee, msg.rx > 0 => msg.rx >= Latest(g, ms)
    PROVE  /\ Append(ms, msg) \in Seq(MsgType) /\ InOrder(g, Append(ms, msg))
           /\ Latest(g, Append(ms, msg)) = msg.guarantee
<1>1. PICK a \in Seq(MsgType) : /\ a = Append(ms, msg) /\ DOMAIN a = 1..Len(ms)+1 /\ Len(a) = Len(ms)+1
                                /\ \A i \in 1..Len(ms) : a[i] = ms[i]
                                /\ a[Len(ms)+1] = msg
  <2>1. /\ Append(ms, msg) \in Seq(MsgType) /\ Len(Append(ms, msg)) = Len(ms)+1
        /\ \A i \in 1..Len(ms) : Append(ms, msg)[i] = ms[i]
        /\ Append(ms, msg)[Len(ms)+1] = msg
    OBVIOUS
  <2>2. DOMAIN Append(ms, msg) = 1..Len(Append(ms, msg))
    BY <2>1
  <2> QED
    BY <2>1, <2>2, Zenon
<1>2. DOMAIN ms = 1..Len(ms) /\ Len(ms) \in Nat /\ msg.rx \in Nat /\ msg.guarantee \in Nat
  BY DEF MsgType
<1>3. /\ Latest(g, ms) \in Nat /\ g <= Latest(g, ms)
      /\ \A i \in 1..Len(ms) : ms[i].guarantee \in Nat /\ ms[i].rx \in Nat
                               /\ ms[i].guarantee <= Latest(g, ms)
  BY <1>2, LatestFacts, Zenon
<1>4. \A i \in 1..Len(ms) : ms[i].guarantee <= msg.guarantee /\ (msg.rx > 0 => msg.rx >= ms[i].guarantee)
  BY <1>2, <1>3
<1>5. g <= msg.guarantee /\ (msg.rx > 0 => msg.rx >= g)
  BY <1>2, <1>3
<1>6. \A i \in 1..Len(ms)+1 : i \in 1..Len(ms) \/ i = Len(ms)+1
  BY <1>2
<1>7. ASSUME NEW i \in DOMAIN a PROVE g <= a[i].guarantee /\ (a[i].rx > 0 => a[i].rx >= g)
  BY <1>1, <1>2, <1>5, <1>6, Zenon DEF InOrder
<1>8. ASSUME NEW i \in DOMAIN a, NEW j \in DOMAIN a, i < j
      PROVE  /\ a[i].guarantee <= a[j].guarantee
             /\ a[j].rx > 0 => a[j].rx >= a[i].guarantee
  <2>1. i \in 1..Len(ms)
    BY <1>1, <1>2, <1>8
  <2>2. CASE j \in 1..Len(ms)
    BY <1>1, <1>2, <1>8, <2>1, <2>2, Zenon DEF InOrder
  <2>3. CASE j = Len(ms)+1
    BY <1>1, <1>4, <2>1, <2>3, Zenon
  <2> QED
    BY <1>1, <1>6, <2>2, <2>3, Zenon
<1>9. InOrder(g, a)
  BY <1>7, <1>8, Zenon DEF InOrder
<1>10. Latest(g, a) = msg.guarantee
  <2>1. a # <<>>
    BY <1>1, <1>2
  <2> QED
    BY <1>1, <2>1, Zenon DEF Latest
<1> QED
  BY <1>1, <1>9, <1>10, Zenon

(* A message is received. *)
LEMMA OrderTail ==
    ASSUME NEW g \in Nat, NEW ms \in Seq(MsgType), InOrder(g, ms), ms # <<>>
    PROVE  /\ Head(ms) \in MsgType /\ Tail(ms) \in Seq(MsgType)
           /\ Head(ms).guarantee \in Nat /\ Head(ms).rx \in Nat
           /\ g <= Head(ms).guarantee /\ (Head(ms).rx > 0 => Head(ms).rx >= g)
           /\ InOrder(Head(ms).guarantee, Tail(ms))
           /\ Latest(Head(ms).guarantee, Tail(ms)) = Latest(g, ms)
<1>1. PICK u \in Seq(MsgType), h \in MsgType :
        /\ u = Tail(ms) /\ h = Head(ms) /\ h = ms[1] /\ DOMAIN u = 1..Len(ms)-1 /\ Len(u) = Len(ms)-1
        /\ \A i \in 1..Len(ms)-1 : u[i] = ms[i+1]
  <2>1. /\ Head(ms) \in MsgType /\ Tail(ms) \in Seq(MsgType) /\ Len(Tail(ms)) = Len(ms)-1
        /\ \A i \in 1..Len(Tail(ms)) : Tail(ms)[i] = ms[i+1]
    OBVIOUS
  <2>2. DOMAIN Tail(ms) = 1..Len(Tail(ms)) /\ Head(ms) = ms[1]
    BY <2>1
  <2> QED
    BY <2>1, <2>2, Zenon
<1>2. DOMAIN ms = 1..Len(ms) /\ Len(ms) \in Nat /\ Len(ms) >= 1 /\ 1 \in DOMAIN ms
  OBVIOUS
<1>3. h.guarantee \in Nat /\ h.rx \in Nat
  BY DEF MsgType
<1>4. g <= h.guarantee /\ (h.rx > 0 => h.rx >= g)
  BY <1>1, <1>2, Zenon DEF InOrder
<1>5. \A i \in 1..Len(ms)-1 : i+1 \in DOMAIN ms /\ 1 < i+1
  BY <1>2
<1>6. \A i, j \in 1..Len(ms)-1 : i < j => i+1 < j+1
  BY <1>2
<1>7. InOrder(h.guarantee, u)
  <2>1. ASSUME NEW i \in DOMAIN u PROVE h.guarantee <= u[i].guarantee /\ (u[i].rx > 0 => u[i].rx >= h.guarantee)
    BY <1>1, <1>2, <1>5, Zenon DEF InOrder
  <2>2. ASSUME NEW i \in DOMAIN u, NEW j \in DOMAIN u, i < j
        PROVE  u[i].guarantee <= u[j].guarantee /\ (u[j].rx > 0 => u[j].rx >= u[i].guarantee)
    BY <1>1, <1>2, <1>5, <1>6, <2>2, Zenon DEF InOrder
  <2> QED
    BY <2>1, <2>2, Zenon DEF InOrder
<1>8. Latest(h.guarantee, u) = Latest(g, ms)
  <2>1. CASE u = <<>>
    <3>1. Len(ms) = 1
      <4>1. Len(u) = 0
        BY <2>1
      <4> QED
        BY <1>1, <1>2, <4>1
    <3>2. Latest(h.guarantee, u) = h.guarantee
      BY <2>1, Zenon DEF Latest
    <3>3. Latest(g, ms) = ms[Len(ms)].guarantee
      BY Zenon DEF Latest
    <3> QED
      BY <1>1, <3>1, <3>2, <3>3, Zenon
  <2>2. CASE u # <<>>
    <3>1. Len(u) \in 1..Len(ms)-1 /\ Len(u) + 1 = Len(ms)
      BY <1>1, <1>2, <2>2
    <3>2. u[Len(u)] = ms[Len(ms)]
      BY <1>1, <3>1, Zenon
    <3> QED
      BY <2>2, <3>2, Zenon DEF Latest
  <2> QED
    BY <2>1, <2>2
<1> QED
  BY <1>1, <1>3, <1>4, <1>7, <1>8, Zenon

-----------------------------------------------------------------------------
(* The inductive invariant, for the network n of the run. *)

Types(n) ==
    /\ network = n
    /\ DOMAIN m_events = n.ranks
    /\ m_currentTs \in [n.ranks -> Nat] /\ m_safeTime \in [n.ranks -> Nat]
    /\ m_stop \in [n.ranks -> BOOLEAN]
    /\ m_guaranteeTime \in [n.ranks -> [n.ranks -> Nat]]
    /\ DOMAIN toInit = n.ranks
    /\ net \in [n.ranks -> [n.ranks -> Seq(MsgType)]]
    /\ busy \in [n.devices -> BOOLEAN]
    /\ DOMAIN pc = n.ranks

RankInv(n, s) ==
    /\ RankQueue(n, s, m_events[s], m_currentTs[s], m_stop[s], toInit[s])
    /\ toInit[s] \subseteq Neighbours(n, s)
    /\ m_currentTs[s] <= m_safeTime[s]
    /\ \A k \in Neighbours(n, s) : m_safeTime[s] <= m_guaranteeTime[s][k]
    /\ pc[s] = "start" => m_safeTime[s] = 0
    /\ pc[s] # "start" => toInit[s] = {}

(* The last guarantee s gave to k. *)
Last(s, k) == Latest(m_guaranteeTime[k][s], net[s][k])

LinkInv(n, d) ==
    LET s == n.from[d]
    IN  Backed(n, d, Last(s, n.to[d]), m_events[s], m_currentTs[s], pc[s], busy[d], m_safeTime[s])

ChannelInv(n, s, k) ==
    /\ InOrder(m_guaranteeTime[k][s], net[s][k])
    /\ k \notin Neighbours(n, s) => net[s][k] = <<>>

Inv(n) ==
    /\ Types(n)
    /\ \A s \in n.ranks : RankInv(n, s)
    /\ \A d \in n.devices : LinkInv(n, d)
    /\ \A s, k \in n.ranks : ChannelInv(n, s, k)

NullInv == \E n \in Networks : Inv(n)

(* A step of r leaves the other ranks alone. *)
OthersKept(n, r) ==
    /\ \A s \in n.ranks \ {r} :
         /\ m_events'[s] = m_events[s] /\ m_currentTs'[s] = m_currentTs[s]
         /\ m_safeTime'[s] = m_safeTime[s] /\ m_stop'[s] = m_stop[s]
         /\ toInit'[s] = toInit[s] /\ pc'[s] = pc[s]
         /\ m_guaranteeTime'[s] = m_guaranteeTime[s]
    /\ \A d \in n.devices : n.from[d] # r => busy'[d] = busy[d]

LEMMA Assemble ==
    ASSUME NEW n \in Networks, NEW r \in n.ranks, Inv(n), Types(n)', OthersKept(n, r),
           RankInv(n, r)', \A d \in n.devices : n.from[d] = r => LinkInv(n, d)',
           \A s, k \in n.ranks : ChannelInv(n, s, k)',
           \A s, k \in n.ranks : s # r => Last(s, k)' = Last(s, k)
    PROVE  Inv(n)'
<1>1. ASSUME NEW s \in n.ranks \ {r} PROVE RankInv(n, s)'
  BY ZenonT(60) DEF Inv, RankInv, OthersKept
<1>2. ASSUME NEW d \in n.devices, n.from[d] # r PROVE LinkInv(n, d)'
  <2>1. n.from[d] \in n.ranks /\ n.to[d] \in n.ranks
    BY DeviceFacts, Zenon
  <2>2. Last(n.from[d], n.to[d])' = Last(n.from[d], n.to[d])
    BY <1>2, <2>1, Zenon
  <2> QED
    BY <1>2, <2>1, <2>2, Zenon DEF Inv, LinkInv, OthersKept
<1> QED
  BY <1>1, <1>2, Zenon DEF Inv

LEMMA LastFacts ==
    ASSUME NEW n \in Networks, Inv(n), NEW s \in n.ranks, NEW k \in n.ranks
    PROVE  /\ m_guaranteeTime[k][s] \in Nat /\ net[s][k] \in Seq(MsgType)
           /\ InOrder(m_guaranteeTime[k][s], net[s][k])
           /\ Last(s, k) \in Nat /\ m_guaranteeTime[k][s] <= Last(s, k)
<1>1. m_guaranteeTime[k][s] \in Nat /\ net[s][k] \in Seq(MsgType)
  BY DEF Inv, Types
<1>2. InOrder(m_guaranteeTime[k][s], net[s][k])
  BY Zenon DEF Inv, ChannelInv
<1> QED
  BY <1>1, <1>2, LatestFacts DEF Last

LEMMA QuietMessages ==
    ASSUME NEW n \in Networks, Inv(n), net' = net, m_guaranteeTime' = m_guaranteeTime
    PROVE  /\ \A s, k \in n.ranks : ChannelInv(n, s, k)'
           /\ \A s, k \in n.ranks : Last(s, k)' = Last(s, k)
BY Zenon DEF Inv, ChannelInv, Last

(* What a message says may follow the guarantee given before it. *)
MayFollow(last, msg) == last <= msg.guarantee /\ (msg.rx > 0 => msg.rx >= last)

Sends(r, k, msg) == net' = [net EXCEPT ![r][k] = Append(@, msg)]

(* r sends msg to k. *)
LEMMA SendMessage ==
    ASSUME NEW n \in Networks, Inv(n), NEW r \in n.ranks, NEW k \in Neighbours(n, r), NEW msg \in MsgType,
           Sends(r, k, msg), m_guaranteeTime' = m_guaranteeTime,
           MayFollow(Last(r, k), msg)
    PROVE  /\ net' \in [n.ranks -> [n.ranks -> Seq(MsgType)]]
           /\ \A s, j \in n.ranks : ChannelInv(n, s, j)'
           /\ Last(r, k)' = msg.guarantee
           /\ \A s, j \in n.ranks : s # r \/ j # k => Last(s, j)' = Last(s, j)
<1>1. k \in n.ranks
  BY NeighbourFacts
<1>2. net \in [n.ranks -> [n.ranks -> Seq(MsgType)]]
  BY Zenon DEF Inv, Types
<1>3. /\ m_guaranteeTime[k][r] \in Nat /\ net[r][k] \in Seq(MsgType)
      /\ InOrder(m_guaranteeTime[k][r], net[r][k])
  BY <1>1, LastFacts, Zenon
<1>4. /\ Append(net[r][k], msg) \in Seq(MsgType)
      /\ InOrder(m_guaranteeTime[k][r], Append(net[r][k], msg))
      /\ Latest(m_guaranteeTime[k][r], Append(net[r][k], msg)) = msg.guarantee
  BY <1>3, OrderAppend, Zenon DEF Last, MayFollow
<1>5. PICK ms \in Seq(MsgType) : ms = Append(net[r][k], msg)
  BY <1>4, Zenon
<1>6. net' = [net EXCEPT ![r] = [net[r] EXCEPT ![k] = ms]]
  BY <1>5 DEF Sends
<1>7. /\ net'[r][k] = ms
      /\ \A s, j \in n.ranks : s # r \/ j # k => net'[s][j] = net[s][j]
      /\ net' \in [n.ranks -> [n.ranks -> Seq(MsgType)]]
  BY <1>1, <1>2, <1>6
<1>8. Last(r, k)' = msg.guarantee /\ ChannelInv(n, r, k)'
  BY <1>4, <1>5, <1>7, Zenon DEF Last, ChannelInv
<1>9. ASSUME NEW s \in n.ranks, NEW j \in n.ranks, s # r \/ j # k
      PROVE  Last(s, j)' = Last(s, j) /\ ChannelInv(n, s, j)'
  <2>1. net'[s][j] = net[s][j] /\ ChannelInv(n, s, j)
    BY <1>7, <1>9, Zenon DEF Inv
  <2> QED
    BY <2>1, Zenon DEF Last, ChannelInv
<1> QED
  BY <1>7, <1>8, <1>9, Zenon

Receives(r, k) ==
    /\ net[k][r] # <<>> /\ net' = [net EXCEPT ![k][r] = Tail(@)]
    /\ m_guaranteeTime' = [m_guaranteeTime EXCEPT ![r][k] = Head(net[k][r]).guarantee]

Received(n, r, k) ==
    /\ net' \in [n.ranks -> [n.ranks -> Seq(MsgType)]]
    /\ m_guaranteeTime' \in [n.ranks -> [n.ranks -> Nat]]
    /\ \A s \in n.ranks \ {r} : m_guaranteeTime'[s] = m_guaranteeTime[s]
    /\ \A s, j \in n.ranks : m_guaranteeTime'[s][j] >= m_guaranteeTime[s][j]
    /\ \A s, j \in n.ranks : ChannelInv(n, s, j)'
    /\ \A s, j \in n.ranks : Last(s, j)' = Last(s, j)
    /\ Head(net[k][r]) \in MsgType
    /\ Head(net[k][r]).rx > 0 => Head(net[k][r]).rx >= m_guaranteeTime[r][k]

(* r receives a message from k. *)
LEMMA ReceiveMessage ==
    ASSUME NEW n \in Networks, Inv(n), NEW r \in n.ranks, NEW k \in Neighbours(n, r), Receives(r, k)
    PROVE  Received(n, r, k)
<1>0. /\ net[k][r] # <<>> /\ net' = [net EXCEPT ![k][r] = Tail(@)]
      /\ m_guaranteeTime' = [m_guaranteeTime EXCEPT ![r][k] = Head(net[k][r]).guarantee]
  BY Zenon DEF Receives
<1>1. k \in n.ranks /\ r \in Neighbours(n, k)
  BY NeighbourFacts
<1>2. net \in [n.ranks -> [n.ranks -> Seq(MsgType)]] /\ m_guaranteeTime \in [n.ranks -> [n.ranks -> Nat]]
  BY Zenon DEF Inv, Types
<1>3. /\ m_guaranteeTime[r][k] \in Nat /\ net[k][r] \in Seq(MsgType)
      /\ InOrder(m_guaranteeTime[r][k], net[k][r])
  BY <1>1, LastFacts, Zenon
<1>4. PICK ms \in Seq(MsgType), h \in MsgType :
        /\ ms = Tail(net[k][r]) /\ h = Head(net[k][r]) /\ h.guarantee \in Nat
        /\ m_guaranteeTime[r][k] <= h.guarantee /\ (h.rx > 0 => h.rx >= m_guaranteeTime[r][k])
        /\ InOrder(h.guarantee, ms) /\ Latest(h.guarantee, ms) = Latest(m_guaranteeTime[r][k], net[k][r])
  BY <1>0, <1>3, OrderTail, Zenon
<1>5. PICK g \in Nat : g = h.guarantee
  BY <1>4, Zenon
<1>6. /\ net' = [net EXCEPT ![k] = [net[k] EXCEPT ![r] = ms]]
      /\ m_guaranteeTime' = [m_guaranteeTime EXCEPT ![r] = [m_guaranteeTime[r] EXCEPT ![k] = g]]
  BY <1>0, <1>4, <1>5, Zenon
<1>7. /\ net'[k][r] = ms
      /\ \A s, j \in n.ranks : s # k \/ j # r => net'[s][j] = net[s][j]
      /\ net' \in [n.ranks -> [n.ranks -> Seq(MsgType)]]
  BY <1>1, <1>2, <1>6
<1>8. /\ m_guaranteeTime'[r][k] = g
      /\ \A s, j \in n.ranks : s # r \/ j # k => m_guaranteeTime'[s][j] = m_guaranteeTime[s][j]
      /\ m_guaranteeTime' \in [n.ranks -> [n.ranks -> Nat]]
      /\ \A s \in n.ranks \ {r} : m_guaranteeTime'[s] = m_guaranteeTime[s]
  BY <1>1, <1>2, <1>6
<1>9. \A s, j \in n.ranks : m_guaranteeTime'[s][j] >= m_guaranteeTime[s][j]
  <2>1. \A s, j \in n.ranks : m_guaranteeTime[s][j] \in Nat
    BY <1>2
  <2>2. \A x \in Nat : x >= x
    OBVIOUS
  <2>3. m_guaranteeTime'[r][k] >= m_guaranteeTime[r][k]
    BY <1>3, <1>4, <1>5, <1>8
  <2> QED
    BY <1>8, <2>1, <2>2, <2>3, Zenon
<1>10. Last(k, r)' = Last(k, r) /\ ChannelInv(n, k, r)'
  BY <1>1, <1>4, <1>5, <1>7, <1>8, Zenon DEF Last, ChannelInv
<1>11. ASSUME NEW s \in n.ranks, NEW j \in n.ranks, s # k \/ j # r
       PROVE  Last(s, j)' = Last(s, j) /\ ChannelInv(n, s, j)'
  <2>1. net'[s][j] = net[s][j] /\ m_guaranteeTime'[j][s] = m_guaranteeTime[j][s] /\ ChannelInv(n, s, j)
    BY <1>7, <1>8, <1>11, Zenon DEF Inv
  <2> QED
    BY <2>1, Zenon DEF Last, ChannelInv
<1> QED
  BY <1>4, <1>7, <1>8, <1>9, <1>10, <1>11, Zenon DEF Received

-----------------------------------------------------------------------------
(* The steps of a rank. *)

LEMMA AtLeastItself == \A x \in Nat : x >= x
OBVIOUS

LEMMA Now ==
    ASSUME NEW n \in Networks, Inv(n), NEW r \in n.ranks
    PROVE  /\ network = n /\ r \in Nat
           /\ m_currentTs[r] \in Nat /\ m_safeTime[r] \in Nat /\ m_stop[r] \in BOOLEAN
           /\ m_currentTs[r] <= m_safeTime[r]
           /\ RankQueue(n, r, m_events[r], m_currentTs[r], m_stop[r], toInit[r])
           /\ Queue(m_events[r], m_currentTs[r])
<1>1. /\ network = n
      /\ m_currentTs[r] \in Nat /\ m_safeTime[r] \in Nat /\ m_stop[r] \in BOOLEAN
  BY Zenon DEF Inv, Types
<1>2. /\ m_currentTs[r] <= m_safeTime[r]
      /\ RankQueue(n, r, m_events[r], m_currentTs[r], m_stop[r], toInit[r])
  BY Zenon DEF Inv, RankInv
<1> QED
  BY <1>1, <1>2, NeighbourFacts, Zenon DEF RankQueue

LEMMA NowLink ==
    ASSUME NEW n \in Networks, Inv(n), NEW d \in n.devices, NEW r, n.from[d] = r
    PROVE  /\ r \in n.ranks /\ n.to[d] \in n.ranks
           /\ Last(r, n.to[d]) \in Nat
           /\ Backed(n, d, Last(r, n.to[d]), m_events[r], m_currentTs[r], pc[r], busy[d], m_safeTime[r])
<1>1. r \in n.ranks /\ n.to[d] \in n.ranks
  BY DeviceFacts, Zenon
<1>2. Last(r, n.to[d]) \in Nat
  BY <1>1, LastFacts, Zenon
<1>3. Backed(n, d, Last(r, n.to[d]), m_events[r], m_currentTs[r], pc[r], busy[d], m_safeTime[r])
  BY Zenon DEF Inv, LinkInv
<1> QED
  BY <1>1, <1>2, <1>3

(* A step with no message. *)
LEMMA QuietStep ==
    ASSUME NEW n \in Networks, NEW r \in n.ranks, Inv(n), Types(n)', OthersKept(n, r), RankInv(n, r)',
           net' = net, m_guaranteeTime' = m_guaranteeTime,
           \A d \in n.devices : n.from[d] = r =>
             Backed(n, d, Last(r, n.to[d]), m_events'[r], m_currentTs'[r], pc'[r], busy'[d], m_safeTime'[r])
    PROVE  Inv(n)'
<1>1. /\ \A s, k \in n.ranks : ChannelInv(n, s, k)'
      /\ \A s, k \in n.ranks : Last(s, k)' = Last(s, k)
  BY QuietMessages, Zenon
<1>2. ASSUME NEW d \in n.devices, n.from[d] = r PROVE LinkInv(n, d)'
  <2>1. n.to[d] \in n.ranks
    BY DeviceFacts, Zenon
  <2>2. Last(r, n.to[d])' = Last(r, n.to[d])
    BY <1>1, <2>1, Zenon
  <2> QED
    BY <1>2, <2>2, Zenon DEF LinkInv
<1> QED
  BY <1>1, <1>2, Assemble, Zenon

(* Only the place in Run changes. *)
LEMMA PlaceStep ==
    ASSUME NEW n \in Networks, NEW r \in n.ranks, Inv(n), DOMAIN pc' = n.ranks,
           UNCHANGED <<network, m_events, m_currentTs, m_safeTime, m_stop, m_guaranteeTime,
                       toInit, net, busy>>,
           \A s \in n.ranks \ {r} : pc'[s] = pc[s],
           pc'[r] = "handler" => pc[r] = "handler",
           pc'[r] = "start" => pc[r] = "start",
           pc'[r] # "start" => toInit[r] = {}
    PROVE  Inv(n)'
<1>1. Types(n)' /\ OthersKept(n, r)
  BY Zenon DEF Inv, Types, OthersKept
<1>2. RankInv(n, r)'
  BY Zenon DEF Inv, RankInv
<1>3. ASSUME NEW d \in n.devices, n.from[d] = r
      PROVE  Backed(n, d, Last(r, n.to[d]), m_events'[r], m_currentTs'[r], pc'[r], busy'[d], m_safeTime'[r])
  <2>1. m_safeTime[r] \in Nat
    BY Now, Zenon
  <2>2. m_safeTime[r] >= m_safeTime[r]
    BY <2>1, AtLeastItself, Zenon
  <2>3. /\ Last(r, n.to[d]) \in Nat
        /\ Backed(n, d, Last(r, n.to[d]), m_events[r], m_currentTs[r], pc[r], busy[d], m_safeTime[r])
    BY <1>3, NowLink, Zenon
  <2>4. Backed(n, d, Last(r, n.to[d]), m_events[r], m_currentTs[r], pc'[r], busy[d], m_safeTime[r])
    BY <2>1, <2>2, <2>3, BackedLater, Zenon
  <2> QED
    BY <2>4, Zenon
<1> QED
  BY <1>1, <1>2, <1>3, QuietStep, Zenon

LEMMA PlaceSteps ==
    ASSUME NEW n \in Networks, NEW r \in n.ranks, Inv(n), RunLoop(r) \/ RunReturns(r) \/ HandlerReturns(r)
    PROVE  Inv(n)'
<1>0. DOMAIN pc = n.ranks
  BY Zenon DEF Inv, Types
<1>1. PICK v \in {"loop", "done", "receive"} : pc' = [pc EXCEPT ![r] = v]
  BY Zenon DEF RunLoop, RunReturns, HandlerReturns
<1>2. UNCHANGED <<network, m_events, m_currentTs, m_safeTime, m_stop, m_guaranteeTime, toInit, net, busy>>
  BY Zenon DEF RunLoop, RunReturns, HandlerReturns
<1>3. toInit[r] = {}
  <2>1. RunLoop(r) => toInit[r] = {}
    BY Zenon DEF RunLoop
  <2>2. RunReturns(r) \/ HandlerReturns(r) => pc[r] # "start"
    BY DEF RunReturns, HandlerReturns
  <2>3. pc[r] # "start" => toInit[r] = {}
    BY Zenon DEF Inv, RankInv
  <2> QED
    BY <2>1, <2>2, <2>3, Zenon
<1>4. DOMAIN pc' = n.ranks /\ pc'[r] = v /\ \A s \in n.ranks \ {r} : pc'[s] = pc[s]
  BY <1>0, <1>1
<1>5. v # "handler" /\ v # "start"
  OBVIOUS
<1> QED
  BY <1>2, <1>3, <1>4, <1>5, PlaceStep, Zenon

LEMMA SafeTimeFacts ==
    ASSUME NEW n \in Networks, NEW r \in n.ranks, network = n, NEW g \in [n.ranks -> Nat],
           NEW safe \in Nat, \A k \in Neighbours(n, r) : safe <= g[k]
    PROVE  /\ SafeTime(r, g) \in Nat /\ SafeTime(r, g) >= safe
           /\ \A k \in Neighbours(n, r) : SafeTime(r, g) <= g[k]
<1> DEFINE S == {g[k] : k \in Neighbours(n, r)}
<1>1. S \in SUBSET Nat /\ S # {}
  BY NeighbourFacts
<1>2. \A x \in S : safe <= x
  OBVIOUS
<1>3. SafeTime(r, g) = Min(S)
  BY SameNetwork, Zenon DEF SafeTime
<1>4. \A k \in Neighbours(n, r) : g[k] \in S
  OBVIOUS
<1> HIDE DEF S
<1>5. Min(S) \in S /\ \A x \in S : Min(S) <= x
  BY <1>1, MinNat, Zenon
<1>6. Min(S) \in Nat /\ safe <= Min(S)
  BY <1>1, <1>2, <1>5, Zenon
<1>7. Min(S) >= safe
  BY <1>6
<1> QED
  BY <1>3, <1>4, <1>5, <1>6, <1>7, Zenon

LEMMA SafeTimeStep ==
    ASSUME NEW n \in Networks, NEW r \in n.ranks, Inv(n), CalculateSafeTime(r)
    PROVE  /\ Inv(n)'
           /\ m_safeTime' \in [n.ranks -> Nat]
           /\ m_safeTime'[r] >= m_safeTime[r]
           /\ \A s \in n.ranks \ {r} : m_safeTime'[s] = m_safeTime[s]
<1>1. /\ m_guaranteeTime[r] \in [n.ranks -> Nat] /\ m_safeTime \in [n.ranks -> Nat]
      /\ DOMAIN pc = n.ranks
  BY Zenon DEF Inv, Types
<1>2. \A k \in Neighbours(n, r) : m_safeTime[r] <= m_guaranteeTime[r][k]
  BY Zenon DEF Inv, RankInv
<1>3. PICK safe \in Nat : /\ safe = SafeTime(r, m_guaranteeTime[r]) /\ safe >= m_safeTime[r]
                          /\ \A k \in Neighbours(n, r) : safe <= m_guaranteeTime[r][k]
  BY <1>1, <1>2, Now, SafeTimeFacts, Zenon
<1>4. /\ m_safeTime' = [m_safeTime EXCEPT ![r] = safe]
      /\ pc' = [pc EXCEPT ![r] = "loop"]
  BY <1>3, Zenon DEF CalculateSafeTime
<1>5. /\ pc[r] = "receive"
      /\ UNCHANGED <<network, m_events, m_currentTs, m_stop, m_guaranteeTime, toInit, net, busy>>
  BY Zenon DEF CalculateSafeTime
<1>6. /\ m_safeTime' \in [n.ranks -> Nat] /\ m_safeTime'[r] = safe
      /\ \A s \in n.ranks \ {r} : m_safeTime'[s] = m_safeTime[s]
  BY <1>1, <1>4
<1>7. DOMAIN pc' = n.ranks /\ pc'[r] = "loop" /\ \A s \in n.ranks \ {r} : pc'[s] = pc[s]
  BY <1>1, <1>4
<1>8. Types(n)' /\ OthersKept(n, r)
  BY <1>5, <1>6, <1>7, Zenon DEF Inv, Types, OthersKept
<1>9. RankInv(n, r)'
  <2>1. m_currentTs[r] \in Nat /\ m_safeTime[r] \in Nat /\ m_currentTs[r] <= m_safeTime[r]
    BY Now, Zenon
  <2>2. m_currentTs[r] <= safe
    BY <1>3, <2>1
  <2>3. toInit[r] = {} /\ pc'[r] # "start"
    <3>1. "receive" # "start" /\ "loop" # "start"
      OBVIOUS
    <3> QED
      BY <1>5, <1>7, <3>1, Zenon DEF Inv, RankInv
  <2> QED
    BY <1>3, <1>5, <1>6, <2>2, <2>3, Zenon DEF Inv, RankInv
<1>10. ASSUME NEW d \in n.devices, n.from[d] = r
       PROVE  Backed(n, d, Last(r, n.to[d]), m_events'[r], m_currentTs'[r], pc'[r], busy'[d], m_safeTime'[r])
  <2>1. "loop" # "handler"
    OBVIOUS
  <2>2. Backed(n, d, Last(r, n.to[d]), m_events[r], m_currentTs[r], "loop", busy[d], safe)
    BY <1>3, <1>10, <2>1, Now, NowLink, BackedLater, Zenon
  <2> QED
    BY <1>5, <1>6, <1>7, <2>2, Zenon
<1> QED
  BY <1>3, <1>5, <1>6, <1>8, <1>9, <1>10, QuietStep, Zenon

LEMMA Updated ==
    ASSUME NEW f, NEW S, DOMAIN f = S, NEW r \in S, NEW v, NEW f2, f2 = [f EXCEPT ![r] = v]
    PROVE  DOMAIN f2 = S /\ f2[r] = v /\ \A s \in S \ {r} : f2[s] = f[s]
OBVIOUS

LEMMA UpdatedIn ==
    ASSUME NEW S, NEW T, NEW f \in [S -> T], NEW r \in S, NEW v \in T, NEW f2, f2 = [f EXCEPT ![r] = v]
    PROVE  f2 \in [S -> T] /\ f2[r] = v /\ \A s \in S \ {r} : f2[s] = f[s]
OBVIOUS

LEMMA NewEvents ==
    \A t, p \in Nat :
        /\ /\ Event(t, "user", p) \in EventType /\ Event(t, "user", p).ts = t
           /\ Event(t, "user", p).kind = "user"
        /\ /\ Event(t, "null", p) \in EventType /\ Event(t, "null", p).ts = t
           /\ IsNull(Event(t, "null", p), p)
        /\ /\ Event(t, "complete", p) \in EventType /\ Event(t, "complete", p).ts = t
           /\ Event(t, "complete", p).kind = "complete" /\ Event(t, "complete", p).peer = p
BY DEF EventType, Event, IsNull

(* User code schedules an event. *)
LEMMA ScheduleStep ==
    ASSUME NEW n \in Networks, NEW r \in n.ranks, Inv(n), HandlerSchedule(r)
    PROVE  Inv(n)'
<1>0. "user" # "null" /\ "user" # "complete"
  OBVIOUS
<1>1. PICK delay \in network.userDelays :
        m_events' = [m_events EXCEPT ![r] = InsertEvent(@, Event(m_currentTs[r] + delay, "user", r))]
  BY Zenon DEF HandlerSchedule
<1>2. /\ pc[r] = "handler"
      /\ UNCHANGED <<network, m_currentTs, m_safeTime, m_stop, m_guaranteeTime, toInit, net, pc, busy>>
  BY Zenon DEF HandlerSchedule
<1>3. delay \in Nat
  <2>1. network = n
    BY Now, Zenon
  <2>2. n.userDelays \subseteq Nat
    BY NetworksAssumption, Zenon DEF IsNetwork
  <2> QED
    BY <1>1, <2>1, <2>2, Zenon
<1>4. PICK t \in Nat : /\ t = m_currentTs[r] /\ r \in Nat
                       /\ RankQueue(n, r, m_events[r], t, m_stop[r], toInit[r])
  BY Now, Zenon
<1>5. PICK x \in Nat : x = m_currentTs[r] + delay /\ x >= t
  <2>1. \A a, b \in Nat : a + b \in Nat /\ a + b >= a
    OBVIOUS
  <2> QED
    BY <1>3, <1>4, <2>1, Zenon
<1>6. PICK ev \in EventType :
        /\ ev = Event(m_currentTs[r] + delay, "user", r) /\ ev.ts >= t /\ ev.kind = "user"
  <2>1. /\ Event(x, "user", r) \in EventType /\ Event(x, "user", r).ts = x
        /\ Event(x, "user", r).kind = "user"
    BY <1>4, <1>5, NewEvents
  <2> QED
    BY <1>5, <2>1, Zenon
<1>7. PICK q : q = InsertEvent(m_events[r], ev)
  OBVIOUS
<1>8. /\ RankQueue(n, r, q, t, m_stop[r], toInit[r])
      /\ Range(q) = Range(m_events[r]) \union {ev}
  <2>1. /\ RankQueue(n, r, InsertEvent(m_events[r], ev), t, m_stop[r], toInit[r])
        /\ Range(InsertEvent(m_events[r], ev)) = Range(m_events[r]) \union {ev}
    BY <1>4, <1>6, RankInsert
  <2> QED
    BY <1>7, <2>1, Zenon
<1>9. DOMAIN m_events' = n.ranks /\ m_events'[r] = q /\ \A s \in n.ranks \ {r} : m_events'[s] = m_events[s]
  <2>1. m_events' = [m_events EXCEPT ![r] = q]
    BY <1>1, <1>6, <1>7, Zenon
  <2>2. DOMAIN m_events = n.ranks
    BY Zenon DEF Inv, Types
  <2> QED
    BY <2>1, <2>2, Updated, Zenon
<1>10. Types(n)' /\ OthersKept(n, r)
  BY <1>2, <1>9, Zenon DEF Inv, Types, OthersKept
<1>11. RankInv(n, r)'
  BY <1>2, <1>4, <1>8, <1>9, Zenon DEF Inv, RankInv
<1>12. ASSUME NEW d \in n.devices, n.from[d] = r
       PROVE  Backed(n, d, Last(r, n.to[d]), m_events'[r], m_currentTs'[r], pc'[r], busy'[d], m_safeTime'[r])
  <2>1. /\ Last(r, n.to[d]) \in Nat
        /\ Backed(n, d, Last(r, n.to[d]), m_events[r], t, pc[r], busy[d], m_safeTime[r])
    BY <1>4, <1>12, NowLink, Zenon
  <2>2. ~IsNull(ev, n.to[d]) /\ ~(ev.kind = "complete" /\ ev.peer = d)
    BY <1>0, <1>6, Zenon DEF IsNull
  <2>3. m_safeTime[r] \in Nat
    BY Now, Zenon
  <2>4. Backed(n, d, Last(r, n.to[d]), q, t, pc[r], busy[d], m_safeTime[r])
    BY <1>2, <1>6, <1>8, <2>1, <2>2, <2>3, BackedInsert, Zenon
  <2> QED
    BY <1>2, <1>4, <1>9, <2>4, Zenon
<1> QED
  BY <1>2, <1>10, <1>11, <1>12, QuietStep, Zenon

(* What ProcessOneEvent does before the event runs. *)
LEMMA Popped ==
    ASSUME NEW n \in Networks, NEW r \in n.ranks, Inv(n), ProcessOneEvent(r)
    PROVE  /\ m_events[r] # <<>> /\ m_stop[r] = FALSE /\ pc[r] = "loop" /\ toInit[r] = {}
           /\ Head(m_events[r]) \in EventType /\ Head(m_events[r]).ts \in Nat
           /\ Head(m_events[r]).ts <= m_safeTime[r]
           /\ Head(m_events[r]) \in Range(m_events[r])
           /\ Range(m_events[r]) = Range(Tail(m_events[r])) \union {Head(m_events[r])}
           /\ m_currentTs' \in [n.ranks -> Nat] /\ m_currentTs'[r] = Head(m_events[r]).ts
           /\ \A s \in n.ranks \ {r} : m_currentTs'[s] = m_currentTs[s]
           /\ UNCHANGED <<network, m_safeTime, m_guaranteeTime, toInit>>
<1>1. /\ pc[r] = "loop" /\ m_events[r] # <<>> /\ m_stop[r] # TRUE
      /\ Head(m_events[r]).ts <= m_safeTime[r]
      /\ m_currentTs' = [m_currentTs EXCEPT ![r] = Head(m_events[r]).ts]
      /\ UNCHANGED <<network, m_safeTime, m_guaranteeTime, toInit>>
  BY Zenon DEF ProcessOneEvent, IsFinished, IsSafe
<1>2. m_stop[r] = FALSE
  BY <1>1, Now, Zenon
<1>3. toInit[r] = {}
  <2>1. "loop" # "start"
    OBVIOUS
  <2> QED
    BY <1>1, <2>1, Zenon DEF Inv, RankInv
<1>4. /\ Head(m_events[r]) \in EventType /\ Head(m_events[r]).ts \in Nat
      /\ Head(m_events[r]) \in Range(m_events[r])
      /\ Range(m_events[r]) = Range(Tail(m_events[r])) \union {Head(m_events[r])}
  BY <1>1, Now, QueueTail, Zenon
<1>5. PICK h \in Nat : h = Head(m_events[r]).ts
  BY <1>4, Zenon
<1>6. m_currentTs \in [n.ranks -> Nat] /\ m_currentTs' = [m_currentTs EXCEPT ![r] = h]
  BY <1>1, <1>5, Zenon DEF Inv, Types
<1>7. /\ m_currentTs' \in [n.ranks -> Nat] /\ m_currentTs'[r] = h
      /\ \A s \in n.ranks \ {r} : m_currentTs'[s] = m_currentTs[s]
  BY <1>6, UpdatedIn, Zenon
<1> QED
  BY <1>1, <1>2, <1>3, <1>4, <1>5, <1>7, Zenon

(* An event after which the queue is what is left of it. *)
LEMMA PopStep ==
    ASSUME NEW n \in Networks, NEW r \in n.ranks, Inv(n), ProcessOneEvent(r),
           Head(m_events[r]).kind # "null",
           m_events' = [m_events EXCEPT ![r] = Tail(m_events[r])], net' = net,
           m_stop' \in [n.ranks -> BOOLEAN], \A s \in n.ranks \ {r} : m_stop'[s] = m_stop[s],
           m_stop'[r] = FALSE => Head(m_events[r]).kind # "stop",
           NEW p, p # "start", pc' = [pc EXCEPT ![r] = p],
           busy' \in [n.devices -> BOOLEAN],
           \A d \in n.devices :
             \/ busy'[d] = busy[d]
             \/ /\ Head(m_events[r]).kind = "complete" /\ Head(m_events[r]).peer = d
                /\ p = "receive" /\ n.from[d] = r
    PROVE  Inv(n)'
<1>1. /\ m_events[r] # <<>> /\ m_stop[r] = FALSE /\ toInit[r] = {}
      /\ Head(m_events[r]).ts \in Nat /\ Head(m_events[r]).ts <= m_safeTime[r]
      /\ Head(m_events[r]) \in Range(m_events[r])
      /\ Range(m_events[r]) = Range(Tail(m_events[r])) \union {Head(m_events[r])}
      /\ m_currentTs' \in [n.ranks -> Nat] /\ m_currentTs'[r] = Head(m_events[r]).ts
      /\ \A s \in n.ranks \ {r} : m_currentTs'[s] = m_currentTs[s]
      /\ UNCHANGED <<network, m_safeTime, m_guaranteeTime, toInit>>
  BY Popped, ZenonT(60)
<1>2. DOMAIN m_events = n.ranks /\ DOMAIN pc = n.ranks
  BY Zenon DEF Inv, Types
<1>3. DOMAIN m_events' = n.ranks /\ m_events'[r] = Tail(m_events[r])
      /\ \A s \in n.ranks \ {r} : m_events'[s] = m_events[s]
  BY <1>2, Updated, Zenon
<1>4. DOMAIN pc' = n.ranks /\ pc'[r] = p /\ \A s \in n.ranks \ {r} : pc'[s] = pc[s]
  BY <1>2, Updated, Zenon
<1>5. Types(n)'
  BY <1>1, <1>3, <1>4, Zenon DEF Inv, Types
<1>6. OthersKept(n, r)
  BY <1>1, <1>3, <1>4, Zenon DEF OthersKept
<1>7. m_currentTs[r] \in Nat /\ m_safeTime[r] \in Nat /\ Queue(m_events[r], m_currentTs[r])
  BY Now, Zenon
<1>8. RankInv(n, r)'
  <2>1. RankQueue(n, r, m_events[r], m_currentTs[r], m_stop[r], toInit[r])
    BY Now, Zenon
  <2>2. m_stop'[r] = FALSE => m_stop[r] = FALSE /\ Head(m_events[r]).kind # "stop"
    BY <1>1, Zenon
  <2>3. RankQueue(n, r, Tail(m_events[r]), Head(m_events[r]).ts, m_stop'[r], toInit[r])
    <3>1. PICK q, t, stop, init, stop2 :
            /\ t \in Nat /\ q = m_events[r] /\ t = m_currentTs[r] /\ stop = m_stop[r] /\ init = toInit[r]
            /\ stop2 = m_stop'[r]
      BY <1>7, Zenon
    <3>2. /\ RankQueue(n, r, q, t, stop, init) /\ q # <<>> /\ Head(q).kind # "null"
          /\ StopKept(stop, stop2, Head(q))
      BY <1>1, <2>1, <2>2, <3>1, Zenon DEF StopKept
    <3>3. RankQueue(n, r, Tail(q), Head(q).ts, stop2, init)
      BY <3>1, <3>2, RankPop, Zenon
    <3> QED
      BY <3>1, <3>3, Zenon
  <2> QED
    BY <1>1, <1>3, <1>4, <2>3, Zenon DEF Inv, RankInv
<1>9. ASSUME NEW d \in n.devices, n.from[d] = r
      PROVE  Backed(n, d, Last(r, n.to[d]), m_events'[r], m_currentTs'[r], pc'[r], busy'[d], m_safeTime'[r])
  <2>1. /\ Last(r, n.to[d]) \in Nat
        /\ Backed(n, d, Last(r, n.to[d]), m_events[r], m_currentTs[r], pc[r], busy[d], m_safeTime[r])
    BY <1>9, NowLink, Zenon
  <2>2. CASE busy'[d] = busy[d]
    <3>1. ~IsNull(Head(m_events[r]), n.to[d]) /\ Range(Tail(m_events[r])) \subseteq Range(m_events[r])
      BY <1>1, Zenon DEF IsNull
    <3>2. Backed(n, d, Last(r, n.to[d]), Tail(m_events[r]), Head(m_events[r]).ts, p, busy[d], m_safeTime[r])
      BY <1>1, <1>7, <2>1, <3>1, BackedPop, Zenon
    <3> QED
      BY <1>1, <1>3, <1>4, <2>2, <3>2, Zenon
  <2>3. CASE /\ Head(m_events[r]).kind = "complete" /\ Head(m_events[r]).peer = d
             /\ p = "receive"
    <3>1. Backed(n, d, Last(r, n.to[d]), Tail(m_events[r]), Head(m_events[r]).ts, "receive", busy'[d], m_safeTime[r])
      BY <1>1, <1>7, <2>1, <2>3, BackedIdle, Zenon
    <3> QED
      BY <1>1, <1>3, <1>4, <2>3, <3>1, Zenon
  <2> QED
    BY <2>2, <2>3, Zenon
<1> QED
  BY <1>1, <1>5, <1>6, <1>8, <1>9, QuietStep, Zenon

(* User events, Stop and cancelled events. *)
LEMMA UserOrStopStep ==
    ASSUME NEW n \in Networks, NEW r \in n.ranks, Inv(n), ProcessOneEvent(r),
           Head(m_events[r]).kind \in {"user", "stop", "cancelled"}
    PROVE  Inv(n)'
<1>1. Head(m_events[r]).kind # "null" /\ Head(m_events[r]).kind # "complete"
  BY Zenon
<1>2. m_stop \in [n.ranks -> BOOLEAN] /\ busy \in [n.devices -> BOOLEAN]
  BY Zenon DEF Inv, Types
<1>3. \/ /\ Head(m_events[r]).kind = "user" /\ pc' = [pc EXCEPT ![r] = "handler"] /\ m_stop' = m_stop
         /\ m_events' = [m_events EXCEPT ![r] = Tail(m_events[r])] /\ UNCHANGED <<net, busy>>
      \/ /\ pc' = [pc EXCEPT ![r] = "receive"]
         /\ m_stop' = [m_stop EXCEPT ![r] = @ \/ Head(m_events[r]).kind = "stop"]
         /\ m_events' = [m_events EXCEPT ![r] = Tail(m_events[r])] /\ UNCHANGED <<net, busy>>
  BY <1>1, Zenon DEF ProcessOneEvent, Process
<1>4. CASE Head(m_events[r]).kind = "user" /\ pc' = [pc EXCEPT ![r] = "handler"] /\ m_stop' = m_stop
  <2>1. "handler" # "start" /\ "user" # "stop"
    OBVIOUS
  <2> QED
    BY <1>1, <1>2, <1>3, <1>4, <2>1, PopStep, Zenon
<1>5. CASE /\ pc' = [pc EXCEPT ![r] = "receive"]
           /\ m_stop' = [m_stop EXCEPT ![r] = @ \/ Head(m_events[r]).kind = "stop"]
  <2>1. "receive" # "start"
    OBVIOUS
  <2>2. PICK v \in BOOLEAN : v = (m_stop[r] \/ Head(m_events[r]).kind = "stop")
    BY Zenon
  <2>3. m_stop' = [m_stop EXCEPT ![r] = v]
    BY <1>5, <2>2, Zenon
  <2>4. /\ m_stop' \in [n.ranks -> BOOLEAN] /\ m_stop'[r] = v
        /\ \A s \in n.ranks \ {r} : m_stop'[s] = m_stop[s]
    BY <1>2, <2>3, UpdatedIn, Zenon
  <2>5. m_stop'[r] = FALSE => Head(m_events[r]).kind # "stop"
    BY <2>2, <2>4, Zenon
  <2>6. m_events' = [m_events EXCEPT ![r] = Tail(m_events[r])] /\ UNCHANGED <<net, busy>>
    BY <1>3, Zenon
  <2> QED
    BY <1>1, <1>2, <1>5, <2>1, <2>4, <2>5, <2>6, PopStep, Zenon
<1> QED
  BY <1>3, <1>4, <1>5, Zenon

(* TransmitComplete, with nothing to send. *)
LEMMA IdleStep ==
    ASSUME NEW n \in Networks, NEW r \in n.ranks, Inv(n), ProcessOneEvent(r),
           Head(m_events[r]).kind = "complete", queued[Head(m_events[r]).peer] = 0
    PROVE  Inv(n)'
<1>1. "complete" # "null" /\ "complete" # "user" /\ "complete" # "stop" /\ "complete" # "cancelled"
      /\ "receive" # "start" /\ ~(0 > 0)
  OBVIOUS
<1>2. m_stop \in [n.ranks -> BOOLEAN] /\ busy \in [n.devices -> BOOLEAN]
  BY Zenon DEF Inv, Types
<1>3. /\ pc' = [pc EXCEPT ![r] = "receive"] /\ m_stop' = m_stop
      /\ busy' = [busy EXCEPT ![Head(m_events[r]).peer] = FALSE]
      /\ m_events' = [m_events EXCEPT ![r] = Tail(m_events[r])] /\ net' = net
  BY <1>1, Zenon DEF ProcessOneEvent, Process, TransmitComplete
<1>4. PICK d \in n.devices : d = Head(m_events[r]).peer /\ n.from[d] = r
  <2>1. OwnDevices(n, r, m_events[r])
    BY Now, Zenon DEF RankQueue
  <2>2. Head(m_events[r]) \in Range(m_events[r])
    BY Popped, Zenon
  <2> QED
    BY <2>1, <2>2, Zenon DEF OwnDevices
<1>5. busy' \in [n.devices -> BOOLEAN] /\ \A e \in n.devices \ {d} : busy'[e] = busy[e]
  <2>1. busy' = [busy EXCEPT ![d] = FALSE] /\ FALSE \in BOOLEAN
    BY <1>3, <1>4, Zenon
  <2> QED
    BY <1>2, <2>1, UpdatedIn, Zenon
<1>6. \A e \in n.devices :
        \/ busy'[e] = busy[e]
        \/ /\ Head(m_events[r]).kind = "complete" /\ Head(m_events[r]).peer = e
           /\ "receive" = "receive" /\ n.from[e] = r
  BY <1>4, <1>5, Zenon
<1> QED
  BY <1>1, <1>2, <1>3, <1>5, <1>6, PopStep, ZenonT(60)

(* A step that sends msg on the link d. *)
LEMMA SendStep ==
    ASSUME OneLinkPerPair, NEW n \in Networks, NEW r \in n.ranks, Inv(n),
           NEW d \in n.devices, n.from[d] = r, NEW msg \in MsgType,
           Sends(r, n.to[d], msg), m_guaranteeTime' = m_guaranteeTime,
           MayFollow(Last(r, n.to[d]), msg),
           net' \in [n.ranks -> [n.ranks -> Seq(MsgType)]] => Types(n)',
           OthersKept(n, r), RankInv(n, r)',
           Backed(n, d, msg.guarantee, m_events'[r], m_currentTs'[r], pc'[r], busy'[d], m_safeTime'[r]),
           \A e \in n.devices \ {d} : n.from[e] = r =>
             Backed(n, e, Last(r, n.to[e]), m_events'[r], m_currentTs'[r], pc'[r], busy'[e], m_safeTime'[r])
    PROVE  Inv(n)'
<1>1. n.to[d] \in Neighbours(n, r)
  BY DeviceFacts, Zenon
<1>2. /\ net' \in [n.ranks -> [n.ranks -> Seq(MsgType)]]
      /\ \A s, j \in n.ranks : ChannelInv(n, s, j)'
      /\ Last(r, n.to[d])' = msg.guarantee
      /\ \A s, j \in n.ranks : s # r \/ j # n.to[d] => Last(s, j)' = Last(s, j)
  <2>1. PICK k \in Neighbours(n, r) : k = n.to[d]
    BY <1>1, Zenon
  <2>2. /\ Sends(r, k, msg)
        /\ MayFollow(Last(r, k), msg)
    BY <2>1, Zenon
  <2>3. /\ net' \in [n.ranks -> [n.ranks -> Seq(MsgType)]]
        /\ \A s, j \in n.ranks : ChannelInv(n, s, j)'
        /\ Last(r, k)' = msg.guarantee
        /\ \A s, j \in n.ranks : s # r \/ j # k => Last(s, j)' = Last(s, j)
    BY <2>2, SendMessage, Zenon
  <2> QED
    BY <2>1, <2>3, Zenon
<1>3. LinkInv(n, d)'
  BY <1>2, Zenon DEF LinkInv
<1>4. ASSUME NEW e \in n.devices, n.from[e] = r PROVE LinkInv(n, e)'
  <2>1. CASE e = d
    BY <1>3, <2>1, Zenon
  <2>2. CASE e # d
    <3>1. n.to[e] # n.to[d] /\ n.to[e] \in n.ranks
      BY <1>4, <2>2, DeviceFacts, Zenon DEF OneLinkPerPair
    <3>2. Last(r, n.to[e])' = Last(r, n.to[e])
      BY <1>2, <3>1, Zenon
    <3>3. Backed(n, e, Last(r, n.to[e]), m_events'[r], m_currentTs'[r], pc'[r], busy'[e], m_safeTime'[r])
      BY <1>4, <2>2, Zenon
    <3> QED
      BY <1>4, <3>2, <3>3, Zenon DEF LinkInv
  <2> QED
    BY <2>1, <2>2, Zenon
<1>5. Types(n)'
  BY <1>2, Zenon
<1> QED
  BY <1>2, <1>4, <1>5, Assemble, Zenon

LEMMA SumFacts ==
    ASSUME NEW a \in Nat, NEW b \in Nat, NEW c \in Nat
    PROVE  /\ a + b \in Nat /\ a + b >= a
           /\ a + b + c \in Nat /\ \A x \in Nat : x <= c + a => a + b + c >= x
OBVIOUS

CompleteEvent(c, d, t) ==
    c \in EventType /\ c.kind = "complete" /\ c.peer = d /\ c.ts >= t

NullEvent(n, m, s, k, t) ==
    m \in EventType /\ IsNull(m, k) /\ m.ts = t + NullPeriod(n, s, k) /\ m.ts >= t

Message(rx, g) == [rx |-> rx, guarantee |-> g]

(* What TransmitStart does on the link d, with these events and this        *)
(* receive time.                                                            *)
Starts(n, r, d, q, t, c, m, rx) ==
    /\ \A x \in Nat : x <= n.delay[d] + t => rx >= x
    /\ Sends(r, n.to[d], Message(rx, Min({Head(InsertEvent(q, c)).ts, m_safeTime[r]}) + n.delay[d]))
    /\ m_events' = [m_events EXCEPT ![r] = Transmitted(q, c, m, n.to[d])]
    /\ busy' = [busy EXCEPT ![d] = TRUE]

(* TransmitStart, called when the queue is q and the time is t. *)
LEMMA TransmitFacts ==
    ASSUME OneLinkPerPair, NEW n \in Networks, NEW r \in n.ranks, network = n,
           NEW d \in n.devices, n.from[d] = r, NEW q, NEW t \in Nat, TransmitStart(r, d, q, t)
    PROVE  \E c, m \in EventType, rx \in Nat :
             CompleteEvent(c, d, t) /\ NullEvent(n, m, r, n.to[d], t) /\ Starts(n, r, d, q, t, c, m, rx)
<1> DEFINE k == n.to[d]
           tx == n.txTime[d] + n.interframeGap[d]
           c == Event(t + tx, "complete", d)
           m == Event(t + NullPeriod(n, r, k), "null", k)
           rx == t + n.txTime[d] + n.delay[d]
<1>1. /\ k \in Nat /\ d \in Nat /\ n.txTime[d] \in Nat /\ n.interframeGap[d] \in Nat
      /\ n.delay[d] \in Nat /\ NullPeriod(n, r, k) \in Nat
      /\ LinkDelay(n, r, k) = n.delay[d]
  BY DeviceFacts, PeriodFacts, OneDelay, Zenon
<1>2. /\ To[d] = k /\ TxTime[d] = n.txTime[d] /\ Delay[d] = n.delay[d] /\ TxCompleteTime(d) = tx
      /\ BundleDelay(r, k) = LinkDelay(n, r, k) /\ Period(r, k) = NullPeriod(n, r, k)
  BY SameNetwork, Zenon DEF TxCompleteTime
<1>3. /\ Send(r, k, rx, Guarantee(r, k, InsertEvent(q, c)))
      /\ m_events' = [m_events EXCEPT ![r] = InsertEvent(CancelNull(InsertEvent(q, c), k), m)]
      /\ busy' = [busy EXCEPT ![d] = TRUE]
  BY <1>2, Zenon DEF TransmitStart, SendPacket, RxTime
<1>4. Guarantee(r, k, InsertEvent(q, c)) = Min({Head(InsertEvent(q, c)).ts, m_safeTime[r]}) + n.delay[d]
  BY <1>1, <1>2, Zenon DEF Guarantee
<1>5. Sends(r, k, Message(rx, Min({Head(InsertEvent(q, c)).ts, m_safeTime[r]}) + n.delay[d]))
  BY <1>3, <1>4, Zenon DEF Send, Sends, Message
<1>6. /\ tx \in Nat /\ t + tx \in Nat /\ t + tx >= t
      /\ rx \in Nat /\ \A x \in Nat : x <= n.delay[d] + t => rx >= x
  BY <1>1, SumFacts, Zenon
<1>7. t + NullPeriod(n, r, k) \in Nat /\ t + NullPeriod(n, r, k) >= t
  BY <1>1, SumFacts, Zenon
<1>8. c \in EventType /\ c.kind = "complete" /\ c.peer = d /\ c.ts = t + tx
  <2> HIDE DEF tx
  <2> QED
    BY <1>1, <1>6, NewEvents, SMTT(60)
<1>9. m \in EventType /\ IsNull(m, k) /\ m.ts = t + NullPeriod(n, r, k)
  BY <1>1, <1>7, NewEvents, SMTT(60)
<1>10. m_events' = [m_events EXCEPT ![r] = Transmitted(q, c, m, k)]
  BY <1>3, Zenon DEF Transmitted
<1>11. c.ts >= t /\ m.ts >= t
  BY <1>6, <1>7, <1>8, <1>9, Zenon
<1> HIDE DEF c, m, rx
<1>12. CompleteEvent(c, d, t) /\ NullEvent(n, m, r, k, t)
  BY <1>8, <1>9, <1>11, Zenon DEF CompleteEvent, NullEvent
<1>13. Starts(n, r, d, q, t, c, m, rx)
  BY <1>3, <1>5, <1>6, <1>10, Zenon DEF Starts
<1> QED
  BY <1>6, <1>8, <1>9, <1>12, <1>13, Zenon

LEMMA RankTransmitted ==
    ASSUME NEW n \in Networks, NEW s, NEW q, NEW t \in Nat, NEW stop, NEW init, NEW d \in n.devices,
           RankQueue(n, s, q, t, stop, init), n.from[d] = s, n.to[d] \notin init,
           NEW c, CompleteEvent(c, d, t), NEW m, NullEvent(n, m, s, n.to[d], t)
    PROVE  /\ RankQueue(n, s, Transmitted(q, c, m, n.to[d]), t, stop, init)
           /\ PutOff(Range(Transmitted(q, c, m, n.to[d])), Range(q), c, m, n.to[d])
           /\ Earliest(q, c, Head(InsertEvent(q, c)).ts)
           /\ Head(InsertEvent(q, c)).ts >= t
BY RankTransmit, Zenon DEF CompleteEvent, NullEvent

LEMMA LinkTransmitted ==
    ASSUME NEW n \in Networks, NEW d \in n.devices, NEW s, NEW q, NEW t \in Nat, Queue(q, t),
           NEW p, NEW safe \in Nat, NEW q2,
           NEW c, CompleteEvent(c, d, t), NEW m, NullEvent(n, m, s, n.to[d], t),
           PutOff(Range(q2), Range(q), c, m, n.to[d]),
           NEW y \in Range(q), y.ts <= m.ts,
           NEW ts, Earliest(q, c, ts), ts >= t,
           NEW g, g = Min({ts, safe}) + n.delay[d],
           NEW old \in Nat, old <= n.delay[d] + t, old <= n.delay[d] + safe, NEW b, b = TRUE
    PROVE  Renewed(n, d, old, g, q2, t, p, b, safe)
<1>1. /\ c \in EventType /\ c.kind = "complete"
      /\ m \in EventType /\ IsNull(m, n.to[d])
  BY Zenon DEF CompleteEvent, NullEvent
<1> QED
  BY <1>1, BackedTransmit, Zenon

LEMMA LinkElsewhere ==
    ASSUME NEW n \in Networks, NEW e \in n.devices, NEW g \in Nat, NEW q, NEW t \in Nat, NEW b,
           NEW safe, Backed(n, e, g, q, t, "handler", b, safe),
           NEW q2, NEW k, k # n.to[e], NEW d, d # e, NEW s,
           NEW c, CompleteEvent(c, d, t), NEW m, NullEvent(n, m, s, k, t),
           PutOff(Range(q2), Range(q), c, m, k)
    PROVE  Backed(n, e, g, q2, t, "handler", b, safe)
BY BackedElsewhere, Zenon DEF CompleteEvent, NullEvent

LEMMA NewMessage ==
    ASSUME NEW a \in Nat, NEW b \in Nat
    PROVE  Message(a, b) \in MsgType /\ Message(a, b).guarantee = b /\ Message(a, b).rx = a
BY DEF MsgType, Message

(* A handler returns. *)
LEMMA BackedReturn ==
    ASSUME NEW n, NEW d, NEW g, NEW q, NEW t, NEW b, NEW safe,
           Backed(n, d, g, q, t, "handler", b, safe), NEW p
    PROVE  Backed(n, d, g, q, t, p, b, safe)
BY Zenon DEF Backed, Beyond

(* A transmission on the link d starts: q and t are the queue and the time  *)
(* when TransmitStart is called.                                            *)
LEMMA TransmitStep ==
    ASSUME OneLinkPerPair, NEW n \in Networks, NEW r \in n.ranks, Inv(n),
           NEW d \in n.devices, n.from[d] = r, NEW q, NEW t \in Nat, TransmitStart(r, d, q, t),
           RankQueue(n, r, q, t, m_stop[r], {}), toInit[r] = {}, t <= m_safeTime[r],
           Last(r, n.to[d]) <= n.delay[d] + t,
           \A e \in n.devices \ {d} : n.from[e] = r =>
             Backed(n, e, Last(r, n.to[e]), q, t, "handler", busy[e], m_safeTime[r]),
           UNCHANGED <<network, m_safeTime, m_guaranteeTime, toInit, m_stop>>,
           m_currentTs' \in [n.ranks -> Nat], m_currentTs'[r] = t,
           \A s \in n.ranks \ {r} : m_currentTs'[s] = m_currentTs[s],
           DOMAIN pc' = n.ranks, pc'[r] # "start", \A s \in n.ranks \ {r} : pc'[s] = pc[s]
    PROVE  Inv(n)'
<1>0. network = n /\ m_safeTime[r] \in Nat
  BY Now, Zenon
<1> DEFINE k == n.to[d]
<1>2. PICK c, m \in EventType, rx \in Nat :
        CompleteEvent(c, d, t) /\ NullEvent(n, m, r, k, t) /\ Starts(n, r, d, q, t, c, m, rx)
  BY <1>0, TransmitFacts, Zenon
<1>3. PICK q2, ts, init : q2 = Transmitted(q, c, m, k) /\ ts = Head(InsertEvent(q, c)).ts /\ init = {}
  OBVIOUS
<1>4. /\ RankQueue(n, r, q2, t, m_stop[r], init)
      /\ PutOff(Range(q2), Range(q), c, m, k) /\ Earliest(q, c, ts) /\ ts >= t
  <2>1. PICK stop : stop = m_stop[r]
    OBVIOUS
  <2>2. RankQueue(n, r, q, t, stop, init) /\ n.to[d] \notin init
    BY <1>3, <2>1, Zenon
  <2>4. /\ RankQueue(n, r, Transmitted(q, c, m, n.to[d]), t, stop, init)
        /\ PutOff(Range(Transmitted(q, c, m, n.to[d])), Range(q), c, m, n.to[d])
        /\ Earliest(q, c, Head(InsertEvent(q, c)).ts)
        /\ Head(InsertEvent(q, c)).ts >= t
    BY <1>2, <2>2, RankTransmitted, Zenon
  <2> QED
    BY <1>3, <2>1, <2>4, Zenon
<1>5. PICK y \in Range(q) : y.ts <= m.ts
  <2>1. k \in Neighbours(n, r) \ {}
    BY DeviceFacts, Zenon
  <2>2. NullsThere(n, r, q, {}) /\ NullsSoon(n, r, q, t, {})
    BY Zenon DEF RankQueue
  <2>3. PICK x \in Range(q) : IsNull(x, k)
    BY <2>1, <2>2, Zenon DEF NullsThere
  <2>4. x.ts <= t + NullPeriod(n, r, k)
    BY <2>2, <2>3, Zenon DEF NullsSoon, IsNull
  <2> QED
    BY <1>2, <2>3, <2>4, Zenon DEF NullEvent
<1>1. /\ Last(r, n.to[d]) \in Nat /\ Last(r, n.to[d]) <= n.delay[d] + m_safeTime[r]
  <2>1. /\ Last(r, n.to[d]) \in Nat
        /\ Backed(n, d, Last(r, n.to[d]), m_events[r], m_currentTs[r], pc[r], busy[d], m_safeTime[r])
    BY NowLink, Zenon
  <2> QED
    BY <2>1, Zenon DEF Backed
<1>6. PICK g : g = Min({ts, m_safeTime[r]}) + n.delay[d]
  OBVIOUS
<1>7. /\ g \in Nat /\ Backed(n, d, g, q2, t, pc'[r], TRUE, m_safeTime[r])
      /\ Last(r, n.to[d]) <= g
  <2>1. Queue(q, t)
    BY Zenon DEF RankQueue
  <2>2. PICK old \in Nat : /\ old = Last(r, n.to[d])
                           /\ old <= n.delay[d] + t /\ old <= n.delay[d] + m_safeTime[r]
    BY <1>1, Zenon
  <2>3. PICK safe \in Nat : safe = m_safeTime[r] /\ old <= n.delay[d] + safe
    BY <1>0, <2>2, Zenon
  <2>4. g = Min({ts, safe}) + n.delay[d]
    BY <1>6, <2>3, Zenon
  <2>5. PICK b : b = TRUE
    OBVIOUS
  <2>6. Renewed(n, d, old, g, q2, t, pc'[r], b, safe)
    BY <1>2, <1>4, <1>5, <2>1, <2>2, <2>3, <2>4, <2>5, LinkTransmitted, Zenon
  <2> QED
    BY <2>2, <2>3, <2>5, <2>6, Zenon DEF Renewed
<1>9. PICK msg \in MsgType : /\ msg = Message(rx, g) /\ msg.guarantee = g /\ msg.rx = rx
  <2>1. rx \in Nat /\ g \in Nat
    BY <1>2, <1>7, Zenon
  <2>2. Message(rx, g) \in MsgType /\ Message(rx, g).guarantee = g /\ Message(rx, g).rx = rx
    BY <2>1, NewMessage, Zenon
  <2> QED
    BY <2>2, Zenon
<1>10. Sends(r, n.to[d], msg) /\ MayFollow(Last(r, n.to[d]), msg)
  <2>1. Sends(r, n.to[d], msg)
    BY <1>2, <1>3, <1>6, <1>9, Zenon DEF Starts
  <2>2. Last(r, n.to[d]) <= g /\ rx >= Last(r, n.to[d])
    BY <1>1, <1>2, <1>7, Zenon DEF Starts
  <2> QED
    BY <1>9, <2>1, <2>2, Zenon DEF MayFollow
<1>11. /\ DOMAIN m_events' = n.ranks /\ m_events'[r] = q2
       /\ \A s \in n.ranks \ {r} : m_events'[s] = m_events[s]
  <2>1. DOMAIN m_events = n.ranks
    BY Zenon DEF Inv, Types
  <2> QED
    BY <1>2, <1>3, <2>1, Updated, Zenon DEF Starts
<1>12. /\ busy' \in [n.devices -> BOOLEAN] /\ busy'[d] = TRUE
       /\ \A e \in n.devices \ {d} : busy'[e] = busy[e]
  <2>1. busy \in [n.devices -> BOOLEAN] /\ TRUE \in BOOLEAN
    BY Zenon DEF Inv, Types
  <2> QED
    BY <1>2, <2>1, UpdatedIn, Zenon DEF Starts
<1>13. ASSUME net' \in [n.ranks -> [n.ranks -> Seq(MsgType)]] PROVE Types(n)'
  BY <1>11, <1>12, <1>13, Zenon DEF Inv, Types
<1>14. OthersKept(n, r)
  BY <1>11, <1>12, Zenon DEF OthersKept
<1>15. RankInv(n, r)'
  BY <1>3, <1>4, <1>11, Zenon DEF Inv, RankInv
<1>16. Backed(n, d, msg.guarantee, m_events'[r], m_currentTs'[r], pc'[r], busy'[d], m_safeTime'[r])
  BY <1>7, <1>9, <1>11, <1>12, Zenon
<1>17. ASSUME NEW e \in n.devices \ {d}, n.from[e] = r
       PROVE  Backed(n, e, Last(r, n.to[e]), m_events'[r], m_currentTs'[r], pc'[r], busy'[e], m_safeTime'[r])
  <2>1. k # n.to[e] /\ d # e
    BY <1>17, Zenon DEF OneLinkPerPair
  <2>2. e \in n.devices /\ Last(r, n.to[e]) \in Nat
    BY <1>17, NowLink, Zenon
  <2>3. PICK safe \in Nat, g2 \in Nat : safe = m_safeTime[r] /\ g2 = Last(r, n.to[e]) /\ safe >= safe
    BY <1>0, <2>2, AtLeastItself, Zenon
  <2>4. Backed(n, e, g2, q, t, "handler", busy[e], safe)
    BY <1>17, <2>3, Zenon
  <2>5. Backed(n, e, g2, q2, t, "handler", busy[e], safe)
    BY <1>2, <1>4, <2>1, <2>4, <2>2, LinkElsewhere, Zenon
  <2>6. Backed(n, e, g2, q2, t, pc'[r], busy[e], safe)
    BY <2>5, BackedReturn, Zenon
  <2> QED
    BY <1>11, <1>12, <1>17, <2>3, <2>6, Zenon
<1> QED
  BY <1>10, <1>13, <1>14, <1>15, <1>16, <1>17, SendStep, Zenon

(* TransmitComplete, with a packet that waits. *)
LEMMA NextPacketStep ==
    ASSUME OneLinkPerPair, NEW n \in Networks, NEW r \in n.ranks, Inv(n), ProcessOneEvent(r),
           Head(m_events[r]).kind = "complete", queued[Head(m_events[r]).peer] # 0
    PROVE  Inv(n)'
<1>1. /\ "complete" # "null" /\ "complete" # "user" /\ "complete" # "stop" /\ "complete" # "cancelled"
      /\ "receive" # "start"
  BY NamesDiffer, Zenon
<1>2. /\ m_events[r] # <<>> /\ toInit[r] = {} /\ m_stop[r] = FALSE
      /\ Head(m_events[r]).ts \in Nat /\ Head(m_events[r]).ts <= m_safeTime[r]
      /\ Head(m_events[r]) \in Range(m_events[r])
      /\ Range(m_events[r]) = Range(Tail(m_events[r])) \union {Head(m_events[r])}
      /\ m_currentTs' \in [n.ranks -> Nat] /\ m_currentTs'[r] = Head(m_events[r]).ts
      /\ \A s \in n.ranks \ {r} : m_currentTs'[s] = m_currentTs[s]
      /\ UNCHANGED <<network, m_safeTime, m_guaranteeTime, toInit>>
  BY Popped, Zenon
<1>3. /\ pc' = [pc EXCEPT ![r] = "receive"] /\ m_stop' = m_stop
      /\ TransmitStart(r, Head(m_events[r]).peer, Tail(m_events[r]), Head(m_events[r]).ts)
  BY <1>1, Zenon DEF ProcessOneEvent, Process, TransmitComplete
<1>4. PICK d \in n.devices : d = Head(m_events[r]).peer /\ n.from[d] = r
  <2>1. OwnDevices(n, r, m_events[r])
    BY Now, Zenon DEF RankQueue
  <2> QED
    BY <1>2, <2>1, Zenon DEF OwnDevices
<1>5. PICK q, t : q = Tail(m_events[r]) /\ t \in Nat /\ t = Head(m_events[r]).ts
  BY <1>2, Zenon
<1>6. RankQueue(n, r, q, t, m_stop[r], {})
  <2>1. PICK x, now, stop, init : x = m_events[r] /\ now = m_currentTs[r] /\ stop = m_stop[r] /\ init = {}
    BY Zenon
  <2>2. now \in Nat /\ RankQueue(n, r, x, now, stop, init)
    BY <1>2, <2>1, Now, Zenon
  <2>3. x # <<>> /\ Head(x).kind # "null" /\ StopKept(stop, stop, Head(x))
    BY <1>1, <1>2, <2>1, Zenon DEF StopKept
  <2>4. RankQueue(n, r, Tail(x), Head(x).ts, stop, init)
    BY <2>2, <2>3, RankPop, Zenon
  <2> QED
    BY <1>5, <2>1, <2>4, Zenon
<1>7. m_safeTime[r] \in Nat /\ t <= m_safeTime[r]
  BY <1>2, <1>5, Now, Zenon
<1>8. Last(r, n.to[d]) <= n.delay[d] + t
  <2>1. Backed(n, d, Last(r, n.to[d]), m_events[r], m_currentTs[r], pc[r], busy[d], m_safeTime[r])
    BY <1>4, NowLink, Zenon
  <2>2. UpToComplete(n.delay[d], d, Last(r, n.to[d]), m_events[r])
    BY <2>1, Zenon DEF Backed
  <2> QED
    BY <1>2, <1>4, <1>5, <2>2, Zenon DEF UpToComplete
<1>9. ASSUME NEW e \in n.devices \ {d}, n.from[e] = r
      PROVE  Backed(n, e, Last(r, n.to[e]), q, t, "handler", busy[e], m_safeTime[r])
  <2>1. /\ e \in n.devices /\ Last(r, n.to[e]) \in Nat
        /\ Backed(n, e, Last(r, n.to[e]), m_events[r], m_currentTs[r], pc[r], busy[e], m_safeTime[r])
    BY <1>9, NowLink, Zenon
  <2>2. ~IsNull(Head(m_events[r]), n.to[e]) /\ Range(Tail(m_events[r])) \subseteq Range(m_events[r])
    BY <1>1, <1>2, Zenon DEF IsNull
  <2>3. Backed(n, e, Last(r, n.to[e]), Tail(m_events[r]), Head(m_events[r]).ts, "handler", busy[e], m_safeTime[r])
    BY <1>2, <1>7, <2>1, <2>2, BackedPop, Zenon
  <2> QED
    BY <1>5, <2>3, Zenon
<1>10. DOMAIN pc' = n.ranks /\ pc'[r] # "start" /\ \A s \in n.ranks \ {r} : pc'[s] = pc[s]
  <2>1. DOMAIN pc = n.ranks
    BY Zenon DEF Inv, Types
  <2>2. DOMAIN pc' = n.ranks /\ pc'[r] = "receive" /\ \A s \in n.ranks \ {r} : pc'[s] = pc[s]
    BY <1>3, <2>1, Updated, Zenon
  <2> QED
    BY <1>1, <2>2, Zenon
<1>11. TransmitStart(r, d, q, t)
  BY <1>3, <1>4, <1>5, Zenon
<1>12. m_currentTs' \in [n.ranks -> Nat] /\ m_currentTs'[r] = t
  BY <1>2, <1>5, Zenon
<1> QED
  BY <1>2, <1>3, <1>4, <1>5, <1>6, <1>7, <1>8, <1>9, <1>10, <1>11, <1>12, TransmitStep, Zenon

(* User code sends a packet. *)
LEMMA HandlerSendStep ==
    ASSUME OneLinkPerPair, NEW n \in Networks, NEW r \in n.ranks, Inv(n), NEW d \in n.devices, HandlerSend(r, d)
    PROVE  Inv(n)'
<1>1. /\ "handler" # "start" /\ network = n /\ DOMAIN pc = n.ranks
      /\ m_currentTs \in [n.ranks -> Nat]
  BY Zenon DEF Inv, Types
<1>2. /\ pc[r] = "handler"
      /\ UNCHANGED <<network, m_currentTs, m_safeTime, m_stop, m_guaranteeTime, toInit, pc>>
  BY Zenon DEF HandlerSend
<1>3. n.from[d] = r
  BY <1>1, SameNetwork, Zenon DEF HandlerSend
<1>4. toInit[r] = {}
  BY <1>1, <1>2, Zenon DEF Inv, RankInv
<1>5. CASE busy[d] = TRUE
  <2>1. UNCHANGED <<m_events, net, busy>>
    BY <1>5, Zenon DEF HandlerSend
  <2>2. /\ DOMAIN pc' = n.ranks /\ (pc'[r] = "handler" => pc[r] = "handler")
        /\ (pc'[r] = "start" => pc[r] = "start") /\ (pc'[r] # "start" => toInit[r] = {})
        /\ \A s \in n.ranks \ {r} : pc'[s] = pc[s]
    BY <1>1, <1>2, <1>4, Zenon
  <2> QED
    BY <1>2, <2>1, <2>2, PlaceStep, Zenon
<1>6. CASE busy[d] # TRUE
  <2>1. PICK q, t : q = m_events[r] /\ t \in Nat /\ t = m_currentTs[r]
    BY Now, Zenon
  <2>2. TransmitStart(r, d, q, t)
    BY <1>6, <2>1, Zenon DEF HandlerSend
  <2>3. RankQueue(n, r, q, t, m_stop[r], {}) /\ m_safeTime[r] \in Nat /\ t <= m_safeTime[r]
    BY <1>4, <2>1, Now, Zenon
  <2>4. Last(r, n.to[d]) <= n.delay[d] + t
    <3>1. Backed(n, d, Last(r, n.to[d]), q, t, "handler", busy[d], m_safeTime[r])
      BY <1>2, <1>3, <2>1, NowLink, Zenon
    <3>2. Beyond(n.delay[d], n.to[d], Last(r, n.to[d]), q, t, "handler")
      BY <1>6, <3>1, Zenon DEF Backed
    <3> QED
      BY <3>2, Zenon DEF Beyond
  <2>5. ASSUME NEW e \in n.devices \ {d}, n.from[e] = r
        PROVE  Backed(n, e, Last(r, n.to[e]), q, t, "handler", busy[e], m_safeTime[r])
    <3>1. e \in n.devices
      OBVIOUS
    <3> QED
      BY <1>2, <2>1, <2>5, <3>1, NowLink, Zenon
  <2>6. /\ m_currentTs' \in [n.ranks -> Nat] /\ m_currentTs'[r] = t
        /\ \A s \in n.ranks \ {r} : m_currentTs'[s] = m_currentTs[s]
        /\ DOMAIN pc' = n.ranks /\ pc'[r] # "start" /\ \A s \in n.ranks \ {r} : pc'[s] = pc[s]
    BY <1>1, <1>2, <2>1, Zenon
  <2> QED
    BY <1>2, <1>3, <1>4, <2>1, <2>2, <2>3, <2>4, <2>5, <2>6, TransmitStep, Zenon
<1> QED
  BY <1>5, <1>6, Zenon

(* What NullMessageEventHandler does for the bundle k. *)
LEMMA NullFacts ==
    ASSUME NEW n \in Networks, NEW r \in n.ranks, network = n, NEW k \in Neighbours(n, r),
           NEW q, NEW t \in Nat, NullMessageEventHandler(r, k, q, t)
    PROVE  \E m \in EventType :
             /\ NullEvent(n, m, r, k, t)
             /\ Sends(r, k, Message(0, Min({Head(q).ts, m_safeTime[r]}) + LinkDelay(n, r, k)))
             /\ m_events' = [m_events EXCEPT ![r] = InsertEvent(q, m)] /\ busy' = busy
<1> DEFINE m == Event(t + NullPeriod(n, r, k), "null", k)
<1>1. k \in Nat /\ NullPeriod(n, r, k) \in Nat
  BY NeighbourFacts, PeriodFacts, Zenon
<1>2. BundleDelay(r, k) = LinkDelay(n, r, k) /\ Period(r, k) = NullPeriod(n, r, k)
  BY SameNetwork, Zenon
<1>3. /\ Sends(r, k, Message(0, Min({Head(q).ts, m_safeTime[r]}) + LinkDelay(n, r, k)))
      /\ m_events' = [m_events EXCEPT ![r] = InsertEvent(q, m)] /\ busy' = busy
  BY <1>2, Zenon DEF NullMessageEventHandler, Guarantee, Send, Sends, Message
<1>4. t + NullPeriod(n, r, k) \in Nat /\ t + NullPeriod(n, r, k) >= t
  BY <1>1, SumFacts, Zenon
<1>5. m \in EventType /\ IsNull(m, k) /\ m.ts = t + NullPeriod(n, r, k)
  BY <1>1, <1>4, NewEvents
<1>6. NullEvent(n, m, r, k, t)
  BY <1>4, <1>5, Zenon DEF NullEvent
<1> HIDE DEF m
<1> QED
  BY <1>3, <1>5, <1>6, Zenon

(* The events that are left after a null message event. *)
LEMMA LeftAfterNull ==
    ASSUME NEW n \in Networks, NEW r, NEW q, NEW t \in Nat, NEW stop, NEW init,
           RankQueue(n, r, q, t, stop, init), HasStop(q), q # <<>>, NEW k, IsNull(Head(q), k)
    PROVE  /\ Tail(q) # <<>> /\ Head(Tail(q)) \in Range(Tail(q))
           /\ After(Tail(q), Head(q), Head(Tail(q)), k)
           /\ k \in Neighbours(n, r)
<1>1. /\ HasStop(Tail(q)) /\ Queue(Tail(q), Head(q).ts) /\ Head(q).ts \in Nat
      /\ Head(q) \in Range(q)
  <2>1. "null" # "stop"
    OBVIOUS
  <2>2. Head(q).kind # "stop"
    BY <2>1, Zenon DEF IsNull
  <2>3. /\ Head(q) \in Range(q) /\ Head(q).ts \in Nat /\ Queue(Tail(q), Head(q).ts)
        /\ Range(q) = Range(Tail(q)) \union {Head(q)}
    BY QueueTail, Zenon DEF RankQueue
  <2>4. HasStop(Tail(q))
    BY <2>2, <2>3, Zenon DEF HasStop
  <2> QED
    BY <2>3, <2>4, Zenon
<1>2. Tail(q) # <<>>
  <2>1. Range(<<>>) = {}
    BY DEF Range
  <2> QED
    BY <1>1, <2>1, Zenon DEF HasStop
<1>3. PICK rest, h : rest = Tail(q) /\ h = Head(q).ts
  BY Zenon
<1>4. Head(rest) \in Range(rest) /\ \A e \in Range(rest) : e.ts >= Head(rest).ts
  BY <1>1, <1>2, <1>3, QueueTail, Zenon
<1>5. \A e \in Range(rest) : e.ts \in Nat /\ e.ts >= h
  BY <1>1, <1>3, QueueElements, Zenon
<1>6. \A e \in Range(Tail(q)) : ~IsNull(e, k)
  BY QueueTail, Zenon DEF IsNull, RankQueue
<1>7. k \in Neighbours(n, r)
  BY <1>1, Zenon DEF RankQueue, NullsSoon, IsNull
<1> QED
  BY <1>2, <1>3, <1>4, <1>5, <1>6, <1>7, Zenon DEF After

(* The queue q with the event ev. *)
QueueWith(n, s, q, ev, t, stop, init) ==
    /\ RankQueue(n, s, InsertEvent(q, ev), t, stop, init)
    /\ Range(InsertEvent(q, ev)) = Range(q) \union {ev}

LEMMA RankNulled ==
    ASSUME NEW n \in Networks, NEW s, NEW q, NEW t \in Nat, NEW stop, NEW init, NEW k,
           RankQueue(n, s, q, t, stop, init), q # <<>>, IsNull(Head(q), k),
           NEW m, NullEvent(n, m, s, k, Head(q).ts)
    PROVE  QueueWith(n, s, Tail(q), m, Head(q).ts, stop, init)
BY RankNull, SMT DEF NullEvent, QueueWith

LEMMA RankInitialized ==
    ASSUME NEW n \in Networks, NEW s, NEW q, NEW t \in Nat, NEW stop, NEW init, NEW k \in init,
           RankQueue(n, s, q, t, stop, init), k \in Neighbours(n, s),
           NEW m, NullEvent(n, m, s, k, t)
    PROVE  QueueWith(n, s, q, m, t, stop, init \ {k})
BY RankInitialize, SMT DEF NullEvent, QueueWith

LEMMA RankInserted ==
    ASSUME NEW n \in Networks, NEW s, NEW q, NEW t \in Nat, NEW stop, NEW init,
           RankQueue(n, s, q, t, stop, init),
           NEW ev \in EventType, ev.kind = "user", ev.ts >= t
    PROVE  QueueWith(n, s, q, ev, t, stop, init)
BY RankInsert, SMT DEF QueueWith

(* A null message event. *)
LEMMA NullStep ==
    ASSUME OneLinkPerPair, NEW n \in Networks, NEW r \in n.ranks, Inv(n), ProcessOneEvent(r),
           Head(m_events[r]).kind = "null"
    PROVE  Inv(n)'
<1>0. /\ "complete" # "null" /\ "null" # "user" /\ "null" # "stop" /\ "null" # "cancelled"
      /\ "receive" # "start" /\ "receive" # "handler"
  BY NamesDiffer, Zenon
<1>1. /\ m_events[r] # <<>> /\ toInit[r] = {} /\ m_stop[r] = FALSE
      /\ Head(m_events[r]).ts \in Nat /\ Head(m_events[r]).ts <= m_safeTime[r]
      /\ Head(m_events[r]) \in Range(m_events[r])
      /\ Range(m_events[r]) = Range(Tail(m_events[r])) \union {Head(m_events[r])}
      /\ m_currentTs' \in [n.ranks -> Nat] /\ m_currentTs'[r] = Head(m_events[r]).ts
      /\ \A s \in n.ranks \ {r} : m_currentTs'[s] = m_currentTs[s]
      /\ UNCHANGED <<network, m_safeTime, m_guaranteeTime, toInit>>
  BY Popped, Zenon
<1>2. /\ pc' = [pc EXCEPT ![r] = "receive"] /\ m_stop' = m_stop
      /\ NullMessageEventHandler(r, Head(m_events[r]).peer, Tail(m_events[r]), Head(m_events[r]).ts)
  BY <1>0, Zenon DEF ProcessOneEvent, Process
<1>3. PICK q, rest, h, f, t, now, stop, init, k :
        /\ q = m_events[r] /\ rest = Tail(q) /\ h = Head(q) /\ f = Head(rest) /\ t = h.ts
        /\ now = m_currentTs[r] /\ stop = m_stop[r] /\ init = {} /\ k = h.peer
  BY Zenon
<1>4. /\ q # <<>> /\ t \in Nat /\ now \in Nat /\ t <= m_safeTime[r] /\ h \in Range(q)
      /\ Range(rest) \subseteq Range(q) /\ IsNull(h, k)
      /\ RankQueue(n, r, q, now, stop, init) /\ HasStop(q)
  <2>1. now \in Nat /\ RankQueue(n, r, q, now, stop, init)
    BY <1>1, <1>3, Now, Zenon
  <2>2. HasStop(q)
    BY <1>1, <1>3, <2>1, Zenon DEF RankQueue
  <2> QED
    BY <1>1, <1>3, <2>1, <2>2, Zenon DEF IsNull
<1>5. f \in Range(rest) /\ After(rest, h, f, k) /\ k \in Neighbours(n, r)
  <2>1. /\ Head(Tail(q)) \in Range(Tail(q)) /\ After(Tail(q), Head(q), Head(Tail(q)), k)
        /\ k \in Neighbours(n, r)
    BY <1>3, <1>4, LeftAfterNull, Zenon
  <2> QED
    BY <1>3, <2>1, Zenon
<1>6. PICK d \in n.devices : n.from[d] = r /\ n.to[d] = k
  BY <1>5, Zenon DEF Neighbours
<1>7. PICK m \in EventType :
        /\ NullEvent(n, m, r, k, t)
        /\ Sends(r, k, Message(0, Min({f.ts, m_safeTime[r]}) + n.delay[d]))
        /\ m_events' = [m_events EXCEPT ![r] = InsertEvent(rest, m)] /\ busy' = busy
  <2>1. network = n /\ NullMessageEventHandler(r, k, rest, t)
    BY <1>2, <1>3, Now, Zenon
  <2>2. LinkDelay(n, r, k) = n.delay[d]
    BY <1>6, OneDelay, Zenon
  <2>3. \E m \in EventType :
          /\ NullEvent(n, m, r, k, t)
          /\ Sends(r, k, Message(0, Min({Head(rest).ts, m_safeTime[r]}) + LinkDelay(n, r, k)))
          /\ m_events' = [m_events EXCEPT ![r] = InsertEvent(rest, m)] /\ busy' = busy
    BY <1>4, <1>5, <2>1, NullFacts, Zenon
  <2> QED
    BY <1>3, <2>2, <2>3, Zenon
<1>8. PICK q2 : q2 = InsertEvent(rest, m)
  OBVIOUS
<1>9. RankQueue(n, r, q2, t, stop, init) /\ Range(q2) = Range(rest) \union {m}
  <2>1. /\ NullEvent(n, m, r, k, Head(q).ts)
        /\ IsNull(Head(q), k) /\ q # <<>> /\ now \in Nat
        /\ RankQueue(n, r, q, now, stop, init)
    BY <1>3, <1>4, <1>7, Zenon DEF NullEvent
  <2>2. QueueWith(n, r, Tail(q), m, Head(q).ts, stop, init)
    BY <2>1, RankNulled, Zenon
  <2> QED
    BY <1>3, <1>8, <2>2, Zenon DEF QueueWith
<1>10. PICK safe, old, g : /\ safe \in Nat /\ safe = m_safeTime[r]
                           /\ old \in Nat /\ old = Last(r, n.to[d])
                           /\ g = Min({f.ts, safe}) + n.delay[d]
  <2>1. m_safeTime[r] \in Nat /\ Last(r, n.to[d]) \in Nat
    BY <1>6, Now, NowLink, Zenon
  <2> QED
    BY <2>1, Zenon
<1>11. Renewed(n, d, old, g, q2, t, "receive", busy[d], safe)
  <2>1. Backed(n, d, old, q, now, pc[r], busy[d], safe)
    BY <1>3, <1>6, <1>10, NowLink, Zenon
  <2>2. IsNull(h, n.to[d]) /\ h.ts \in Nat /\ After(rest, h, f, n.to[d]) /\ IsNull(m, n.to[d])
    BY <1>3, <1>4, <1>5, <1>6, <1>7, Zenon DEF NullEvent
  <2> QED
    BY <1>4, <1>5, <1>9, <1>10, <1>7, <2>1, <2>2, BackedNull, Zenon
<1>12. PICK msg \in MsgType : msg = Message(0, g) /\ msg.guarantee = g /\ msg.rx = 0
  <2>1. g \in Nat /\ 0 \in Nat
    BY <1>11, Zenon DEF Renewed
  <2>2. Message(0, g) \in MsgType /\ Message(0, g).guarantee = g /\ Message(0, g).rx = 0
    BY <2>1, NewMessage, Zenon
  <2> QED
    BY <2>2, Zenon
<1>13. Sends(r, n.to[d], msg) /\ MayFollow(Last(r, n.to[d]), msg)
  <2>1. ~(0 > 0)
    OBVIOUS
  <2> QED
    BY <1>6, <1>7, <1>10, <1>11, <1>12, <2>1, Zenon DEF MayFollow, Renewed
<1>14. /\ DOMAIN m_events' = n.ranks /\ m_events'[r] = q2
       /\ \A s \in n.ranks \ {r} : m_events'[s] = m_events[s]
       /\ DOMAIN pc' = n.ranks /\ pc'[r] = "receive" /\ \A s \in n.ranks \ {r} : pc'[s] = pc[s]
  <2>1. DOMAIN m_events = n.ranks /\ DOMAIN pc = n.ranks
    BY Zenon DEF Inv, Types
  <2>2. /\ DOMAIN m_events' = n.ranks /\ m_events'[r] = q2
        /\ \A s \in n.ranks \ {r} : m_events'[s] = m_events[s]
    BY <1>7, <1>8, <2>1, Updated, Zenon
  <2>3. DOMAIN pc' = n.ranks /\ pc'[r] = "receive" /\ \A s \in n.ranks \ {r} : pc'[s] = pc[s]
    BY <1>2, <2>1, Updated, Zenon
  <2> QED
    BY <2>2, <2>3, Zenon
<1>15. ASSUME net' \in [n.ranks -> [n.ranks -> Seq(MsgType)]] PROVE Types(n)'
  BY <1>1, <1>2, <1>7, <1>14, <1>15, Zenon DEF Inv, Types
<1>16. OthersKept(n, r)
  BY <1>1, <1>2, <1>7, <1>14, Zenon DEF OthersKept
<1>17. RankInv(n, r)'
  BY <1>0, <1>1, <1>2, <1>3, <1>4, <1>9, <1>14, Zenon DEF Inv, RankInv
<1>18. Backed(n, d, msg.guarantee, m_events'[r], m_currentTs'[r], pc'[r], busy'[d], m_safeTime'[r])
  BY <1>1, <1>3, <1>7, <1>10, <1>11, <1>12, <1>14, Zenon DEF Renewed
<1>19. ASSUME NEW e \in n.devices \ {d}, n.from[e] = r
       PROVE  Backed(n, e, Last(r, n.to[e]), m_events'[r], m_currentTs'[r], pc'[r], busy'[e], m_safeTime'[r])
  <2>1. e \in n.devices /\ n.to[e] # k
    BY <1>6, <1>19, Zenon DEF OneLinkPerPair
  <2>2. /\ Last(r, n.to[e]) \in Nat
        /\ Backed(n, e, Last(r, n.to[e]), q, now, pc[r], busy[e], safe)
    BY <1>3, <1>10, <1>19, <2>1, NowLink, Zenon
  <2>3. ~IsNull(Head(q), n.to[e]) /\ Head(q) \in Range(q) /\ Range(Tail(q)) \subseteq Range(q)
    BY <1>3, <1>4, <2>1, Zenon DEF IsNull
  <2>4. Backed(n, e, Last(r, n.to[e]), Tail(q), Head(q).ts, "handler", busy[e], safe)
    BY <1>10, <2>1, <2>2, <2>3, BackedPop, Zenon
  <2>5. Backed(n, e, Last(r, n.to[e]), rest, t, "handler", busy[e], safe)
    BY <1>3, <2>4, Zenon
  <2>6. /\ ~IsNull(m, n.to[e]) /\ ~(m.kind = "complete" /\ m.peer = e)
        /\ ("handler" = "handler" /\ m.ts >= t) \/ m.ts >= safe
    BY <1>0, <1>7, <2>1, Zenon DEF NullEvent, IsNull
  <2>7. Backed(n, e, Last(r, n.to[e]), q2, t, "handler", busy[e], safe)
    BY <1>4, <1>7, <1>9, <1>10, <2>1, <2>2, <2>5, <2>6, BackedInsert, Zenon
  <2>8. Backed(n, e, Last(r, n.to[e]), q2, t, "receive", busy[e], safe)
    BY <2>7, BackedReturn, Zenon
  <2> QED
    BY <1>1, <1>3, <1>7, <1>10, <1>14, <2>8, Zenon
<1> QED
  BY <1>1, <1>6, <1>13, <1>15, <1>16, <1>17, <1>18, <1>19, SendStep, Zenon

(* A first guarantee: the delay of the link. *)
LEMMA BackedFirst ==
    ASSUME NEW n \in Networks, NEW d \in n.devices, NEW q, NEW t \in Nat, Queue(q, t), NEW b
    PROVE  Backed(n, d, n.delay[d], q, t, "start", b, 0)
<1>1. n.delay[d] \in Nat /\ \A e \in Range(q) : e.ts \in Nat
  BY DeviceFacts, QueueElements, Zenon
<1>2. \A x \in Nat : n.delay[d] <= n.delay[d] + x
  BY <1>1
<1>3. "start" # "handler" /\ 0 \in Nat
  OBVIOUS
<1>4. \A e \in Range(q) : n.delay[d] <= n.delay[d] + e.ts
  BY <1>1, <1>2, Zenon
<1> QED
  BY <1>2, <1>3, <1>4, Zenon DEF Backed, Beyond, UpToComplete

(* InitializeNullMessageEvents, for one bundle. *)
LEMMA InitializeStep ==
    ASSUME OneLinkPerPair, NEW n \in Networks, NEW r \in n.ranks, Inv(n), InitializeNullMessageEvents(r)
    PROVE  Inv(n)'
<1>0. "null" # "complete" /\ ~(0 > 0) /\ 0 \in Nat
  OBVIOUS
<1>1. PICK k \in toInit[r] :
        /\ Send(r, k, 0, BundleDelay(r, k))
        /\ m_events' = [m_events EXCEPT ![r] = ScheduleNull(r, k, @)]
        /\ toInit' = [toInit EXCEPT ![r] = @ \ {k}]
  BY Zenon DEF InitializeNullMessageEvents
<1>2. /\ pc[r] = "start"
      /\ UNCHANGED <<network, m_currentTs, m_safeTime, m_stop, m_guaranteeTime, pc, busy>>
  BY Zenon DEF InitializeNullMessageEvents
<1>3. m_safeTime[r] = 0 /\ k \in Neighbours(n, r)
  BY <1>2, Zenon DEF Inv, RankInv
<1>4. PICK d \in n.devices : n.from[d] = r /\ n.to[d] = k
  BY <1>3, Zenon DEF Neighbours
<1>5. PICK q, t, stop, init :
        /\ q = m_events[r] /\ t = m_currentTs[r] /\ stop = m_stop[r] /\ init = toInit[r] /\ t \in Nat
        /\ RankQueue(n, r, q, t, stop, init)
  BY Now, Zenon
<1>6. PICK m : m = Event(t + NullPeriod(n, r, k), "null", k)
  OBVIOUS
<1>7. m \in EventType /\ NullEvent(n, m, r, k, t) /\ m.ts \in Nat /\ m.ts >= 0
  <2>1. k \in Nat /\ NullPeriod(n, r, k) \in Nat
    BY <1>3, NeighbourFacts, PeriodFacts, Zenon
  <2>2. t + NullPeriod(n, r, k) \in Nat /\ t + NullPeriod(n, r, k) >= t
    BY <1>5, <2>1, SumFacts, Zenon
  <2>3. m \in EventType /\ IsNull(m, k) /\ m.ts = t + NullPeriod(n, r, k)
    BY <1>6, <2>1, <2>2, NewEvents
  <2>4. \A x \in Nat : x >= 0
    OBVIOUS
  <2> QED
    BY <2>2, <2>3, <2>4, Zenon DEF NullEvent
<1>8. /\ Sends(r, n.to[d], Message(0, n.delay[d]))
      /\ m_events' = [m_events EXCEPT ![r] = InsertEvent(q, m)]
  <2>1. network = n
    BY Now, Zenon
  <2>2. BundleDelay(r, k) = LinkDelay(n, r, k) /\ Period(r, k) = NullPeriod(n, r, k)
    BY <2>1, SameNetwork, Zenon
  <2>3. LinkDelay(n, r, k) = n.delay[d]
    BY <1>4, OneDelay, Zenon
  <2> QED
    BY <1>1, <1>4, <1>5, <1>6, <2>2, <2>3, Zenon DEF Send, Sends, Message, ScheduleNull
<1>9. PICK q2 : q2 = InsertEvent(q, m)
  OBVIOUS
<1>10. RankQueue(n, r, q2, t, stop, init \ {k}) /\ Range(q2) = Range(q) \union {m}
  <2>1. k \in init
    BY <1>1, <1>5, Zenon
  <2>2. QueueWith(n, r, q, m, t, stop, init \ {k})
    BY <1>3, <1>5, <1>7, <2>1, RankInitialized, Zenon
  <2> QED
    BY <1>9, <2>2, Zenon DEF QueueWith
<1>11. PICK msg \in MsgType : msg = Message(0, n.delay[d]) /\ msg.guarantee = n.delay[d] /\ msg.rx = 0
  <2>1. n.delay[d] \in Nat
    BY DeviceFacts, Zenon
  <2>2. /\ Message(0, n.delay[d]) \in MsgType /\ Message(0, n.delay[d]).guarantee = n.delay[d]
        /\ Message(0, n.delay[d]).rx = 0
    BY <1>0, <2>1, NewMessage, Zenon
  <2> QED
    BY <2>2, Zenon
<1>12. Sends(r, n.to[d], msg) /\ MayFollow(Last(r, n.to[d]), msg)
  <2>1. Backed(n, d, Last(r, n.to[d]), m_events[r], m_currentTs[r], pc[r], busy[d], m_safeTime[r])
    BY <1>4, NowLink, Zenon
  <2>2. Last(r, n.to[d]) <= n.delay[d] + 0
    BY <1>3, <2>1, Zenon DEF Backed
  <2>3. n.delay[d] \in Nat
    BY DeviceFacts, Zenon
  <2>4. n.delay[d] + 0 = n.delay[d]
    BY <2>3
  <2> QED
    BY <1>0, <1>8, <1>11, <2>2, <2>4, Zenon DEF MayFollow
<1>13. /\ DOMAIN m_events' = n.ranks /\ m_events'[r] = q2
       /\ \A s \in n.ranks \ {r} : m_events'[s] = m_events[s]
       /\ DOMAIN toInit' = n.ranks /\ toInit'[r] = init \ {k}
       /\ \A s \in n.ranks \ {r} : toInit'[s] = toInit[s]
  <2>1. DOMAIN m_events = n.ranks /\ DOMAIN toInit = n.ranks
    BY Zenon DEF Inv, Types
  <2>2. /\ DOMAIN m_events' = n.ranks /\ m_events'[r] = q2
        /\ \A s \in n.ranks \ {r} : m_events'[s] = m_events[s]
    BY <1>8, <1>9, <2>1, Updated, Zenon
  <2>3. toInit' = [toInit EXCEPT ![r] = init \ {k}]
    BY <1>1, <1>5, Zenon
  <2>4. DOMAIN toInit' = n.ranks /\ toInit'[r] = init \ {k} /\ \A s \in n.ranks \ {r} : toInit'[s] = toInit[s]
    BY <2>1, <2>3, Updated, Zenon
  <2> QED
    BY <2>2, <2>4, Zenon
<1>14. ASSUME net' \in [n.ranks -> [n.ranks -> Seq(MsgType)]] PROVE Types(n)'
  BY <1>2, <1>13, <1>14, Zenon DEF Inv, Types
<1>15. OthersKept(n, r)
  BY <1>2, <1>13, Zenon DEF OthersKept
<1>16. RankInv(n, r)'
  BY <1>2, <1>5, <1>10, <1>13, Zenon DEF Inv, RankInv
<1>17. Backed(n, d, msg.guarantee, m_events'[r], m_currentTs'[r], pc'[r], busy'[d], m_safeTime'[r])
  <2>1. Queue(q2, t)
    BY <1>10, Zenon DEF RankQueue
  <2>2. Backed(n, d, n.delay[d], q2, t, "start", busy[d], 0)
    BY <1>5, <2>1, BackedFirst, Zenon
  <2> QED
    BY <1>2, <1>3, <1>5, <1>11, <1>13, <2>2, Zenon
<1>18. ASSUME NEW e \in n.devices \ {d}, n.from[e] = r
       PROVE  Backed(n, e, Last(r, n.to[e]), m_events'[r], m_currentTs'[r], pc'[r], busy'[e], m_safeTime'[r])
  <2>1. e \in n.devices /\ n.to[e] # k
    BY <1>4, <1>18, Zenon DEF OneLinkPerPair
  <2>2. /\ Last(r, n.to[e]) \in Nat
        /\ Backed(n, e, Last(r, n.to[e]), q, t, pc[r], busy[e], 0)
    BY <1>3, <1>5, <1>18, <2>1, NowLink, Zenon
  <2>3. /\ ~IsNull(m, n.to[e]) /\ ~(m.kind = "complete" /\ m.peer = e)
        /\ (pc[r] = "handler" /\ m.ts >= t) \/ m.ts >= 0
    BY <1>0, <1>7, <2>1, Zenon DEF NullEvent, IsNull
  <2>4. Backed(n, e, Last(r, n.to[e]), q2, t, pc[r], busy[e], 0)
    BY <1>0, <1>5, <1>7, <1>10, <2>1, <2>2, <2>3, BackedInsert, Zenon
  <2> QED
    BY <1>2, <1>3, <1>5, <1>13, <2>4, Zenon
<1> QED
  BY <1>2, <1>4, <1>12, <1>14, <1>15, <1>16, <1>17, <1>18, SendStep, Zenon

(* What a message puts into the queue of r. *)
LEMMA ReceivedEvent ==
    ASSUME NEW n \in Networks, NEW r \in n.ranks, Inv(n), NEW k \in Neighbours(n, r),
           Receive(r, k), Received(n, r, k)
    PROVE  /\ DOMAIN m_events' = n.ranks /\ \A s \in n.ranks \ {r} : m_events'[s] = m_events[s]
           /\ RankQueue(n, r, m_events'[r], m_currentTs[r], m_stop[r], toInit[r])
           /\ \A d \in n.devices : n.from[d] = r =>
                Backed(n, d, Last(r, n.to[d]), m_events'[r], m_currentTs[r], pc[r], busy[d], m_safeTime[r])
<1>0. "user" # "null" /\ "user" # "complete"
  OBVIOUS
<1>1. PICK q, t, safe, stop, init :
        /\ q = m_events[r] /\ t = m_currentTs[r] /\ stop = m_stop[r] /\ init = toInit[r]
        /\ safe = m_safeTime[r] /\ t \in Nat /\ safe \in Nat /\ t <= safe /\ r \in Nat
        /\ RankQueue(n, r, q, t, stop, init)
  BY Now, Zenon
<1>2. \A d \in n.devices : n.from[d] = r =>
        Last(r, n.to[d]) \in Nat /\ Backed(n, d, Last(r, n.to[d]), q, t, pc[r], busy[d], safe)
  BY <1>1, NowLink, Zenon
<1>3. DOMAIN m_events = n.ranks
  BY Zenon DEF Inv, Types
<1>4. PICK msg \in MsgType : msg = Head(net[k][r]) /\ (msg.rx > 0 => msg.rx >= m_guaranteeTime[r][k])
  BY Zenon DEF Received
<1>5. m_events' = IF msg.rx > 0 THEN [m_events EXCEPT ![r] = InsertEvent(@, Event(msg.rx, "user", r))]
                                ELSE m_events
  BY <1>4, Zenon DEF Receive
<1>6. CASE ~(msg.rx > 0)
  <2>1. m_events' = m_events
    BY <1>5, <1>6, Zenon
  <2> QED
    BY <1>1, <1>2, <1>3, <2>1, Zenon
<1>7. CASE msg.rx > 0
  <2>1. PICK rx \in Nat : rx = msg.rx /\ rx >= safe /\ rx >= t
    <3>1. msg.rx \in Nat
      BY DEF MsgType
    <3>2. k \in n.ranks /\ safe <= m_guaranteeTime[r][k] /\ m_guaranteeTime[r][k] \in Nat
      <4>1. k \in n.ranks
        BY NeighbourFacts, Zenon
      <4> QED
        BY <1>1, <4>1, LastFacts, Zenon DEF Inv, RankInv
    <3>3. \A a, b, c, x \in Nat : a <= b /\ b <= c /\ x >= c => x >= b /\ x >= a
      OBVIOUS
    <3> QED
      BY <1>1, <1>4, <1>7, <3>1, <3>2, <3>3, Zenon
  <2>2. PICK ev : ev = Event(rx, "user", r)
    OBVIOUS
  <2>3. ev \in EventType /\ ev.kind = "user" /\ ev.ts = rx
    BY <1>1, <2>1, <2>2, NewEvents
  <2>4. ev.ts >= t /\ ev.ts >= safe
    BY <2>1, <2>3, Zenon
  <2>5. PICK q2 : q2 = InsertEvent(q, ev)
    OBVIOUS
  <2>6. RankQueue(n, r, q2, t, stop, init) /\ Range(q2) = Range(q) \union {ev}
    <3>1. QueueWith(n, r, q, ev, t, stop, init)
      BY <1>1, <2>3, <2>4, RankInserted, Zenon
    <3> QED
      BY <2>5, <3>1, Zenon DEF QueueWith
  <2>7. m_events' = [m_events EXCEPT ![r] = q2]
    BY <1>1, <1>5, <1>7, <2>1, <2>2, <2>5, Zenon
  <2>8. DOMAIN m_events' = n.ranks /\ m_events'[r] = q2 /\ \A s \in n.ranks \ {r} : m_events'[s] = m_events[s]
    BY <1>3, <2>7, Updated, Zenon
  <2>9. ASSUME NEW d \in n.devices, n.from[d] = r
        PROVE  Backed(n, d, Last(r, n.to[d]), q2, t, pc[r], busy[d], safe)
    <3>1. Last(r, n.to[d]) \in Nat /\ Backed(n, d, Last(r, n.to[d]), q, t, pc[r], busy[d], safe)
      BY <1>2, <2>9, Zenon
    <3>2. ~IsNull(ev, n.to[d]) /\ ~(ev.kind = "complete" /\ ev.peer = d)
      BY <1>0, <2>3, Zenon DEF IsNull
    <3> QED
      BY <1>1, <2>3, <2>4, <2>6, <3>1, <3>2, BackedInsert, Zenon
  <2> QED
    BY <1>1, <2>6, <2>8, <2>9, Zenon
<1> QED
  BY <1>6, <1>7, Zenon

(* A message from k; safe is the safe time after it. *)
LEMMA ReceiveStep ==
    ASSUME NEW n \in Networks, NEW r \in n.ranks, Inv(n), NEW k \in n.ranks, Receive(r, k),
           pc[r] # "start",
           UNCHANGED <<network, m_currentTs, m_stop, toInit, pc, busy>>,
           m_safeTime' \in [n.ranks -> Nat], m_safeTime'[r] >= m_safeTime[r],
           \A s \in n.ranks \ {r} : m_safeTime'[s] = m_safeTime[s],
           \A j \in Neighbours(n, r) : m_safeTime'[r] <= m_guaranteeTime'[r][j]
    PROVE  Inv(n)'
<1>1. k \in Neighbours(n, r) /\ Receives(r, k)
  <2>1. network = n
    BY Now, Zenon
  <2>2. Bundles(r) = Neighbours(n, r)
    BY <2>1, SameNetwork, Zenon
  <2> QED
    BY <2>2, Zenon DEF Receive, Receives
<1>2. Received(n, r, k)
  BY <1>1, ReceiveMessage, Zenon
<1>3. /\ DOMAIN m_events' = n.ranks /\ \A s \in n.ranks \ {r} : m_events'[s] = m_events[s]
      /\ RankQueue(n, r, m_events'[r], m_currentTs[r], m_stop[r], toInit[r])
      /\ \A d \in n.devices : n.from[d] = r =>
           Backed(n, d, Last(r, n.to[d]), m_events'[r], m_currentTs[r], pc[r], busy[d], m_safeTime[r])
  BY <1>1, <1>2, ReceivedEvent, Zenon
<1>4. Types(n)'
  BY <1>2, <1>3, Zenon DEF Inv, Types, Received
<1>5. OthersKept(n, r)
  BY <1>2, <1>3, Zenon DEF OthersKept, Received
<1>6. m_safeTime[r] \in Nat /\ m_safeTime'[r] \in Nat /\ m_currentTs[r] \in Nat /\ m_currentTs[r] <= m_safeTime[r]
  BY Now, Zenon
<1>7. RankInv(n, r)'
  <2>1. m_currentTs[r] <= m_safeTime'[r]
    <3>1. \A a, b, c \in Nat : a <= b /\ c >= b => a <= c
      OBVIOUS
    <3> QED
      BY <1>6, <3>1, Zenon
  <2> QED
    BY <1>3, <2>1, Zenon DEF Inv, RankInv
<1>8. ASSUME NEW d \in n.devices, n.from[d] = r PROVE LinkInv(n, d)'
  <2>1. Last(r, n.to[d]) \in Nat /\ n.to[d] \in n.ranks
    BY <1>8, NowLink, Zenon
  <2>2. Backed(n, d, Last(r, n.to[d]), m_events'[r], m_currentTs[r], pc[r], busy[d], m_safeTime[r])
    BY <1>3, <1>8, Zenon
  <2>3. Backed(n, d, Last(r, n.to[d]), m_events'[r], m_currentTs[r], pc[r], busy[d], m_safeTime'[r])
    BY <1>6, <2>1, <2>2, BackedLater, Zenon
  <2>4. Last(r, n.to[d])' = Last(r, n.to[d])
    BY <1>2, <2>1, Zenon DEF Received
  <2> QED
    BY <1>8, <2>3, <2>4, Zenon DEF LinkInv
<1> QED
  BY <1>2, <1>4, <1>5, <1>7, <1>8, Assemble, Zenon DEF Received

(* What SafeTimeForward says of a step, for the network n. *)
Forward(n) ==
    \A s \in n.ranks : /\ m_safeTime'[s] >= m_safeTime[s]
                       /\ m_currentTs'[s] <= m_safeTime[s]
                       /\ \A k \in n.ranks : m_guaranteeTime'[s][k] >= m_guaranteeTime[s][k]

LEMMA HeldFacts ==
    ASSUME NEW n \in Networks, Inv(n), NEW s \in n.ranks
    PROVE  /\ m_safeTime[s] >= m_safeTime[s] /\ m_currentTs[s] <= m_safeTime[s]
           /\ \A k \in n.ranks : m_guaranteeTime[s][k] >= m_guaranteeTime[s][k]
<1>1. m_safeTime[s] \in Nat /\ m_currentTs[s] <= m_safeTime[s]
  BY Now, Zenon
<1>2. \A k \in n.ranks : m_guaranteeTime[s][k] \in Nat
  BY LastFacts, Zenon
<1> QED
  BY <1>1, <1>2, AtLeastItself, Zenon

LEMMA QuietForward ==
    ASSUME NEW n \in Networks, Inv(n), UNCHANGED <<m_currentTs, m_safeTime, m_guaranteeTime>>
    PROVE  Forward(n)
BY HeldFacts, Zenon DEF Forward

LEMMA ReceiveSteps ==
    ASSUME NEW n \in Networks, NEW r \in n.ranks, Inv(n), NEW k \in n.ranks,
           ReceiveNonBlocking(r, k) \/ ReceiveBlocking(r, k)
    PROVE  Inv(n)' /\ Forward(n)
<1>0. "receive" # "start" /\ "loop" # "start"
  OBVIOUS
<1>1. /\ pc[r] # "start" /\ Receive(r, k)
      /\ UNCHANGED <<network, m_currentTs, m_stop, toInit, pc, busy>>
  BY <1>0, Zenon DEF ReceiveNonBlocking, ReceiveBlocking
<1>2. k \in Neighbours(n, r) /\ Receives(r, k)
  <2>1. network = n
    BY Now, Zenon
  <2>2. Bundles(r) = Neighbours(n, r)
    BY <2>1, SameNetwork, Zenon
  <2> QED
    BY <1>1, <2>2, Zenon DEF Receive, Receives
<1>3. Received(n, r, k)
  BY <1>2, ReceiveMessage, Zenon
<1>4. /\ m_guaranteeTime'[r] \in [n.ranks -> Nat] /\ m_safeTime \in [n.ranks -> Nat]
      /\ m_safeTime[r] \in Nat
  BY <1>3, Zenon DEF Received, Inv, Types
<1>5. \A j \in Neighbours(n, r) : m_safeTime[r] <= m_guaranteeTime'[r][j]
  <2>1. SUFFICES ASSUME NEW j \in Neighbours(n, r) PROVE m_safeTime[r] <= m_guaranteeTime'[r][j]
    BY Zenon
  <2>2. j \in n.ranks
    BY NeighbourFacts, Zenon
  <2>3. m_safeTime[r] <= m_guaranteeTime[r][j] /\ m_guaranteeTime[r][j] \in Nat
    BY <2>2, LastFacts, Zenon DEF Inv, RankInv
  <2>4. m_guaranteeTime'[r][j] \in Nat /\ m_guaranteeTime'[r][j] >= m_guaranteeTime[r][j]
    BY <1>3, <1>4, <2>2, Zenon DEF Received
  <2>5. \A a, b, c \in Nat : a <= b /\ c >= b => a <= c
    OBVIOUS
  <2> QED
    BY <1>4, <2>3, <2>4, <2>5, Zenon
<1>6. /\ m_safeTime' \in [n.ranks -> Nat] /\ m_safeTime'[r] >= m_safeTime[r]
      /\ \A s \in n.ranks \ {r} : m_safeTime'[s] = m_safeTime[s]
      /\ \A j \in Neighbours(n, r) : m_safeTime'[r] <= m_guaranteeTime'[r][j]
  <2>1. CASE ReceiveNonBlocking(r, k)
    <3>1. m_safeTime' = m_safeTime
      BY <2>1, Zenon DEF ReceiveNonBlocking
    <3> QED
      BY <1>4, <1>5, <3>1, AtLeastItself, Zenon
  <2>2. CASE ReceiveBlocking(r, k)
    <3>1. network = n
      BY Now, Zenon
    <3>2. PICK safe \in Nat : /\ safe = SafeTime(r, m_guaranteeTime'[r]) /\ safe >= m_safeTime[r]
                              /\ \A j \in Neighbours(n, r) : safe <= m_guaranteeTime'[r][j]
      BY <1>4, <1>5, <3>1, SafeTimeFacts, Zenon
    <3>3. m_safeTime' = [m_safeTime EXCEPT ![r] = safe]
      BY <2>2, <3>2, Zenon DEF ReceiveBlocking
    <3>4. /\ m_safeTime' \in [n.ranks -> Nat] /\ m_safeTime'[r] = safe
          /\ \A s \in n.ranks \ {r} : m_safeTime'[s] = m_safeTime[s]
      BY <1>4, <3>3, UpdatedIn, Zenon
    <3> QED
      BY <3>2, <3>4, Zenon
  <2> QED
    BY <2>1, <2>2
<1>7. Inv(n)'
  BY <1>1, <1>6, ReceiveStep, Zenon
<1>8. Forward(n)
  <2>1. ASSUME NEW s \in n.ranks
        PROVE  m_safeTime'[s] >= m_safeTime[s] /\ m_currentTs'[s] <= m_safeTime[s]
    BY <1>1, <1>6, HeldFacts, Zenon
  <2> QED
    BY <1>3, <2>1, Zenon DEF Forward, Received
<1> QED
  BY <1>7, <1>8

LEMMA ProcessForward ==
    ASSUME NEW n \in Networks, NEW r \in n.ranks, Inv(n), ProcessOneEvent(r)
    PROVE  Forward(n)
<1>1. /\ m_currentTs'[r] <= m_safeTime[r] /\ \A s \in n.ranks \ {r} : m_currentTs'[s] = m_currentTs[s]
      /\ UNCHANGED <<m_safeTime, m_guaranteeTime>>
  BY Popped, Zenon
<1>2. ASSUME NEW s \in n.ranks PROVE m_currentTs'[s] <= m_safeTime[s]
  BY <1>1, HeldFacts, Zenon
<1> QED
  BY <1>1, <1>2, HeldFacts, Zenon DEF Forward

LEMMA SafeTimeStepForward ==
    ASSUME NEW n \in Networks, NEW r \in n.ranks, Inv(n), CalculateSafeTime(r)
    PROVE  Forward(n)
<1>1. UNCHANGED <<m_currentTs, m_guaranteeTime>>
  BY Zenon DEF CalculateSafeTime
<1>2. m_safeTime'[r] >= m_safeTime[r] /\ \A s \in n.ranks \ {r} : m_safeTime'[s] = m_safeTime[s]
  BY SafeTimeStep, Zenon
<1>3. ASSUME NEW s \in n.ranks PROVE m_safeTime'[s] >= m_safeTime[s]
  BY <1>2, HeldFacts, Zenon
<1> QED
  BY <1>1, <1>3, HeldFacts, Zenon DEF Forward

LEMMA ProcessStep ==
    ASSUME OneLinkPerPair, NEW n \in Networks, NEW r \in n.ranks, Inv(n), ProcessOneEvent(r)
    PROVE  Inv(n)'
<1>1. Head(m_events[r]).kind \in {"null", "complete", "user", "stop", "cancelled"}
  BY Zenon DEF ProcessOneEvent, Process
<1>2. CASE Head(m_events[r]).kind = "null"
  BY <1>2, NullStep, Zenon
<1>3. CASE Head(m_events[r]).kind = "complete"
  BY <1>3, IdleStep, NextPacketStep, Zenon
<1>4. CASE Head(m_events[r]).kind \in {"user", "stop", "cancelled"}
  BY <1>4, UserOrStopStep, Zenon
<1> QED
  BY <1>1, <1>2, <1>3, <1>4, Zenon

LEMMA StepKeeps ==
    ASSUME OneLinkPerPair, NEW n \in Networks, NEW r \in n.ranks, Inv(n), Step(r)
    PROVE  Inv(n)' /\ Forward(n)
<1>0. Ranks = n.ranks /\ Devices = n.devices
  BY Now, SameNetwork, Zenon
<1>1. CASE InitializeNullMessageEvents(r)
  <2>1. UNCHANGED <<m_currentTs, m_safeTime, m_guaranteeTime>>
    BY <1>1, Zenon DEF InitializeNullMessageEvents
  <2> QED
    BY <1>1, <2>1, InitializeStep, QuietForward, Zenon
<1>2. CASE RunLoop(r) \/ RunReturns(r) \/ HandlerReturns(r)
  <2>1. UNCHANGED <<m_currentTs, m_safeTime, m_guaranteeTime>>
    BY <1>2, Zenon DEF RunLoop, RunReturns, HandlerReturns
  <2> QED
    BY <1>2, <2>1, PlaceSteps, QuietForward, Zenon
<1>3. CASE HandlerSchedule(r)
  <2>1. UNCHANGED <<m_currentTs, m_safeTime, m_guaranteeTime>>
    BY <1>3, Zenon DEF HandlerSchedule
  <2> QED
    BY <1>3, <2>1, ScheduleStep, QuietForward, Zenon
<1>4. ASSUME NEW d \in n.devices, HandlerSend(r, d) PROVE Inv(n)' /\ Forward(n)
  <2>1. UNCHANGED <<m_currentTs, m_safeTime, m_guaranteeTime>>
    BY <1>4, Zenon DEF HandlerSend
  <2> QED
    BY <1>4, <2>1, HandlerSendStep, QuietForward, Zenon
<1>5. CASE ProcessOneEvent(r)
  BY <1>5, ProcessStep, ProcessForward, Zenon
<1>6. CASE CalculateSafeTime(r)
  BY <1>6, SafeTimeStep, SafeTimeStepForward, Zenon
<1>7. ASSUME NEW k \in n.ranks, ReceiveNonBlocking(r, k) \/ ReceiveBlocking(r, k)
      PROVE  Inv(n)' /\ Forward(n)
  BY <1>7, ReceiveSteps, Zenon
<1> QED
  BY <1>0, <1>1, <1>2, <1>3, <1>4, <1>5, <1>6, <1>7, Zenon DEF Step

(* Wait, Terminated and stuttering. *)
LEMMA StutterKeeps ==
    ASSUME NEW n \in Networks, Inv(n), UNCHANGED vars
    PROVE  Inv(n)' /\ Forward(n)
<1>1. UNCHANGED <<network, m_events, m_currentTs, m_safeTime, m_stop, m_guaranteeTime, toInit, net, pc, busy>>
  BY DEF vars, engineVars
<1>2. \A s, k \in n.ranks : ChannelInv(n, s, k)' /\ Last(s, k)' = Last(s, k)
  BY <1>1, QuietMessages, Zenon
<1>3. Types(n)' /\ \A s \in n.ranks : RankInv(n, s)'
  BY <1>1, Zenon DEF Inv, Types, RankInv
<1>4. ASSUME NEW d \in n.devices PROVE LinkInv(n, d)'
  <2>1. n.from[d] \in n.ranks /\ n.to[d] \in n.ranks
    BY DeviceFacts, Zenon
  <2>2. Last(n.from[d], n.to[d])' = Last(n.from[d], n.to[d])
    BY <1>2, <2>1, Zenon
  <2> QED
    BY <1>1, <2>2, Zenon DEF Inv, LinkInv
<1>5. Inv(n)'
  BY <1>2, <1>3, <1>4, Zenon DEF Inv
<1> QED
  BY <1>1, <1>5, QuietForward, Zenon

LEMMA NextKeeps ==
    ASSUME OneLinkPerPair, NEW n \in Networks, Inv(n), [Next]_vars
    PROVE  Inv(n)' /\ Forward(n)
<1>1. Ranks = n.ranks
  <2>1. network = n
    BY Zenon DEF Inv, Types
  <2> QED
    BY <2>1, SameNetwork, Zenon
<1>2. CASE UNCHANGED vars
  BY <1>2, StutterKeeps, Zenon
<1>3. ASSUME NEW r \in n.ranks, Step(r) PROVE Inv(n)' /\ Forward(n)
  BY <1>3, StepKeeps, Zenon
<1>4. CASE Next
  <2>1. (\E r \in n.ranks : Step(r)) \/ UNCHANGED vars
    BY <1>1, <1>4, Zenon DEF Next, Wait, Terminated
  <2> QED
    BY <1>2, <1>3, <2>1, Zenon
<1> QED
  BY <1>2, <1>4, Zenon

-----------------------------------------------------------------------------
(* The first state. *)

LEMMA OneElement ==
    ASSUME NEW S, NEW x \in S
    PROVE  <<x>> \in Seq(S) /\ DOMAIN <<x>> = {1} /\ <<x>>[1] = x
OBVIOUS

LEMMA FirstQueue ==
    ASSUME NEW n \in Networks, NEW r \in n.ranks
    PROVE  RankQueue(n, r, InsertEvent(<<Event(0, "user", r)>>, Event(n.stopTime[r], "stop", r)),
                     0, FALSE, Neighbours(n, r))
<1>0. "user" # "null" /\ "user" # "complete" /\ "stop" # "null" /\ "stop" # "complete" /\ 0 \in Nat
  OBVIOUS
<1>1. r \in Nat /\ n.stopTime[r] \in Nat
  <2>1. n.stopTime \in [n.ranks -> Nat]
    BY NetworksAssumption, Zenon DEF IsNetwork
  <2> QED
    BY <2>1, NeighbourFacts, Zenon
<1>2. PICK u, st : u = Event(0, "user", r) /\ st = Event(n.stopTime[r], "stop", r)
  BY Zenon
<1>3. /\ u \in EventType /\ u.ts = 0 /\ u.kind = "user"
      /\ st \in EventType /\ st.ts \in Nat /\ st.ts >= 0 /\ st.kind = "stop"
  BY <1>1, <1>2 DEF Event, EventType
<1>4. PICK q : q = <<u>> /\ q \in Seq(EventType) /\ DOMAIN q = {1} /\ q[1] = u
  <2>1. <<u>> \in Seq(EventType) /\ DOMAIN <<u>> = {1} /\ <<u>>[1] = u
    BY <1>3, OneElement
  <2> QED
    BY <2>1, Zenon
<1>5. Queue(q, 0) /\ Range(q) = {u}
  <2>1. Range(q) = {u}
    BY <1>4, Zenon DEF Range
  <2>2. u.ts <= u.ts /\ u.ts >= 0
    BY <1>3
  <2>3. Sorted(q) /\ NotBefore(q, 0) /\ NullsOnce(q)
    BY <1>4, <2>2, Zenon DEF Sorted, NotBefore, NullsOnce
  <2> QED
    BY <1>4, <2>1, <2>3, Zenon DEF Queue
<1>6. PICK q2 : q2 = InsertEvent(q, st) /\ Queue(q2, 0) /\ Range(q2) = {u, st}
  <2>1. Queue(InsertEvent(q, st), 0) /\ Range(InsertEvent(q, st)) = Range(q) \union {st}
    <3>1. st.kind = "null" => \A e \in Range(q) : ~IsNull(e, st.peer)
      BY <1>0, <1>3, Zenon
    <3> QED
      BY <1>0, <1>3, <1>5, <3>1, QueueInsert
  <2> QED
    BY <1>5, <2>1, Zenon
<1>7. HasStop(q2) /\ OwnDevices(n, r, q2) /\ NullsSoon(n, r, q2, 0, Neighbours(n, r))
  BY <1>0, <1>3, <1>6, Zenon DEF HasStop, OwnDevices, NullsSoon
<1>8. NullsThere(n, r, q2, Neighbours(n, r))
  BY Zenon DEF NullsThere
<1> QED
  BY <1>2, <1>4, <1>6, <1>7, <1>8, Zenon DEF RankQueue

LEMMA InitInv ==
    ASSUME Init
    PROVE  NullInv
<1>1. PICK n \in Networks : network = n
  BY Zenon DEF Init
<1>2. /\ m_events = [r \in n.ranks |->
                       InsertEvent(<<Event(0, "user", r)>>, Event(n.stopTime[r], "stop", r))]
      /\ m_currentTs = [r \in n.ranks |-> 0] /\ m_safeTime = [r \in n.ranks |-> 0]
      /\ m_stop = [r \in n.ranks |-> FALSE]
      /\ m_guaranteeTime = [r \in n.ranks |-> [s \in n.ranks |-> 0]]
      /\ toInit = [r \in n.ranks |-> Neighbours(n, r)]
      /\ net = [r \in n.ranks |-> [s \in n.ranks |-> <<>>]]
      /\ busy = [d \in n.devices |-> FALSE]
      /\ pc = [r \in n.ranks |-> "start"]
  <2>1. Ranks = n.ranks /\ Devices = n.devices /\ \A r : Bundles(r) = Neighbours(n, r)
    BY <1>1, SameNetwork, Zenon
  <2> QED
    BY <1>1, <2>1, Zenon DEF Init
<1>3. \A r \in n.ranks : m_currentTs[r] = 0 /\ m_safeTime[r] = 0 /\ m_stop[r] = FALSE
                         /\ toInit[r] = Neighbours(n, r) /\ pc[r] = "start"
                         /\ m_events[r] = InsertEvent(<<Event(0, "user", r)>>, Event(n.stopTime[r], "stop", r))
                         /\ \A s \in n.ranks : m_guaranteeTime[r][s] = 0 /\ net[r][s] = <<>>
  BY <1>2, Zenon
<1>4. Types(n)
  <2>1. <<>> \in Seq(MsgType) /\ 0 \in Nat /\ FALSE \in BOOLEAN
    OBVIOUS
  <2>2. DOMAIN m_events = n.ranks /\ DOMAIN toInit = n.ranks /\ DOMAIN pc = n.ranks
    BY <1>2, Zenon
  <2>3. m_currentTs \in [n.ranks -> Nat] /\ m_safeTime \in [n.ranks -> Nat]
    BY <1>2, <2>1, Zenon
  <2>4. m_stop \in [n.ranks -> BOOLEAN] /\ busy \in [n.devices -> BOOLEAN]
    BY <1>2
  <2>5. m_guaranteeTime \in [n.ranks -> [n.ranks -> Nat]]
    BY <1>2
  <2>6. net \in [n.ranks -> [n.ranks -> Seq(MsgType)]]
    BY <1>2, <2>1
  <2> QED
    BY <1>1, <2>2, <2>3, <2>4, <2>5, <2>6, Zenon DEF Types
<1>5. ASSUME NEW s \in n.ranks PROVE RankInv(n, s)
  <2>1. RankQueue(n, s, m_events[s], m_currentTs[s], m_stop[s], toInit[s])
    BY <1>3, FirstQueue, Zenon
  <2>2. \A k \in Neighbours(n, s) : m_guaranteeTime[s][k] = 0
    <3>1. Neighbours(n, s) \subseteq n.ranks
      BY NeighbourFacts, Zenon
    <3> QED
      BY <1>3, <3>1, Zenon
  <2>3. 0 <= 0
    OBVIOUS
  <2> QED
    BY <1>3, <2>1, <2>2, <2>3, Zenon DEF RankInv
<1>6. \A s, k \in n.ranks : ChannelInv(n, s, k)
  <2>1. \A g : InOrder(g, <<>>)
    BY DEF InOrder
  <2> QED
    BY <1>3, <2>1, Zenon DEF ChannelInv
<1>7. ASSUME NEW d \in n.devices PROVE LinkInv(n, d)
  <2>1. PICK s, k : s \in n.ranks /\ k \in n.ranks /\ s = n.from[d] /\ k = n.to[d]
    BY DeviceFacts, Zenon
  <2>2. Last(s, k) = 0
    BY <1>3, <2>1, Zenon DEF Last, Latest
  <2>3. n.delay[d] \in Nat /\ \A e \in Range(m_events[s]) : e.ts \in Nat
    <3>1. Queue(m_events[s], 0)
      BY <1>3, <2>1, FirstQueue, Zenon DEF RankQueue
    <3> QED
      BY <3>1, DeviceFacts, QueueElements, Zenon
  <2>4. \A x \in Nat : 0 <= n.delay[d] + x
    BY <2>3
  <2>5. \A e \in Range(m_events[s]) : 0 <= n.delay[d] + e.ts
    BY <2>3, <2>4, Zenon
  <2>6. "start" # "handler" /\ 0 \in Nat
    OBVIOUS
  <2>7. Backed(n, d, 0, m_events[s], 0, "start", busy[d], 0)
    BY <2>4, <2>5, <2>6, Zenon DEF Backed, Beyond, UpToComplete
  <2> QED
    BY <1>3, <2>1, <2>2, <2>7, Zenon DEF LinkInv
<1> QED
  BY <1>4, <1>5, <1>6, <1>7, Zenon DEF Inv, NullInv

-----------------------------------------------------------------------------
(* Theorems. *)

(* What every state of the engine satisfies when at most one link joins two *)
(* ranks: the last guarantee a rank gave is backed by what its queue and    *)
(* its device can still send (LinkInv), guarantees travel in order          *)
(* (ChannelInv), and no rank is ahead of what its neighbours promised it.   *)
THEOREM NullInvariant ==
    ASSUME OneLinkPerPair
    PROVE  Spec => []NullInv
<1>1. Init => NullInv
  BY InitInv
<1>2. NullInv /\ [Next]_vars => NullInv'
  BY NextKeeps, Zenon DEF NullInv
<1> QED
  BY <1>1, <1>2, PTL DEF Spec

LEMMA InvGuaranteeHolds == NullInv => GuaranteeHolds
<1>1. SUFFICES ASSUME NEW n \in Networks, Inv(n) PROVE GuaranteeHolds
  BY Zenon DEF NullInv
<1>2. Ranks = n.ranks
  <2>1. network = n
    BY <1>1, Zenon DEF Inv, Types
  <2> QED
    BY <2>1, SameNetwork, Zenon
<1>3. \A r, s \in n.ranks : InOrder(m_guaranteeTime[r][s], net[s][r])
  BY <1>1, Zenon DEF Inv, ChannelInv
<1> QED
  BY <1>2, <1>3, Zenon DEF GuaranteeHolds, InOrder

(* The promise of a bundle (RemoteChannelBundle::m_guaranteeTime): no       *)
(* packet ever arrives with a receive time before the guarantee its rank    *)
(* holds, nor before one that is still in transit ahead of it.              *)
THEOREM NullGuaranteeHolds ==
    ASSUME OneLinkPerPair
    PROVE  Spec => []GuaranteeHolds
BY NullInvariant, InvGuaranteeHolds, PTL

LEMMA InvNoStraggler == NullInv => NoStraggler
<1>1. SUFFICES ASSUME NEW n \in Networks, Inv(n) PROVE NoStraggler
  BY Zenon DEF NullInv
<1>2. Ranks = n.ranks
  <2>1. network = n
    BY <1>1, Zenon DEF Inv, Types
  <2> QED
    BY <2>1, SameNetwork, Zenon
<1>3. ASSUME NEW r \in n.ranks, NEW s \in n.ranks, NEW i \in DOMAIN net[s][r], net[s][r][i].rx > 0
      PROVE  net[s][r][i].rx >= m_currentTs[r]
  <2>1. /\ m_guaranteeTime[r][s] \in Nat /\ net[s][r] \in Seq(MsgType)
        /\ InOrder(m_guaranteeTime[r][s], net[s][r])
    BY <1>1, LastFacts, Zenon
  <2>2. net[s][r][i].rx >= m_guaranteeTime[r][s]
    BY <1>3, <2>1, Zenon DEF InOrder
  <2>3. net[s][r][i].rx \in Nat
    BY <2>1, LatestFacts, Zenon
  <2>4. s \in Neighbours(n, r)
    <3>1. DOMAIN <<>> = {}
      OBVIOUS
    <3>2. net[s][r] # <<>>
      BY <3>1, Zenon
    <3>3. r \in Neighbours(n, s)
      BY <1>1, <3>2, Zenon DEF Inv, ChannelInv
    <3> QED
      BY <3>3, NeighbourFacts, Zenon
  <2>5. m_safeTime[r] <= m_guaranteeTime[r][s]
    BY <1>1, <2>4, Zenon DEF Inv, RankInv
  <2>6. m_currentTs[r] \in Nat /\ m_safeTime[r] \in Nat /\ m_currentTs[r] <= m_safeTime[r]
    BY <1>1, Now, Zenon
  <2>7. \A a, b, c, x \in Nat : a <= b /\ b <= c /\ x >= c => x >= a
    OBVIOUS
  <2> QED
    BY <2>1, <2>2, <2>3, <2>5, <2>6, <2>7, Zenon
<1> QED
  BY <1>2, <1>3, Zenon DEF NoStraggler

(* No packet is for a time its receiver has already passed, however the     *)
(* ranks interleave: the event that ReceiveMessages inserts is never before *)
(* the rank's current time.                                                 *)
THEOREM NullNoStraggler ==
    ASSUME OneLinkPerPair
    PROVE  Spec => []NoStraggler
BY NullInvariant, InvNoStraggler, PTL

(* The safe time and the guarantees never go back, and a rank never goes    *)
(* past the safe time it had: the assertions of SetGuaranteeTime and of     *)
(* CalculateSafeTime hold in every run.                                     *)
THEOREM NullSafeTimeForward ==
    ASSUME OneLinkPerPair
    PROVE  Spec => SafeTimeForward
<1> DEFINE A == \A r \in Ranks : /\ m_safeTime'[r] >= m_safeTime[r]
                                 /\ m_currentTs'[r] <= m_safeTime[r]
                                 /\ \A s \in Ranks : m_guaranteeTime'[r][s] >= m_guaranteeTime[r][s]
<1>1. NullInv /\ [Next]_vars => [A]_vars
  <2>1. SUFFICES ASSUME NEW n \in Networks, Inv(n), [Next]_vars PROVE A
    BY Zenon DEF NullInv
  <2>2. Ranks = n.ranks
    <3>1. network = n
      BY <2>1, Zenon DEF Inv, Types
    <3> QED
      BY <3>1, SameNetwork, Zenon
  <2>3. Forward(n)
    BY <2>1, NextKeeps, Zenon
  <2> QED
    BY <2>2, <2>3, Zenon DEF Forward
<1> QED
  BY <1>1, NullInvariant, PTL DEF Spec, SafeTimeForward
=============================================================================

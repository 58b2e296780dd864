----------------------------- MODULE MatcherProofs -----------------------------
(***************************************************************************)
(* Proofs about the order book, for every set of orders, prices, users and *)
(* self-trade prevention modes.                                            *)
(***************************************************************************)
EXTENDS Matcher, Sums, SequenceTheorems

(* An order on the book can be matched and is nowhere else.                *)
OnBook(o) ==
    /\ o \in Orders
    /\ Remaining(o) > 0
    /\ status[o] # "CANCELLED"
    /\ o \notin stops \cup triggered \cup fresh \cup offBook \cup {taker}

(* A queue holds orders of its own side and price, the oldest first.       *)
QueueOK(s, p) ==
    LET q == queue[s][p] IN
    /\ \A i \in 1..Len(q) :
           Order[q[i]].side = s /\ Order[q[i]].price = p /\ OnBook(q[i])
    /\ \A i, j \in 1..Len(q) : i < j => entry[q[i]] < entry[q[j]]

(* A queue that holds an order has its level; an empty one may keep it     *)
(* after CANCEL_BOTH.                                                      *)
LevelOK(s, p) ==
    /\ queue[s][p] # <<>> => p \in levels[s]
    /\ queue[s][p] = <<>> /\ p \in levels[s] =>
           \E o \in Orders : Order[o].side = s /\ Order[o].price = p
                             /\ status[o] = "CANCELLED"

(* An order is in one place at most, in none once it is cancelled, and has *)
(* something left to fill as long as it waits.                             *)
AwayOK(o) ==
    /\ Remaining(o) >= 0
    /\ entry[o] <= seq
    /\ o \in stops => o \notin triggered \cup fresh \cup offBook \cup {taker}
    /\ o \in triggered => o \notin fresh \cup offBook \cup {taker}
    /\ o \in fresh => o \notin offBook \cup {taker}
    /\ o \in offBook => o \notin {taker} \cup toBridge
    /\ o \in offBook \cup toBridge => o \in Bridged
    /\ o \in stops \cup triggered \cup fresh \cup offBook =>
           Remaining(o) > 0 /\ status[o] # "CANCELLED"
    /\ o = taker => status[o] # "CANCELLED"

(* The bids have a highest level.                                          *)
Bounded == \E n \in Prices \cup {0} : \A p \in levels["BUY"] : p <= n

(* No resting buy meets a resting sell, the mutex taken or not.            *)
Uncrossed ==
    \A b \in Resting("BUY") \ PutBack, s \in Resting("SELL") \ PutBack :
        Order[b].price < Order[s].price

(* A post-only order that is being handled has nothing to match.           *)
PostOnlyPassive == taker \in Orders => ~IsPostOnlyCrossing(taker)

IInv ==
    /\ TypeOK
    /\ \A s \in Sides, p \in Prices : QueueOK(s, p) /\ LevelOK(s, p)
    /\ \A o \in Orders : AwayOK(o)
    /\ Bounded
    /\ Uncrossed
    /\ PostOnlyPassive
    /\ TradesWithinLimits

-------------------------------------------------------------------------------
(* Orders, sequences and queues *)

LEMMA OrderFields ==
    ASSUME NEW o \in Orders
    PROVE  /\ Order[o].side \in Sides /\ Order[o].price \in Prices
           /\ Order[o].qty \in Nat /\ Order[o].qty > 0
           /\ Order[o].postOnly \in BOOLEAN
           /\ Order[o].postOnly => IsLimit(o)
           /\ Opposite(Order[o].side) \in Sides
           /\ Opposite(Order[o].side) # Order[o].side
BY MatcherAssumption DEF MatcherConstants, OrderData, IsLimit, Sides, Opposite

LEMMA PricesAreInts == \A p \in Prices : p \in Nat /\ p > 0
BY MatcherAssumption DEF MatcherConstants

(* r is q without its k-th element.                                        *)
Without(q, r, k) ==
    /\ r \in Seq(Orders)
    /\ k \in 1..Len(q)
    /\ Len(r) = Len(q) - 1
    /\ \A i \in 1..Len(r) : r[i] = IF i < k THEN q[i] ELSE q[i + 1]

LEMMA TailWithout ==
    ASSUME NEW q \in Seq(Orders), q # <<>>
    PROVE  Without(q, Tail(q), 1) /\ Head(q) = q[1]
BY HeadTailProperties DEF Without

LEMMA RemoveAtWithout ==
    ASSUME NEW q \in Seq(Orders), NEW k \in DOMAIN q
    PROVE  Without(q, RemoveAt(q, k), k)
<1>1. k \in 1..Len(q) /\ Len(q) \in Nat
  BY LenProperties
<1> DEFINE a == SubSeq(q, 1, k - 1)
           b == SubSeq(q, k + 1, Len(q))
<1>2. /\ a \in Seq(Orders) /\ Len(a) = k - 1
      /\ \A i \in 1..(k - 1) : a[i] = q[i]
  BY <1>1
<1>3. /\ b \in Seq(Orders) /\ Len(b) = Len(q) - k
      /\ \A i \in 1..(Len(q) - k) : b[i] = q[k + i]
  BY <1>1
<1> HIDE DEF a, b
<1>4. /\ a \o b \in Seq(Orders) /\ Len(a \o b) = Len(q) - 1
      /\ \A i \in 1..(Len(q) - 1) :
             (a \o b)[i] = IF i <= k - 1 THEN a[i] ELSE b[i - (k - 1)]
  <2>1. PICK m \in Nat, n \in Nat : m = Len(a) /\ n = Len(b)
    BY <1>1, <1>2, <1>3
  <2>2. a \in Seq(Orders) /\ b \in Seq(Orders)
    BY <1>2, <1>3
  <2>3. /\ a \o b \in Seq(Orders) /\ Len(a \o b) = m + n
        /\ \A i \in 1..(m + n) : (a \o b)[i] = IF i <= m THEN a[i] ELSE b[i - m]
    BY <2>1, <2>2, ConcatProperties, SMTT(20)
  <2>4. m = k - 1 /\ m + n = Len(q) - 1
    BY <1>1, <1>2, <1>3, <2>1
  <2> QED
    BY <2>3, <2>4
<1>5. ASSUME NEW i \in 1..(Len(q) - 1)
      PROVE  (a \o b)[i] = IF i < k THEN q[i] ELSE q[i + 1]
  <2>1. CASE i < k
    BY <1>1, <1>2, <1>4, <2>1
  <2>2. CASE ~(i < k)
    <3>1. i - (k - 1) \in 1..(Len(q) - k) /\ k + (i - (k - 1)) = i + 1
      BY <1>1, <2>2
    <3>2. b[i - (k - 1)] = q[i + 1]
      BY <1>3, <3>1
    <3> QED
      BY <1>1, <1>4, <2>2, <3>2
  <2> QED
    BY <2>1, <2>2
<1>6. RemoveAt(q, k) = a \o b
  BY DEF RemoveAt, a, b
<1> QED
  BY <1>1, <1>4, <1>5, <1>6 DEF Without

LEMMA AppendElement ==
    ASSUME NEW q \in Seq(Orders), NEW o \in Orders
    PROVE  /\ Append(q, o) \in Seq(Orders) /\ Append(q, o) # <<>>
           /\ Len(Append(q, o)) = Len(q) + 1
           /\ Append(q, o)[Len(q) + 1] = o
           /\ \A i \in 1..Len(q) : Append(q, o)[i] = q[i]
BY AppendProperties

LEMMA QueueType ==
    ASSUME TypeOK, NEW s \in Sides, NEW p \in Prices
    PROVE  queue[s][p] \in Seq(Orders) /\ Len(queue[s][p]) \in Nat
           /\ DOMAIN queue[s][p] = 1..Len(queue[s][p])
<1>1. queue[s][p] \in Seq(Orders)
  BY DEF TypeOK
<1> QED
  BY <1>1, LenProperties

(* One queue changes.                                                      *)
QueueTo(s, p, r) ==
    /\ queue' \in [Sides -> [Prices -> Seq(Orders)]]
    /\ queue'[s][p] = r
    /\ \A t \in Sides, u \in Prices : t # s \/ u # p => queue'[t][u] = queue[t][u]

LEMMA QueueUpdate ==
    ASSUME TypeOK, NEW s \in Sides, NEW p \in Prices, NEW r \in Seq(Orders),
           queue' = [queue EXCEPT ![s][p] = r]
    PROVE  QueueTo(s, p, r)
BY DEF TypeOK, QueueTo

LEMMA RestingMember ==
    ASSUME TypeOK, NEW s \in Sides
    PROVE  \A o : o \in Resting(s) <=>
               \E p \in Prices : \E i \in 1..Len(queue[s][p]) : queue[s][p][i] = o
<1>1. \A p \in Prices : DOMAIN queue[s][p] = 1..Len(queue[s][p])
  BY QueueType
<1> QED
  BY <1>1 DEF Resting, Range

LEMMA RestingMemberNext ==
    ASSUME TypeOK', NEW s \in Sides
    PROVE  \A o : o \in Resting(s)' <=>
               \E p \in Prices : \E i \in 1..Len(queue'[s][p]) : queue'[s][p][i] = o
<1>1. \A p \in Prices : DOMAIN queue'[s][p] = 1..Len(queue'[s][p])
  <2> TAKE p \in Prices
  <2>1. queue'[s][p] \in Seq(Orders)
    BY DEF TypeOK
  <2> QED
    BY <2>1, LenProperties
<1> QED
  BY <1>1 DEF Resting, Range

-------------------------------------------------------------------------------
(* The best level *)

(* The least upper bound of a set of naturals belongs to it.               *)
LEMMA GreatestExists ==
    ASSUME NEW T, T \subseteq Nat, T # {}, NEW n \in Nat, \A p \in T : p <= n
    PROVE  \E m \in T : \A p \in T : p <= m
<1> DEFINE U == {k \in Nat : \A p \in T : p <= k}
<1>1. U \subseteq Nat /\ U # {}
  OBVIOUS
<1>2. PICK m \in U : \A k \in U : m <= k
  BY <1>1, LeastNatural
<1>3. m \in Nat /\ \A p \in T : p <= m
  BY <1>2
<1>4. m \in T
  <2> SUFFICES ASSUME m \notin T PROVE FALSE
    OBVIOUS
  <2>1. \A p \in T : p < m
    BY <1>3
  <2>2. m - 1 \in Nat
    <3>1. PICK p \in T : p \in Nat /\ p < m
      BY <2>1
    <3> QED
      BY <1>3, <3>1
  <2>3. \A p \in T : p <= m - 1
    BY <1>3, <2>1
  <2>4. m - 1 \in U
    BY <2>2, <2>3
  <2> QED
    BY <1>2, <1>3, <2>4
<1> QED
  BY <1>3, <1>4

LEMMA BestExists ==
    ASSUME TypeOK, Bounded, NEW s \in Sides, levels[s] # {}
    PROVE  /\ BestLevel(s) \in levels[s] /\ BestLevel(s) \in Prices
           /\ \A q \in levels[s] : BestLevel(s) = q \/ Better(s, BestLevel(s), q)
<1>1. levels[s] \subseteq Prices /\ levels[s] \subseteq Nat
  BY PricesAreInts DEF TypeOK
<1>2. \E p \in levels[s] : \A q \in levels[s] : p = q \/ Better(s, p, q)
  <2>1. CASE s = "BUY"
    <3>1. PICK n \in Nat : \A p \in levels[s] : p <= n
      BY <2>1, PricesAreInts DEF Bounded
    <3>2. PICK m \in levels[s] : \A p \in levels[s] : p <= m
      BY <1>1, <3>1, GreatestExists
    <3>3. \A q \in levels[s] : m = q \/ Better(s, m, q)
      BY <1>1, <2>1, <3>2 DEF Better
    <3> QED
      BY <3>3
  <2>2. CASE s = "SELL"
    <3>1. PICK m \in levels[s] : \A p \in levels[s] : m <= p
      BY <1>1, LeastNatural
    <3>2. \A q \in levels[s] : m = q \/ Better(s, m, q)
      BY <1>1, <2>2, <3>1 DEF Better
    <3> QED
      BY <3>2
  <2> QED
    BY <2>1, <2>2 DEF Sides
<1> QED
  BY <1>1, <1>2 DEF BestLevel

(* The best level is at least as good as the price of any resting order.   *)
LEMMA BestBeatsResting ==
    ASSUME IInv, NEW s \in Sides, NEW r \in Resting(s)
    PROVE  /\ levels[s] # {}
           /\ Order[r].side = s /\ OnBook(r)
           /\ BestLevel(s) = Order[r].price \/ Better(s, BestLevel(s), Order[r].price)
<1>1. TypeOK /\ Bounded
  BY DEF IInv
<1>2. PICK p \in Prices : \E i \in 1..Len(queue[s][p]) : queue[s][p][i] = r
  BY <1>1, RestingMember
<1>3. Order[r].side = s /\ Order[r].price = p /\ OnBook(r)
  BY <1>2 DEF IInv, QueueOK
<1>4. queue[s][p] # <<>>
  BY <1>1, <1>2, QueueType
<1>5. p \in levels[s]
  BY <1>4 DEF IInv, LevelOK
<1> QED
  BY <1>1, <1>3, <1>5, BestExists

-------------------------------------------------------------------------------
(* What a step does to the queues and the levels *)

StaysCancelled ==
    \A o \in Orders : status[o] = "CANCELLED" => status'[o] = "CANCELLED"

LEMMA QueuesKept ==
    ASSUME IInv, queue' = queue, entry' = entry,
           \A o : OnBook(o) => OnBook(o)'
    PROVE  \A s \in Sides, p \in Prices : QueueOK(s, p)'
<1> TAKE s \in Sides, p \in Prices
<1>1. QueueOK(s, p)
  BY DEF IInv
<1> QED
  BY <1>1 DEF QueueOK

LEMMA LevelsKept ==
    ASSUME IInv, queue' = queue, levels' = levels, StaysCancelled
    PROVE  \A s \in Sides, p \in Prices : LevelOK(s, p)'
<1> TAKE s \in Sides, p \in Prices
<1>1. LevelOK(s, p)
  BY DEF IInv
<1> QED
  BY <1>1 DEF LevelOK, StaysCancelled

(* The order that leaves is at no other place of the book.                 *)
Gone(s, p, k) ==
    \A t \in Sides, u \in Prices : \A i \in 1..Len(queue'[t][u]) :
        /\ queue'[t][u][i] # queue[s][p][k]
        /\ \E j \in 1..Len(queue[t][u]) : queue'[t][u][i] = queue[t][u][j]

LEMMA RemovedIsGone ==
    ASSUME IInv, NEW s \in Sides, NEW p \in Prices, NEW r, NEW k,
           Without(queue[s][p], r, k), QueueTo(s, p, r)
    PROVE  Gone(s, p, k)
<1>1. /\ queue[s][p] \in Seq(Orders) /\ Len(queue[s][p]) \in Nat
      /\ QueueOK(s, p)
  BY QueueType DEF IInv
<1> SUFFICES ASSUME NEW t \in Sides, NEW u \in Prices, NEW i \in 1..Len(queue'[t][u])
             PROVE  /\ queue'[t][u][i] # queue[s][p][k]
                    /\ \E j \in 1..Len(queue[t][u]) : queue'[t][u][i] = queue[t][u][j]
  BY DEF Gone
<1> DEFINE q == queue[s][p]
           x == q[k]
<1>2. /\ r \in Seq(Orders) /\ k \in 1..Len(q) /\ Len(r) = Len(q) - 1
      /\ \A j \in 1..Len(r) : r[j] = IF j < k THEN q[j] ELSE q[j + 1]
  BY DEF Without
<1>3. /\ x \in Orders /\ Order[x].side = s /\ Order[x].price = p
  BY <1>1, <1>2 DEF QueueOK, OnBook
<1>4. CASE t = s /\ u = p
  <2>1. queue'[t][u] = r /\ i \in 1..Len(r)
    BY <1>4 DEF QueueTo
  <2>2. PICK j \in 1..Len(q) : r[i] = q[j] /\ (j < k \/ k < j)
    <3>1. CASE i < k
      BY <1>1, <1>2, <2>1, <3>1
    <3>2. CASE ~(i < k)
      <4>1. i + 1 \in 1..Len(q) /\ k < i + 1 /\ r[i] = q[i + 1]
        BY <1>1, <1>2, <2>1, <3>2
      <4> QED
        BY <4>1
    <3> QED
      BY <3>1, <3>2
  <2>3. entry[q[j]] < entry[q[k]] \/ entry[q[k]] < entry[q[j]]
    BY <1>1, <1>2, <2>2 DEF QueueOK
  <2>4. entry[q[j]] \in Nat /\ entry[q[k]] \in Nat
    <3>1. q[j] \in Orders /\ q[k] \in Orders
      BY <1>1, <1>2, <2>2 DEF QueueOK, OnBook
    <3>2. entry \in [Orders -> Nat]
      BY DEF IInv, TypeOK
    <3> QED
      BY <3>1, <3>2
  <2>5. q[j] # q[k]
    BY <2>3, <2>4
  <2> QED
    BY <1>4, <2>1, <2>2, <2>5
<1>5. CASE t # s \/ u # p
  <2>1. queue'[t][u] = queue[t][u]
    BY <1>5 DEF QueueTo
  <2>2. QueueOK(t, u)
    BY DEF IInv
  <2>3. Order[queue[t][u][i]].side = t /\ Order[queue[t][u][i]].price = u
    BY <2>1, <2>2 DEF QueueOK
  <2> QED
    BY <1>3, <1>5, <2>1, <2>3
<1> QED
  BY <1>4, <1>5

LEMMA QueuesAfterRemoval ==
    ASSUME IInv, NEW s \in Sides, NEW p \in Prices, NEW r, NEW k,
           Without(queue[s][p], r, k), QueueTo(s, p, r), entry' = entry,
           \A o : OnBook(o) /\ o # queue[s][p][k] => OnBook(o)'
    PROVE  \A s1 \in Sides, p1 \in Prices : QueueOK(s1, p1)'
<1> SUFFICES ASSUME NEW t \in Sides, NEW u \in Prices
             PROVE  QueueOK(t, u)'
  OBVIOUS
<1>0. Gone(s, p, k)
  BY RemovedIsGone
<1>1. ASSUME NEW i \in 1..Len(queue'[t][u]), NEW z, z = queue'[t][u][i]
      PROVE  Order[z].side = t /\ Order[z].price = u /\ OnBook(z)'
  <2>1. PICK j \in 1..Len(queue[t][u]) : z = queue[t][u][j]
    BY <1>0, <1>1 DEF Gone
  <2>2. z # queue[s][p][k]
    BY <1>0, <1>1 DEF Gone
  <2>3. Order[z].side = t /\ Order[z].price = u /\ OnBook(z)
    BY <2>1 DEF IInv, QueueOK
  <2> QED
    BY <2>2, <2>3
<1>2. ASSUME NEW i \in 1..Len(queue'[t][u]), NEW j \in 1..Len(queue'[t][u]), i < j
      PROVE  entry[queue'[t][u][i]] < entry[queue'[t][u][j]]
  <2>0. QueueOK(t, u) /\ Len(queue[t][u]) \in Nat
    BY QueueType DEF IInv
  <2>1. CASE t = s /\ u = p
    <3>1. /\ queue'[t][u] = r /\ queue[t][u] = queue[s][p]
      BY <2>1 DEF QueueTo
    <3>2. PICK a \in 1..Len(queue[t][u]), b \in 1..Len(queue[t][u]) :
              a < b /\ r[i] = queue[t][u][a] /\ r[j] = queue[t][u][b]
      <4> DEFINE q == queue[t][u]
      <4>1. /\ k \in 1..Len(q) /\ Len(r) = Len(q) - 1 /\ Len(q) \in Nat
            /\ i \in 1..Len(r) /\ j \in 1..Len(r)
            /\ r[i] = IF i < k THEN q[i] ELSE q[i + 1]
            /\ r[j] = IF j < k THEN q[j] ELSE q[j + 1]
        BY <2>0, <2>1, <3>1 DEF Without
      <4> HIDE DEF q
      <4>2. CASE j < k
        BY <1>2, <4>1, <4>2 DEF q
      <4>3. CASE i < k /\ ~(j < k)
        <5>1. i \in 1..Len(q) /\ j + 1 \in 1..Len(q) /\ i < j + 1
          BY <1>2, <4>1
        <5> QED
          BY <4>1, <4>3, <5>1 DEF q
      <4>4. CASE ~(i < k)
        <5>1. i + 1 \in 1..Len(q) /\ j + 1 \in 1..Len(q) /\ i + 1 < j + 1 /\ ~(j < k)
          BY <1>2, <4>1, <4>4
        <5> QED
          BY <4>1, <4>4, <5>1 DEF q
      <4> QED
        BY <4>2, <4>3, <4>4
    <3> QED
      BY <2>0, <3>1, <3>2 DEF QueueOK
  <2>2. CASE t # s \/ u # p
    <3>1. queue'[t][u] = queue[t][u]
      BY <2>2 DEF QueueTo
    <3> QED
      BY <1>2, <2>0, <3>1 DEF QueueOK
  <2> QED
    BY <2>1, <2>2
<1> QED
  BY <1>1, <1>2 DEF QueueOK, OnBook

LEMMA LevelsAfterRemoval ==
    ASSUME IInv, NEW s \in Sides, NEW p \in Prices, NEW r, NEW k,
           Without(queue[s][p], r, k), QueueTo(s, p, r), StaysCancelled,
           \/ levels' = [levels EXCEPT ![s] = IF r = <<>> THEN @ \ {p} ELSE @]
           \/ levels' = levels /\ status'[queue[s][p][k]] = "CANCELLED"
    PROVE  /\ \A t \in Sides, u \in Prices : LevelOK(t, u)'
           /\ levels' \in [Sides -> SUBSET Prices] /\ Bounded'
<1>1. levels \in [Sides -> SUBSET Prices] /\ Bounded
  BY DEF IInv, TypeOK
<1>2. levels' \in [Sides -> SUBSET Prices] /\ \A t \in Sides : levels'[t] \subseteq levels[t]
  BY <1>1
<1>3. Bounded'
  BY <1>1, <1>2 DEF Bounded, Sides
<1>4. /\ queue[s][p][k] \in Orders
      /\ Order[queue[s][p][k]].side = s /\ Order[queue[s][p][k]].price = p
  BY DEF Without, IInv, QueueOK, OnBook
<1>5. p \in levels[s]
  <2>1. queue[s][p] # <<>>
    BY QueueType DEF Without, IInv
  <2> QED
    BY <2>1 DEF IInv, LevelOK
<1>6. ASSUME NEW t \in Sides, NEW u \in Prices PROVE LevelOK(t, u)'
  <2>1. LevelOK(t, u)
    BY DEF IInv
  <2>2. CASE t = s /\ u = p
    <3>1. queue'[t][u] = r
      BY <2>2 DEF QueueTo
    <3>2. CASE levels' = [levels EXCEPT ![s] = IF r = <<>> THEN @ \ {p} ELSE @]
      <4>1. levels'[s] = IF r = <<>> THEN levels[s] \ {p} ELSE levels[s]
        BY <1>1, <3>2
      <4> QED
        BY <1>5, <2>2, <3>1, <4>1 DEF LevelOK
    <3>3. CASE levels' = levels /\ status'[queue[s][p][k]] = "CANCELLED"
      BY <1>4, <1>5, <2>2, <3>3 DEF LevelOK
    <3> QED
      BY <3>2, <3>3
  <2>3. CASE t # s \/ u # p
    <3>1. queue'[t][u] = queue[t][u]
      BY <2>3 DEF QueueTo
    <3>2. u \in levels'[t] <=> u \in levels[t]
      <4>1. CASE t = s
        BY <1>1, <2>3, <4>1
      <4>2. CASE t # s
        BY <1>1, <4>2
      <4> QED
        BY <4>1, <4>2
    <3> QED
      BY <2>1, <3>1, <3>2 DEF LevelOK, StaysCancelled
  <2> QED
    BY <2>2, <2>3
<1> QED
  BY <1>2, <1>3, <1>6

(* An order that is nowhere on the book is put at the back of its level.   *)
LEMMA Appended ==
    ASSUME IInv, NEW o \in Orders, ~OnBook(o), AddOrderToBook(o), StaysCancelled,
           \A x : OnBook(x) => OnBook(x)', OnBook(o)'
    PROVE  /\ QueueTo(Order[o].side, Order[o].price,
                      Append(queue[Order[o].side][Order[o].price], o))
           /\ \A t \in Sides, u \in Prices : QueueOK(t, u)' /\ LevelOK(t, u)'
           /\ levels' \in [Sides -> SUBSET Prices] /\ Bounded'
<1> DEFINE s == Order[o].side
           p == Order[o].price
           q == queue[s][p]
           r == Append(q, o)
<1>1. s \in Sides /\ p \in Prices
  BY OrderFields
<1>2. TypeOK /\ levels \in [Sides -> SUBSET Prices] /\ Bounded /\ entry \in [Orders -> Nat]
      /\ seq \in Nat
  BY DEF IInv, TypeOK
<1>3. q \in Seq(Orders) /\ Len(q) \in Nat
  BY <1>1, <1>2, QueueType
<1>4. /\ r \in Seq(Orders) /\ r # <<>> /\ Len(r) = Len(q) + 1 /\ r[Len(q) + 1] = o
      /\ \A i \in 1..Len(q) : r[i] = q[i]
  BY <1>3, AppendElement
<1>5. QueueTo(s, p, r)
  <2>1. queue' = [queue EXCEPT ![s][p] = r]
    BY DEF AddOrderToBook
  <2> QED
    BY <1>1, <1>2, <1>4, <2>1, QueueUpdate
<1>6. /\ levels' = [levels EXCEPT ![s] = @ \cup {p}]
      /\ entry' = [entry EXCEPT ![o] = seq + 1]
  BY DEF AddOrderToBook
<1> HIDE DEF r
<1>7. levels' \in [Sides -> SUBSET Prices]
  BY <1>1, <1>2, <1>6
<1>8. Bounded'
  <2>1. PICK n \in Prices \cup {0} : \A v \in levels["BUY"] : v <= n
    BY <1>2 DEF Bounded
  <2>2. levels'["BUY"] \subseteq levels["BUY"] \cup {p}
    BY <1>2, <1>6 DEF Sides
  <2>3. CASE p <= n
    BY <2>1, <2>2, <2>3 DEF Bounded
  <2>4. CASE ~(p <= n)
    <3>1. \A v \in levels'["BUY"] : v <= p
      <4> TAKE v \in levels'["BUY"]
      <4>1. v = p \/ (v \in levels["BUY"] /\ v <= n)
        BY <2>1, <2>2
      <4>2. v \in Prices
        BY <1>7 DEF Sides
      <4> QED
        BY <1>1, <2>4, <4>1, <4>2, PricesAreInts
    <3> QED
      BY <1>1, <3>1 DEF Bounded
  <2> QED
    BY <2>3, <2>4
<1>9. ASSUME NEW x, OnBook(x) PROVE entry'[x] = entry[x] /\ entry[x] < seq + 1
  <2>1. x \in Orders /\ x # o
    BY <1>9 DEF OnBook
  <2>2. entry[x] <= seq /\ entry[x] \in Nat
    BY <1>2, <2>1 DEF IInv, AwayOK
  <2> QED
    BY <1>2, <1>6, <2>1, <2>2
<1>10. entry'[o] = seq + 1
  BY <1>2, <1>6
<1>11. ASSUME NEW t \in Sides, NEW u \in Prices PROVE QueueOK(t, u)'
  <2>1. /\ \A i \in 1..Len(queue[t][u]) : Order[queue[t][u][i]].side = t
               /\ Order[queue[t][u][i]].price = u /\ OnBook(queue[t][u][i])
        /\ \A i, j \in 1..Len(queue[t][u]) : i < j =>
               entry[queue[t][u][i]] < entry[queue[t][u][j]]
    BY DEF IInv, QueueOK
  <2>2. \A i, j \in 1..Len(queue[t][u]) : i < j =>
            entry'[queue[t][u][i]] < entry'[queue[t][u][j]]
    BY <1>9, <2>1
  <2>3. CASE t = s /\ u = p
    <3>1. queue'[t][u] = r /\ queue[t][u] = q
      BY <2>3, <1>5 DEF QueueTo
    <3>2. ASSUME NEW i \in 1..Len(r), NEW z, z = r[i]
          PROVE  Order[z].side = t /\ Order[z].price = u /\ OnBook(z)'
      <4>1. CASE i = Len(q) + 1
        BY <1>4, <2>3, <3>2, <4>1
      <4>2. CASE i # Len(q) + 1
        <5>1. i \in 1..Len(q)
          BY <1>3, <1>4, <4>2
        <5>2. z = queue[t][u][i] /\ i \in 1..Len(queue[t][u])
          BY <1>4, <3>1, <3>2, <5>1
        <5>3. OnBook(z) /\ Order[z].side = t /\ Order[z].price = u
          BY <2>1, <5>2
        <5> QED
          BY <5>3
      <4> QED
        BY <4>1, <4>2
    <3>3. ASSUME NEW i \in 1..Len(r), NEW j \in 1..Len(r), i < j
          PROVE  entry'[r[i]] < entry'[r[j]]
      <4>1. i \in 1..Len(q) /\ r[i] = q[i]
        BY <1>3, <1>4, <3>3
      <4>2. CASE j = Len(q) + 1
        <5>1. OnBook(q[i])
          BY <2>1, <3>1, <4>1
        <5>2. entry'[q[i]] < seq + 1
          BY <1>9, <5>1
        <5> QED
          BY <1>4, <1>10, <4>1, <4>2, <5>2
      <4>3. CASE j # Len(q) + 1
        <5>1. j \in 1..Len(q) /\ r[j] = q[j]
          BY <1>3, <1>4, <4>3
        <5> QED
          BY <2>2, <3>1, <3>3, <4>1, <5>1
      <4> QED
        BY <4>2, <4>3
    <3> QED
      BY <3>1, <3>2, <3>3 DEF QueueOK, OnBook
  <2>4. CASE t # s \/ u # p
    <3>1. queue'[t][u] = queue[t][u]
      BY <1>5, <2>4 DEF QueueTo
    <3>2. ASSUME NEW i \in 1..Len(queue'[t][u]), NEW z, z = queue'[t][u][i]
          PROVE  Order[z].side = t /\ Order[z].price = u /\ OnBook(z)'
      BY <2>1, <3>1, <3>2
    <3> QED
      BY <2>2, <3>1, <3>2 DEF QueueOK, OnBook
  <2> QED
    BY <2>3, <2>4
<1>12. ASSUME NEW t \in Sides, NEW u \in Prices PROVE LevelOK(t, u)'
  <2>1. LevelOK(t, u)
    BY DEF IInv
  <2>2. CASE t = s /\ u = p
    <3>1. queue'[t][u] = r /\ u \in levels'[t]
      BY <1>1, <1>2, <1>5, <1>6, <2>2 DEF QueueTo
    <3> QED
      BY <1>4, <3>1 DEF LevelOK
  <2>3. CASE t # s \/ u # p
    <3>1. queue'[t][u] = queue[t][u]
      BY <1>5, <2>3 DEF QueueTo
    <3>2. u \in levels'[t] <=> u \in levels[t]
      <4>1. CASE t = s
        BY <1>2, <1>6, <2>3, <4>1
      <4>2. CASE t # s
        BY <1>2, <1>6, <4>2
      <4> QED
        BY <4>1, <4>2
    <3> QED
      BY <2>1, <3>1, <3>2 DEF LevelOK, StaysCancelled
  <2> QED
    BY <2>2, <2>3
<1> QED
  BY <1>5, <1>7, <1>8, <1>11, <1>12 DEF r

-------------------------------------------------------------------------------
(* What a step does to the book as a whole *)

BookOK ==
    /\ \A s \in Sides, p \in Prices : QueueOK(s, p) /\ LevelOK(s, p)
    /\ Bounded
    /\ Uncrossed

LEMMA FewerResting ==
    ASSUME Uncrossed, \A s \in Sides : Resting(s)' \subseteq Resting(s), PutBack \subseteq PutBack'
    PROVE  Uncrossed'
BY DEF Uncrossed, Sides

(* The book stays as it is.                                                *)
LEMMA BookKept ==
    ASSUME IInv, UNCHANGED <<levels, queue, entry>>, StaysCancelled,
           PutBack \subseteq PutBack', \A o : OnBook(o) => OnBook(o)'
    PROVE  BookOK'
<1>1. \A s \in Sides, p \in Prices : QueueOK(s, p)'
  BY QueuesKept
<1>2. \A s \in Sides, p \in Prices : LevelOK(s, p)'
  BY LevelsKept
<1>3. Bounded'
  BY DEF IInv, Bounded
<1>4. \A s \in Sides : Resting(s)' = Resting(s)
  BY DEF Resting
<1>5. Uncrossed'
  BY <1>4, FewerResting DEF IInv
<1> QED
  BY <1>1, <1>2, <1>3, <1>5 DEF BookOK

(* One order leaves the book.                                              *)
LEMMA BookAfterRemoval ==
    ASSUME IInv, NEW s \in Sides, NEW p \in Prices, NEW r, NEW k,
           Without(queue[s][p], r, k), queue' = [queue EXCEPT ![s][p] = r],
           entry' = entry, StaysCancelled, PutBack \subseteq PutBack',
           \A o : OnBook(o) /\ o # queue[s][p][k] => OnBook(o)',
           \/ levels' = [levels EXCEPT ![s] = IF r = <<>> THEN @ \ {p} ELSE @]
           \/ levels' = levels /\ status'[queue[s][p][k]] = "CANCELLED"
    PROVE  /\ BookOK'
           /\ queue' \in [Sides -> [Prices -> Seq(Orders)]]
           /\ levels' \in [Sides -> SUBSET Prices]
<1>1. TypeOK /\ r \in Seq(Orders)
  BY DEF IInv, Without
<1>2. QueueTo(s, p, r)
  BY <1>1, QueueUpdate
<1>3. \A t \in Sides, u \in Prices : QueueOK(t, u)'
  BY <1>2, QueuesAfterRemoval
<1>4. /\ \A t \in Sides, u \in Prices : LevelOK(t, u)'
      /\ levels' \in [Sides -> SUBSET Prices] /\ Bounded'
  BY <1>2, LevelsAfterRemoval
<1>5. Gone(s, p, k)
  BY <1>2, RemovedIsGone
<1>6. queue' \in [Sides -> [Prices -> Seq(Orders)]]
  BY <1>2 DEF QueueTo
<1>7. ASSUME NEW t \in Sides, NEW x \in Resting(t)'
      PROVE  x \in Resting(t)
  <2>1. \A u \in Prices : DOMAIN queue'[t][u] = 1..Len(queue'[t][u])
    <3> TAKE u \in Prices
    <3>1. queue'[t][u] \in Seq(Orders)
      BY <1>6
    <3> QED
      BY <3>1, LenProperties
  <2>2. PICK u \in Prices : \E i \in 1..Len(queue'[t][u]) : queue'[t][u][i] = x
    BY <1>7, <2>1 DEF Resting, Range
  <2>3. \E j \in 1..Len(queue[t][u]) : queue[t][u][j] = x
    BY <1>5, <2>2 DEF Gone
  <2> QED
    BY <1>1, <2>3, RestingMember
<1>8. Uncrossed'
  <2>1. \A t \in Sides : Resting(t)' \subseteq Resting(t)
    BY <1>7
  <2> QED
    BY <2>1, FewerResting DEF IInv
<1> QED
  BY <1>3, <1>4, <1>6, <1>8 DEF BookOK

(* An order joins the book: as the taker that found nothing more to match, *)
(* or as one the router puts back.                                         *)
LEMMA BookAfterAppend ==
    ASSUME IInv, NEW o \in Orders, ~OnBook(o), AddOrderToBook(o), StaysCancelled,
           \A x : OnBook(x) => OnBook(x)', OnBook(o)', PutBack \subseteq PutBack',
           o \in PutBack' \/ (~Matching(o) /\ Remaining(o) > 0 /\ IsLimit(o))
    PROVE  /\ BookOK'
           /\ queue' \in [Sides -> [Prices -> Seq(Orders)]]
           /\ levels' \in [Sides -> SUBSET Prices]
<1> DEFINE s == Order[o].side
           p == Order[o].price
           other == Opposite(s)
<1>0. s \in Sides /\ p \in Prices /\ other \in Sides /\ other # s /\ TypeOK
  BY OrderFields DEF IInv
<1>1. /\ QueueTo(s, p, Append(queue[s][p], o))
      /\ \A t \in Sides, u \in Prices : QueueOK(t, u)' /\ LevelOK(t, u)'
      /\ levels' \in [Sides -> SUBSET Prices] /\ Bounded'
  BY Appended
<1>2. queue' \in [Sides -> [Prices -> Seq(Orders)]]
  BY <1>1 DEF QueueTo
<1>3. ASSUME NEW t \in Sides, NEW x \in Resting(t)'
      PROVE  x \in Resting(t) \/ (x = o /\ t = s)
  <2>1. \A u \in Prices : DOMAIN queue'[t][u] = 1..Len(queue'[t][u])
    <3> TAKE u \in Prices
    <3>1. queue'[t][u] \in Seq(Orders)
      BY <1>2
    <3> QED
      BY <3>1, LenProperties
  <2>2. PICK u \in Prices : \E i \in 1..Len(queue'[t][u]) : queue'[t][u][i] = x
    BY <1>3, <2>1 DEF Resting, Range
  <2>3. PICK i \in 1..Len(queue'[t][u]) : queue'[t][u][i] = x
    BY <2>2
  <2>4. CASE t = s /\ u = p
    <3> DEFINE q == queue[s][p]
    <3>1. q \in Seq(Orders) /\ Len(q) \in Nat
      BY <1>0, QueueType
    <3>2. queue'[t][u] = Append(q, o)
      BY <1>1, <2>4 DEF QueueTo
    <3>3. /\ Len(Append(q, o)) = Len(q) + 1 /\ Append(q, o)[Len(q) + 1] = o
          /\ \A j \in 1..Len(q) : Append(q, o)[j] = q[j]
      BY <3>1, AppendElement
    <3> HIDE DEF q
    <3>4. CASE i = Len(q) + 1
      BY <2>3, <2>4, <3>2, <3>3, <3>4
    <3>5. CASE i # Len(q) + 1
      <4>1. i \in 1..Len(q) /\ q[i] = x
        BY <2>3, <3>1, <3>2, <3>3, <3>5
      <4> QED
        BY <1>0, <2>4, <4>1, RestingMember DEF q
    <3> QED
      BY <3>4, <3>5
  <2>5. CASE t # s \/ u # p
    <3>1. queue'[t][u] = queue[t][u]
      BY <1>1, <2>5 DEF QueueTo
    <3>2. \E v \in Prices : \E j \in 1..Len(queue[t][v]) : queue[t][v][j] = x
      BY <2>3, <3>1
    <3> QED
      BY <1>0, <3>2, RestingMember
  <2> QED
    BY <2>4, <2>5
<1>4. CASE o \in PutBack'
  <2>1. \A t \in Sides : Resting(t)' \ PutBack' \subseteq Resting(t) \ PutBack
    BY <1>3, <1>4
  <2>2. Uncrossed
    BY DEF IInv
  <2>3. Uncrossed'
    BY <2>1, <2>2 DEF Uncrossed, Sides
  <2> QED
    BY <1>1, <1>2, <2>3 DEF BookOK
<1>5. CASE ~Matching(o) /\ Remaining(o) > 0 /\ IsLimit(o)
  <2>1. ASSUME NEW x \in Resting(other)
        PROVE  IF s = "BUY" THEN p < Order[x].price ELSE Order[x].price < p
    <3>1. /\ levels[other] # {} /\ OnBook(x)
          /\ BestLevel(other) = Order[x].price \/ Better(other, BestLevel(other), Order[x].price)
      BY <1>0, BestBeatsResting
    <3>2. x \in Orders /\ Order[x].price \in Nat
      BY <3>1, OrderFields, PricesAreInts DEF OnBook
    <3>3. BestLevel(other) \in Nat /\ p \in Nat
      BY <1>0, <3>1, BestExists, PricesAreInts DEF IInv
    <3>4. Better(other, p, BestLevel(other))
      BY <1>5, <3>1 DEF Matching, Within
    <3>5. other = IF s = "BUY" THEN "SELL" ELSE "BUY"
      BY DEF Opposite
    <3> QED
      BY <3>1, <3>2, <3>3, <3>4, <3>5 DEF Better
  <2>2. Uncrossed'
    <3> SUFFICES ASSUME NEW b \in Resting("BUY")' \ PutBack',
                        NEW a \in Resting("SELL")' \ PutBack'
                 PROVE  Order[b].price < Order[a].price
      BY DEF Uncrossed
    <3>1. b \in Resting("BUY") \/ (b = o /\ s = "BUY")
      BY <1>3 DEF Sides
    <3>2. a \in Resting("SELL") \/ (a = o /\ s = "SELL")
      BY <1>3 DEF Sides
    <3>3. CASE b \in Resting("BUY") /\ a \in Resting("SELL")
      BY <3>3 DEF IInv, Uncrossed
    <3>4. CASE b = o /\ s = "BUY" /\ a \in Resting("SELL")
      BY <2>1, <3>4 DEF Opposite
    <3>5. CASE a = o /\ s = "SELL" /\ b \in Resting("BUY")
      BY <2>1, <3>5 DEF Opposite
    <3> QED
      BY <3>1, <3>2, <3>3, <3>4, <3>5
  <2> QED
    BY <1>1, <1>2, <2>2 DEF BookOK
<1> QED
  BY <1>4, <1>5

-------------------------------------------------------------------------------
(* The actions *)

LEMMA Assemble ==
    ASSUME TypeOK', BookOK', \A o \in Orders : AwayOK(o)', PostOnlyPassive', TradesWithinLimits'
    PROVE  IInv'
BY DEF IInv, BookOK

LEMMA TradesKept ==
    ASSUME TradesWithinLimits, trades' = trades
    PROVE  TradesWithinLimits'
BY DEF TradesWithinLimits

LEMMA FreeIsPassive ==
    ASSUME taker' = NoOrder
    PROVE  PostOnlyPassive'
BY MatcherAssumption DEF MatcherConstants, PostOnlyPassive

(* A step that leaves the book, the fills and the trades alone.            *)
LEMMA QuietStep ==
    ASSUME IInv, UNCHANGED <<levels, queue, entry, trades>>, TypeOK', StaysCancelled,
           PutBack \subseteq PutBack', \A o : OnBook(o) => OnBook(o)',
           \A o \in Orders : AwayOK(o)', PostOnlyPassive'
    PROVE  IInv'
<1>1. BookOK'
  BY BookKept
<1>2. TradesWithinLimits'
  BY TradesKept DEF IInv
<1> QED
  BY <1>1, <1>2, Assemble

LEMMA InitOK == Init => IInv
<1> SUFFICES ASSUME Init PROVE IInv
  OBVIOUS
<1>1. TypeOK
  BY MatcherAssumption DEF MatcherConstants, Init, TypeOK, Statuses, Modes, Sides
<1>2. ASSUME NEW s \in Sides, NEW p \in Prices PROVE queue[s][p] = <<>> /\ levels[s] = {}
  BY DEF Init
<1>3. \A s \in Sides, p \in Prices : QueueOK(s, p) /\ LevelOK(s, p)
  BY <1>2 DEF QueueOK, LevelOK
<1>4. ASSUME NEW o \in Orders PROVE AwayOK(o)
  BY MatcherAssumption, OrderFields DEF MatcherConstants, Init, AwayOK, Remaining
<1>5. Bounded
  BY DEF Init, Bounded, Sides
<1>6. \A s \in Sides : Resting(s) = {}
  <2> TAKE s \in Sides
  <2>1. \A p \in Prices : Len(queue[s][p]) = 0
    BY <1>2
  <2>2. \A x : x \notin Resting(s)
    BY <1>1, <2>1, RestingMember
  <2> QED
    BY <2>2
<1>7. Uncrossed
  BY <1>6 DEF Uncrossed, Sides
<1>8. PostOnlyPassive
  BY MatcherAssumption DEF MatcherConstants, Init, PostOnlyPassive
<1>9. TradesWithinLimits
  BY DEF Init, TradesWithinLimits
<1> QED
  BY <1>1, <1>3, <1>4, <1>5, <1>7, <1>8, <1>9 DEF IInv

LEMMA RejectOK ==
    ASSUME IInv, NEW o \in Orders, Reject(o)
    PROVE  IInv'
<1>0. TypeOK /\ o \in fresh \cup triggered
  BY DEF IInv, Reject, Calls
<1>1. TypeOK'
  BY <1>0 DEF TypeOK, Reject, Calls, Statuses, bridge
<1>2. StaysCancelled
  <2>1. status[o] # "CANCELLED"
    BY <1>0 DEF IInv, AwayOK
  <2> QED
    BY <1>0, <2>1 DEF TypeOK, Reject, StaysCancelled
<1>3. PutBack \subseteq PutBack'
  BY DEF Reject, PutBack, bridge
<1>4. ASSUME NEW x, OnBook(x) PROVE OnBook(x)'
  <2>1. x \in Orders /\ x # o
    BY <1>0, <1>4 DEF OnBook
  <2> QED
    BY <1>0, <1>4, <2>1 DEF OnBook, Remaining, Reject, Calls, TypeOK, bridge
<1>5. ASSUME NEW x \in Orders PROVE AwayOK(x)'
  <2>1. AwayOK(x) /\ AwayOK(o)
    BY DEF IInv
  <2>2. status'[x] = "CANCELLED" => status[x] = "CANCELLED"
    BY <1>0 DEF Reject, TypeOK
  <2> QED
    BY <2>1, <2>2 DEF AwayOK, Remaining, Reject, Calls, bridge
<1>6. PostOnlyPassive'
  BY FreeIsPassive DEF Reject, Calls
<1> QED
  BY <1>1, <1>2, <1>3, <1>4, <1>5, <1>6, QuietStep DEF Reject

LEMMA EnterOK ==
    ASSUME IInv, NEW o \in Orders, Enter(o)
    PROVE  IInv'
<1>0. TypeOK /\ o \in fresh \cup triggered
  BY DEF IInv, Enter, Calls
<1>1. TypeOK'
  BY <1>0 DEF TypeOK, Enter, Calls, bridge
<1>2. StaysCancelled
  BY DEF Enter, StaysCancelled
<1>3. PutBack \subseteq PutBack'
  BY DEF Enter, PutBack, bridge
<1>4. ASSUME NEW x, OnBook(x) PROVE OnBook(x)'
  <2>1. x \in Orders /\ x # o
    BY <1>0, <1>4 DEF OnBook
  <2> QED
    BY <1>0, <1>4, <2>1 DEF OnBook, Remaining, Enter, Calls, bridge
<1>5. ASSUME NEW x \in Orders PROVE AwayOK(x)'
  <2>1. AwayOK(x) /\ AwayOK(o)
    BY DEF IInv
  <2> QED
    BY <1>0, <2>1 DEF AwayOK, Remaining, Enter, Calls, bridge
<1>6. PostOnlyPassive'
  BY DEF Enter, PostOnlyPassive, IsPostOnlyCrossing, BestLevel
<1> QED
  BY <1>1, <1>2, <1>3, <1>4, <1>5, <1>6, QuietStep DEF Enter

LEMMA AddStopOK ==
    ASSUME IInv, NEW o \in Orders, AddStopOrder(o)
    PROVE  IInv'
<1>0. TypeOK /\ o \in fresh
  BY DEF IInv, AddStopOrder
<1>1. TypeOK'
  BY <1>0 DEF TypeOK, AddStopOrder, bridge
<1>2. StaysCancelled
  BY DEF AddStopOrder, StaysCancelled
<1>3. PutBack \subseteq PutBack'
  BY DEF AddStopOrder, PutBack, bridge
<1>4. ASSUME NEW x, OnBook(x) PROVE OnBook(x)'
  <2>1. x \in Orders /\ x # o
    BY <1>0, <1>4 DEF OnBook
  <2> QED
    BY <1>0, <1>4, <2>1 DEF OnBook, Remaining, AddStopOrder, bridge
<1>5. ASSUME NEW x \in Orders PROVE AwayOK(x)'
  <2>1. AwayOK(x) /\ AwayOK(o)
    BY DEF IInv
  <2> QED
    BY <1>0, <2>1 DEF AwayOK, Remaining, AddStopOrder, bridge
<1>6. PostOnlyPassive'
  BY FreeIsPassive DEF AddStopOrder
<1> QED
  BY <1>1, <1>2, <1>3, <1>4, <1>5, <1>6, QuietStep DEF AddStopOrder

LEMMA CancelStopOK ==
    ASSUME IInv, NEW o \in Orders, CancelStopOrder(o)
    PROVE  IInv'
<1>0. TypeOK
  BY DEF IInv
<1>1. TypeOK'
  BY <1>0 DEF TypeOK, CancelStopOrder, bridge
<1>2. StaysCancelled
  BY DEF CancelStopOrder, StaysCancelled
<1>3. PutBack \subseteq PutBack'
  BY DEF CancelStopOrder, PutBack, bridge
<1>4. ASSUME NEW x, OnBook(x) PROVE OnBook(x)'
  BY <1>4 DEF OnBook, Remaining, CancelStopOrder, bridge
<1>5. ASSUME NEW x \in Orders PROVE AwayOK(x)'
  <2>1. AwayOK(x)
    BY DEF IInv
  <2>2. seq' = seq + 1 /\ seq \in Nat /\ entry[x] \in Nat /\ entry' = entry
    BY <1>0 DEF TypeOK, CancelStopOrder
  <2>3. entry'[x] <= seq'
    BY <2>1, <2>2 DEF AwayOK
  <2> QED
    BY <2>1, <2>3 DEF AwayOK, Remaining, CancelStopOrder, bridge
<1>6. PostOnlyPassive'
  BY FreeIsPassive DEF CancelStopOrder
<1> QED
  BY <1>1, <1>2, <1>3, <1>4, <1>5, <1>6, QuietStep DEF CancelStopOrder

LEMMA SetSTPModeOK ==
    ASSUME IInv, NEW mode \in STPModes, SetSTPMode(mode)
    PROVE  IInv'
<1>0. TypeOK /\ mode \in Modes
  BY MatcherAssumption DEF MatcherConstants, IInv
<1>1. TypeOK'
  BY <1>0 DEF TypeOK, SetSTPMode, bridge
<1>2. StaysCancelled
  BY DEF SetSTPMode, StaysCancelled
<1>3. PutBack \subseteq PutBack'
  BY DEF SetSTPMode, PutBack, bridge
<1>4. ASSUME NEW x, OnBook(x) PROVE OnBook(x)'
  BY <1>4 DEF OnBook, Remaining, SetSTPMode, bridge
<1>5. ASSUME NEW x \in Orders PROVE AwayOK(x)'
  <2>1. AwayOK(x)
    BY DEF IInv
  <2> QED
    BY <2>1 DEF AwayOK, Remaining, SetSTPMode, bridge
<1>6. PostOnlyPassive'
  BY FreeIsPassive DEF SetSTPMode
<1> QED
  BY <1>1, <1>2, <1>3, <1>4, <1>5, <1>6, QuietStep DEF SetSTPMode

(* MatchOrder returns, the taker cancelled or not, and does not rest.      *)
Leaves(o) ==
    /\ taker = o
    /\ status' = status \/ status' = [status EXCEPT ![o] = "CANCELLED"]
    /\ taker' = NoOrder
    /\ UNCHANGED <<levels, queue, stops, filled, lastPrice, seq, stpMode, triggered, fresh,
                   toBridge, offBook, trades, entry>>

LEMMA LeavesOK ==
    ASSUME IInv, NEW o \in Orders, Leaves(o)
    PROVE  IInv'
<1>0. TypeOK
  BY DEF IInv
<1>1. TypeOK'
  BY <1>0 DEF TypeOK, Leaves, Statuses
<1>2. StaysCancelled
  BY <1>0 DEF Leaves, StaysCancelled, TypeOK
<1>3. PutBack \subseteq PutBack'
  BY DEF Leaves, PutBack
<1>4. ASSUME NEW x, OnBook(x) PROVE OnBook(x)'
  <2>1. x \in Orders /\ x # o
    BY <1>4 DEF OnBook, Leaves
  <2>2. status'[x] = status[x] /\ taker' \notin Orders
    BY <1>0, <2>1, MatcherAssumption DEF MatcherConstants, Leaves, TypeOK
  <2> QED
    BY <1>4, <2>1, <2>2 DEF OnBook, Remaining, Leaves
<1>5. ASSUME NEW x \in Orders PROVE AwayOK(x)'
  <2>1. AwayOK(x)
    BY DEF IInv
  <2>2. taker' # x
    BY MatcherAssumption DEF MatcherConstants, Leaves
  <2>3. x # o => status'[x] = status[x]
    BY <1>0 DEF Leaves, TypeOK
  <2> QED
    BY <2>1, <2>2, <2>3 DEF AwayOK, Remaining, Leaves
<1>6. PostOnlyPassive'
  BY FreeIsPassive DEF Leaves
<1> QED
  BY <1>1, <1>2, <1>3, <1>4, <1>5, <1>6, QuietStep DEF Leaves

LEMMA CancelNewestOK ==
    ASSUME IInv, NEW o \in Orders, NEW m, NEW p, CancelNewest(o, m, p)
    PROVE  IInv'
<1>1. Leaves(o)
  BY DEF CancelNewest, Meets, Leaves, bridge
<1> QED
  BY <1>1, LeavesOK

LEMMA CancelRemainderOK ==
    ASSUME IInv, NEW o \in Orders, CancelRemainder(o)
    PROVE  IInv'
<1>1. Leaves(o)
  BY DEF CancelRemainder, Leaves, bridge
<1> QED
  BY <1>1, LeavesOK

LEMMA ReturnOK ==
    ASSUME IInv, NEW o \in Orders, Return(o)
    PROVE  IInv'
<1>1. Leaves(o)
  BY DEF Return, Leaves, bridge
<1> QED
  BY <1>1, LeavesOK

(* An order of the taker, or one held for the bridge, goes on the book.    *)
Joins(o) ==
    /\ AddOrderToBook(o)
    /\ \/ /\ taker = o /\ ~Matching(o) /\ Remaining(o) > 0 /\ IsLimit(o)
          /\ offBook' = offBook
       \/ taker = NoOrder /\ o \in offBook /\ offBook' = offBook \ {o}
    /\ taker' = NoOrder
    /\ UNCHANGED <<stops, filled, status, lastPrice, stpMode, triggered, fresh, toBridge, trades>>

LEMMA JoinsOK ==
    ASSUME IInv, NEW o \in Orders, Joins(o)
    PROVE  IInv'
<1>0. TypeOK /\ AwayOK(o)
  BY DEF IInv
<1>1. ~OnBook(o)
  BY DEF OnBook, Joins
<1>2. StaysCancelled
  BY DEF Joins, StaysCancelled
<1>3. ASSUME NEW x, OnBook(x) PROVE OnBook(x)'
  <2>1. x \in Orders /\ x # o /\ x # NoOrder
    BY <1>1, <1>3, MatcherAssumption DEF MatcherConstants, OnBook
  <2> QED
    BY <1>3, <2>1 DEF OnBook, Remaining, Joins
<1>4. OnBook(o)'
  <2>1. o # NoOrder
    BY MatcherAssumption DEF MatcherConstants
  <2>2. Remaining(o) > 0 /\ Remaining(o)' = Remaining(o)
    BY <1>0 DEF AwayOK, Joins, Remaining
  <2>3. status'[o] # "CANCELLED"
    BY <1>0 DEF AwayOK, Joins
  <2>4. o \notin stops' \cup triggered' \cup fresh' \cup offBook' \cup {taker'}
    BY <1>0, <2>1 DEF AwayOK, Joins
  <2> QED
    BY <2>2, <2>3, <2>4 DEF OnBook
<1>5. PutBack \subseteq PutBack'
  BY DEF Joins, PutBack
<1>6. o \in PutBack' \/ (~Matching(o) /\ Remaining(o) > 0 /\ IsLimit(o))
  BY <1>0 DEF Joins, PutBack, AwayOK
<1>7. /\ BookOK' /\ queue' \in [Sides -> [Prices -> Seq(Orders)]]
      /\ levels' \in [Sides -> SUBSET Prices]
  BY <1>1, <1>2, <1>3, <1>4, <1>5, <1>6, BookAfterAppend DEF Joins
<1>8. seq' = seq + 1 /\ entry' = [entry EXCEPT ![o] = seq + 1]
  BY DEF Joins, AddOrderToBook
<1>9. TypeOK'
  BY <1>0, <1>7, <1>8 DEF TypeOK, Joins
<1>10. ASSUME NEW x \in Orders PROVE AwayOK(x)'
  <2>1. AwayOK(x)
    BY DEF IInv
  <2>2. taker' # x
    BY MatcherAssumption DEF MatcherConstants, Joins
  <2>3. entry'[x] <= seq'
    <3>1. entry \in [Orders -> Nat] /\ seq \in Nat /\ entry[x] <= seq
      BY <1>0, <2>1 DEF TypeOK, AwayOK
    <3> QED
      BY <1>8, <3>1
  <2> QED
    BY <2>1, <2>2, <2>3 DEF AwayOK, Remaining, Joins
<1>11. PostOnlyPassive'
  BY FreeIsPassive DEF Joins
<1>12. TradesWithinLimits'
  BY TradesKept DEF IInv, Joins
<1> QED
  BY <1>7, <1>9, <1>10, <1>11, <1>12, Assemble

LEMMA RestOK ==
    ASSUME IInv, NEW o \in Orders, Rest(o)
    PROVE  IInv'
<1>1. Joins(o)
  BY DEF Rest, Joins, bridge
<1> QED
  BY <1>1, JoinsOK

LEMMA PutBackOK ==
    ASSUME IInv, NEW o \in Orders, AddOrderToBookDirect(o)
    PROVE  IInv'
<1>1. Joins(o)
  BY DEF AddOrderToBookDirect, Joins
<1> QED
  BY <1>1, JoinsOK

(* CancelOrder and OfferToBridge find the order in the book.               *)
LEMMA RemovedFromBook ==
    ASSUME IInv, NEW o \in Orders, RemoveFromLimits(o),
           toBridge' \in SUBSET Orders, offBook' \in SUBSET Orders,
           PutBack \subseteq PutBack',
           \/ offBook' = offBook /\ toBridge' = toBridge
           \/ o \in toBridge /\ offBook' = offBook \cup {o} /\ toBridge' = toBridge \ {o}
    PROVE  IInv'
<1>0. TypeOK
  BY DEF IInv
<1>1. PICK s \in Sides, p \in Prices : \E j \in DOMAIN queue[s][p] :
          queue[s][p][j] = o /\ Requeue(s, p, RemoveAt(queue[s][p], j))
  BY DEF RemoveFromLimits
<1>2. PICK k \in DOMAIN queue[s][p] :
          queue[s][p][k] = o /\ Requeue(s, p, RemoveAt(queue[s][p], k))
  BY <1>1
<1> DEFINE r == RemoveAt(queue[s][p], k)
<1>3. queue[s][p] \in Seq(Orders) /\ k \in 1..Len(queue[s][p])
  BY <1>0, QueueType
<1>4. Without(queue[s][p], r, k)
  BY <1>2, <1>3, RemoveAtWithout
<1>5. /\ queue' = [queue EXCEPT ![s][p] = r]
      /\ levels' = [levels EXCEPT ![s] = IF r = <<>> THEN @ \ {p} ELSE @]
  BY <1>2 DEF Requeue
<1> HIDE DEF r
<1>6. OnBook(o)
  BY <1>2, <1>3 DEF IInv, QueueOK
<1>7. ASSUME NEW x, OnBook(x), x # o PROVE OnBook(x)'
  BY <1>7 DEF OnBook, Remaining, RemoveFromLimits
<1>8. StaysCancelled /\ entry' = entry
  BY DEF StaysCancelled, RemoveFromLimits
<1>9. /\ BookOK' /\ queue' \in [Sides -> [Prices -> Seq(Orders)]]
      /\ levels' \in [Sides -> SUBSET Prices]
  BY <1>2, <1>4, <1>5, <1>7, <1>8, BookAfterRemoval
<1>10. TypeOK'
  <2>1. /\ seq' = seq + 1
        /\ UNCHANGED <<stops, filled, status, lastPrice, stpMode, taker, triggered, fresh,
                       trades, entry>>
    BY DEF RemoveFromLimits
  <2>2. seq' \in Nat
    BY <1>0, <2>1 DEF TypeOK
  <2>3. toBridge' \in SUBSET Orders /\ offBook' \in SUBSET Orders
    BY <1>0 DEF TypeOK, RemoveFromLimits
  <2> QED
    BY <1>0, <1>9, <2>1, <2>2, <2>3 DEF TypeOK
<1>11. ASSUME NEW x \in Orders PROVE AwayOK(x)'
  <2>1. AwayOK(x)
    BY DEF IInv
  <2>2. entry'[x] <= seq'
    <3>1. entry \in [Orders -> Nat] /\ seq \in Nat /\ entry[x] <= seq
      BY <1>0, <2>1 DEF TypeOK, AwayOK
    <3> QED
      BY <3>1 DEF RemoveFromLimits
  <2> QED
    BY <1>6, <2>1, <2>2 DEF AwayOK, Remaining, RemoveFromLimits, OnBook
<1>12. PostOnlyPassive'
  BY FreeIsPassive DEF RemoveFromLimits
<1>13. TradesWithinLimits'
  BY TradesKept DEF IInv, RemoveFromLimits
<1> QED
  BY <1>9, <1>10, <1>11, <1>12, <1>13, Assemble

LEMMA CancelOrderOK ==
    ASSUME IInv, NEW o \in Orders, CancelOrder(o)
    PROVE  IInv'
<1>1. /\ RemoveFromLimits(o) /\ offBook' = offBook /\ toBridge' = toBridge
      /\ toBridge' \in SUBSET Orders /\ offBook' \in SUBSET Orders
  BY DEF CancelOrder, bridge, IInv, TypeOK
<1>2. PutBack \subseteq PutBack'
  BY <1>1 DEF PutBack
<1> QED
  BY <1>1, <1>2, RemovedFromBook

LEMMA OfferToBridgeOK ==
    ASSUME IInv, NEW o \in Orders, OfferToBridge(o)
    PROVE  IInv'
<1>1. /\ RemoveFromLimits(o) /\ o \in toBridge
      /\ offBook' = offBook \cup {o} /\ toBridge' = toBridge \ {o}
      /\ toBridge' \in SUBSET Orders /\ offBook' \in SUBSET Orders
  BY DEF OfferToBridge, IInv, TypeOK
<1>2. PutBack \subseteq PutBack'
  BY <1>1 DEF PutBack
<1> QED
  BY <1>1, <1>2, RemovedFromBook

(* The maker the loop looks at.                                            *)
LEMMA MeetsFacts ==
    ASSUME IInv, NEW o \in Orders, NEW m, NEW p, Meets(o, m, p)
    PROVE  LET other == Opposite(Order[o].side) IN
           /\ taker = o /\ Remaining(o) > 0 /\ status[o] # "CANCELLED"
           /\ other \in Sides /\ p \in Prices /\ p \in levels[other]
           /\ queue[other][p] \in Seq(Orders)
           /\ Without(queue[other][p], Tail(queue[other][p]), 1)
           /\ queue[other][p][1] = m /\ OnBook(m) /\ m # o /\ m \in Orders
           /\ Order[m].side = other /\ Order[m].price = p
           /\ IsLimit(o) => Within(o, p)
           /\ ~Order[o].postOnly
<1> DEFINE other == Opposite(Order[o].side)
<1>0. TypeOK /\ Bounded /\ AwayOK(o) /\ PostOnlyPassive /\ other \in Sides
  BY OrderFields DEF IInv
<1>1. /\ taker = o /\ Matching(o) /\ p = BestLevel(other)
      /\ queue[other][p] # <<>> /\ m = Head(queue[other][p])
  BY DEF Meets
<1>2. Remaining(o) > 0 /\ levels[other] # {} /\ (IsLimit(o) => Within(o, p))
  BY <1>1 DEF Matching
<1>3. p \in levels[other] /\ p \in Prices
  BY <1>0, <1>1, <1>2, BestExists
<1>4. queue[other][p] \in Seq(Orders)
  BY <1>0, <1>3, QueueType
<1>5. Without(queue[other][p], Tail(queue[other][p]), 1) /\ queue[other][p][1] = m
  BY <1>1, <1>4, TailWithout
<1>6. OnBook(m) /\ Order[m].side = other /\ Order[m].price = p
  <2>1. QueueOK(other, p) /\ 1 \in 1..Len(queue[other][p])
    BY <1>0, <1>3, <1>5 DEF IInv, Without
  <2> QED
    BY <1>5, <2>1 DEF QueueOK
<1>7. m \in Orders /\ m # o
  BY <1>1, <1>6 DEF OnBook
<1>8. ~Order[o].postOnly
  BY <1>0, <1>1, <1>2, OrderFields DEF PostOnlyPassive, IsPostOnlyCrossing
<1>9. status[o] # "CANCELLED"
  BY <1>0, <1>1 DEF AwayOK
<1> QED
  BY <1>0, <1>1, <1>2, <1>3, <1>4, <1>5, <1>6, <1>7, <1>8, <1>9

LEMMA MatchingIsNotPostOnly ==
    ASSUME IInv, NEW o \in Orders, taker = o, Matching(o), taker' = o
    PROVE  ~Order[o].postOnly /\ PostOnlyPassive'
<1>1. ~Order[o].postOnly
  BY OrderFields DEF IInv, Matching, PostOnlyPassive, IsPostOnlyCrossing
<1> QED
  BY <1>1 DEF PostOnlyPassive, IsPostOnlyCrossing

LEMMA DropEmptyLevelOK ==
    ASSUME IInv, NEW o \in Orders, DropEmptyLevel(o)
    PROVE  IInv'
<1> DEFINE s == Opposite(Order[o].side)
           p == BestLevel(s)
<1>0. TypeOK /\ Bounded /\ s \in Sides
  BY OrderFields DEF IInv
<1>1. /\ taker = o /\ Matching(o) /\ queue[s][p] = <<>>
      /\ levels' = [levels EXCEPT ![s] = @ \ {p}]
      /\ UNCHANGED <<queue, stops, filled, status, lastPrice, seq, stpMode, taker, triggered,
                     fresh, toBridge, offBook, trades, entry>>
  BY DEF DropEmptyLevel, bridge
<1> HIDE DEF p
<1>2. TypeOK'
  BY <1>0, <1>1 DEF TypeOK
<1>3. \A t \in Sides, u \in Prices : QueueOK(t, u)'
  <2>1. \A x : OnBook(x) => OnBook(x)'
    BY <1>1 DEF OnBook, Remaining
  <2> QED
    BY <1>1, <2>1, QueuesKept
<1>4. ASSUME NEW t \in Sides, NEW u \in Prices PROVE LevelOK(t, u)'
  <2>1. LevelOK(t, u) /\ levels \in [Sides -> SUBSET Prices]
    BY <1>0 DEF IInv, TypeOK
  <2>2. CASE t = s /\ u = p
    BY <1>1, <2>1, <2>2 DEF LevelOK
  <2>3. CASE t # s \/ u # p
    <3>1. u \in levels'[t] <=> u \in levels[t]
      <4>1. CASE t = s
        BY <1>1, <2>1, <2>3, <4>1
      <4>2. CASE t # s
        BY <1>1, <2>1, <4>2
      <4> QED
        BY <4>1, <4>2
    <3> QED
      BY <1>1, <2>1, <3>1 DEF LevelOK
  <2> QED
    BY <2>2, <2>3
<1>5. Bounded'
  <2>1. levels'["BUY"] \subseteq levels["BUY"]
    BY <1>0, <1>1 DEF TypeOK, Sides
  <2> QED
    BY <1>0, <2>1 DEF Bounded
<1>6. Uncrossed'
  <2>1. \A t \in Sides : Resting(t)' = Resting(t)
    BY <1>1 DEF Resting
  <2>2. PutBack' = PutBack
    BY <1>1 DEF PutBack
  <2> QED
    BY <2>1, <2>2, FewerResting DEF IInv
<1>7. ASSUME NEW x \in Orders PROVE AwayOK(x)'
  <2>1. AwayOK(x)
    BY DEF IInv
  <2> QED
    BY <1>1, <2>1 DEF AwayOK, Remaining
<1>8. PostOnlyPassive'
  BY <1>1, MatchingIsNotPostOnly
<1>9. TradesWithinLimits'
  BY <1>1, TradesKept DEF IInv
<1> QED
  BY <1>2, <1>3, <1>4, <1>5, <1>6, <1>7, <1>8, <1>9, Assemble DEF BookOK

(* Self-trade prevention cancels the maker, and with CANCEL_BOTH the taker *)
(* too.                                                                    *)
LEMMA CancelMakerOK ==
    ASSUME IInv, NEW o \in Orders, NEW m, NEW p, NEW s, s = Opposite(Order[o].side),
           Meets(o, m, p), queue' = [queue EXCEPT ![s][p] = Tail(queue[s][p])],
           \/ /\ levels' = [levels EXCEPT ![s] =
                                IF Tail(queue[s][p]) = <<>> THEN @ \ {p} ELSE @]
              /\ taker' = taker
              /\ status' = [status EXCEPT ![m] = "CANCELLED"]
           \/ /\ levels' = levels
              /\ taker' = NoOrder
              /\ status' = [status EXCEPT ![o] = "CANCELLED", ![m] = "CANCELLED"],
           UNCHANGED <<stops, filled, lastPrice, seq, stpMode, triggered, fresh, toBridge,
                       offBook, trades, entry>>
    PROVE  IInv'
<1> DEFINE r == Tail(queue[s][p])
<1>0. TypeOK
  BY DEF IInv
<1>1. /\ taker = o /\ s \in Sides /\ p \in Prices
      /\ Without(queue[s][p], r, 1) /\ queue[s][p][1] = m
      /\ OnBook(m) /\ m # o /\ m \in Orders /\ ~Order[o].postOnly
  BY MeetsFacts, ZenonT(30)
<1> HIDE DEF r
<1>2. status' \in [Orders -> Statuses] /\ status'[m] = "CANCELLED"
  BY <1>0, <1>1 DEF TypeOK, Statuses
<1>3. \A x \in Orders : x # m /\ x # o => status'[x] = status[x]
  BY <1>0 DEF TypeOK
<1>4. taker' = taker => status'[o] = status[o]
  <2>1. taker' = NoOrder => taker' # taker
    BY <1>1, MatcherAssumption DEF MatcherConstants
  <2> QED
    BY <1>0, <1>1, <2>1 DEF TypeOK
<1>5. StaysCancelled
  BY <1>0 DEF TypeOK, StaysCancelled
<1>6. taker' \in {o, NoOrder} /\ NoOrder \notin Orders
  BY <1>1, MatcherAssumption DEF MatcherConstants
<1>7. ASSUME NEW x, OnBook(x), x # m PROVE OnBook(x)'
  <2>1. x \in Orders /\ x # o
    BY <1>1, <1>7 DEF OnBook
  <2> QED
    BY <1>3, <1>6, <1>7, <2>1 DEF OnBook, Remaining
<1>8. PutBack \subseteq PutBack'
  BY DEF PutBack
<1>9. /\ BookOK' /\ queue' \in [Sides -> [Prices -> Seq(Orders)]]
      /\ levels' \in [Sides -> SUBSET Prices]
  <2>1. /\ queue' = [queue EXCEPT ![s][p] = r]
        /\ \/ levels' = [levels EXCEPT ![s] = IF r = <<>> THEN @ \ {p} ELSE @]
           \/ levels' = levels /\ status'[queue[s][p][1]] = "CANCELLED"
    BY <1>1, <1>2 DEF r
  <2> QED
    BY <1>1, <1>5, <1>7, <1>8, <2>1, BookAfterRemoval
<1>10. TypeOK'
  BY <1>0, <1>2, <1>6, <1>9 DEF TypeOK
<1>11. ASSUME NEW x \in Orders PROVE AwayOK(x)'
  <2>1. AwayOK(x) /\ AwayOK(o)
    BY DEF IInv
  <2>2. CASE x = m
    BY <1>1, <1>6, <2>1, <2>2 DEF AwayOK, OnBook, Remaining
  <2>3. CASE x = o
    BY <1>1, <1>4, <1>6, <2>1, <2>3 DEF AwayOK, Remaining
  <2>4. CASE x # m /\ x # o
    BY <1>3, <1>6, <2>1, <2>4 DEF AwayOK, Remaining
  <2> QED
    BY <2>2, <2>3, <2>4
<1>12. PostOnlyPassive'
  BY <1>1, <1>6 DEF PostOnlyPassive, IsPostOnlyCrossing
<1>13. TradesWithinLimits'
  BY TradesKept DEF IInv
<1> QED
  BY <1>9, <1>10, <1>11, <1>12, <1>13, Assemble

LEMMA CancelOldestOK ==
    ASSUME IInv, NEW o \in Orders, NEW m, NEW p, CancelOldest(o, m, p)
    PROVE  IInv'
<1>1. PICK s : s = Opposite(Order[o].side)
  OBVIOUS
<1>2. /\ Meets(o, m, p)
      /\ queue' = [queue EXCEPT ![s][p] = Tail(queue[s][p])]
      /\ levels' = [levels EXCEPT ![s] = IF Tail(queue[s][p]) = <<>> THEN @ \ {p} ELSE @]
      /\ taker' = taker
      /\ status' = [status EXCEPT ![m] = "CANCELLED"]
      /\ UNCHANGED <<stops, filled, lastPrice, seq, stpMode, triggered, fresh, toBridge,
                     offBook, trades, entry>>
  BY <1>1 DEF CancelOldest, Requeue, bridge
<1> QED
  BY <1>1, <1>2, CancelMakerOK

LEMMA CancelBothOK ==
    ASSUME IInv, NEW o \in Orders, NEW m, NEW p, CancelBoth(o, m, p)
    PROVE  IInv'
<1>1. PICK s : s = Opposite(Order[o].side)
  OBVIOUS
<1>2. Meets(o, m, p)
  BY DEF CancelBoth
<1>3. s \in Sides /\ p \in Prices /\ TypeOK
  BY <1>1, <1>2, MeetsFacts DEF IInv
<1>4. /\ queue' = [queue EXCEPT ![s][p] = Tail(queue[s][p])]
      /\ levels' = levels
      /\ taker' = NoOrder
      /\ status' = [status EXCEPT ![o] = "CANCELLED", ![m] = "CANCELLED"]
      /\ UNCHANGED <<stops, filled, lastPrice, seq, stpMode, triggered, fresh, toBridge,
                     offBook, trades, entry>>
  BY <1>1, <1>3 DEF CancelBoth, bridge, TypeOK
<1> QED
  BY <1>1, <1>2, <1>4, CancelMakerOK

LEMMA MinOfTwo ==
    ASSUME NEW a \in Int, NEW b \in Int
    PROVE  Min({a, b}) = IF a <= b THEN a ELSE b
<1> DEFINE c == IF a <= b THEN a ELSE b
<1>1. c \in {a, b} /\ \A y \in {a, b} : c <= y
  OBVIOUS
<1>2. \A x \in {a, b} : (\A y \in {a, b} : x <= y) => x = c
  OBVIOUS
<1> QED
  BY <1>1, <1>2 DEF Min

(* What a trade fills is positive and no more than either order has left.  *)
LEMMA FillQuantity ==
    ASSUME IInv, NEW o \in Orders, NEW m, NEW p, Meets(o, m, p)
    PROVE  /\ MatchQty(o, m) \in Int /\ MatchQty(o, m) > 0
           /\ MatchQty(o, m) <= Remaining(o) /\ MatchQty(o, m) <= Remaining(m)
           /\ Remaining(o) \in Int /\ Remaining(m) \in Int
           /\ Remaining(m) = MatchQty(o, m) \/ Remaining(m) > MatchQty(o, m)
<1>1. m \in Orders /\ Remaining(o) > 0 /\ Remaining(m) > 0
  BY MeetsFacts DEF OnBook
<1>2. Remaining(o) \in Int /\ Remaining(m) \in Int
  <2>1. filled[o] \in Int /\ filled[m] \in Int
    BY <1>1 DEF IInv, TypeOK
  <2>2. Order[o].qty \in Int /\ Order[m].qty \in Int
    BY <1>1, OrderFields
  <2> QED
    BY <2>1, <2>2 DEF Remaining
<1>3. MatchQty(o, m) = IF Remaining(o) <= Remaining(m) THEN Remaining(o) ELSE Remaining(m)
  BY <1>2, MinOfTwo DEF MatchQty
<1> QED
  BY <1>1, <1>2, <1>3

LEMMA FillOK ==
    ASSUME IInv, NEW o \in Orders, NEW m, NEW p, Fill(o, m, p)
    PROVE  IInv'
<1>1. PICK s : s = Opposite(Order[o].side)
  OBVIOUS
<1>2. PICK qty : qty = MatchQty(o, m)
  OBVIOUS
<1>3. PICK fired : fired = {z \in stops : Fires(z, p)}
  OBVIOUS
<1>4. Meets(o, m, p) /\ TypeOK
  BY DEF Fill, IInv
<1>5. /\ taker = o /\ s \in Sides /\ p \in Prices /\ status[o] # "CANCELLED"
      /\ p \in levels[s] /\ queue[s][p] \in Seq(Orders)
      /\ Without(queue[s][p], Tail(queue[s][p]), 1) /\ queue[s][p][1] = m
      /\ OnBook(m) /\ m # o /\ m \in Orders /\ ~Order[o].postOnly
      /\ Order[m].side = s /\ Order[m].price = p
      /\ IsLimit(o) => Within(o, p)
  BY <1>1, <1>4, MeetsFacts
<1>6. /\ qty \in Int /\ qty > 0 /\ qty <= Remaining(o) /\ qty <= Remaining(m)
      /\ Remaining(m) = qty \/ Remaining(m) > qty
  BY <1>2, <1>4, FillQuantity
<1>7. PICK r : r = IF Remaining(m) = qty THEN Tail(queue[s][p]) ELSE queue[s][p]
  OBVIOUS
<1>8. /\ filled' = [filled EXCEPT ![o] = @ + qty, ![m] = @ + qty]
      /\ status' = [status EXCEPT ![o] = StatusAfter(o, qty), ![m] = StatusAfter(m, qty)]
      /\ queue' = [queue EXCEPT ![s][p] = r]
      /\ levels' = [levels EXCEPT ![s] = IF r = <<>> THEN @ \ {p} ELSE @]
      /\ seq' = seq + 1
      /\ trades' = Append(trades, [maker |-> m, taker |-> o, price |-> p, qty |-> qty])
      /\ lastPrice' = p
      /\ stops' = stops \ fired
      /\ triggered' = triggered \cup fired
      /\ UNCHANGED <<stpMode, taker, fresh, toBridge, offBook, entry>>
  BY <1>1, <1>2, <1>3, <1>7 DEF Fill, Requeue, bridge
<1>9. fired \subseteq stops
  BY <1>3
<1>10. /\ filled \in [Orders -> Int] /\ status \in [Orders -> Statuses]
       /\ filled' \in [Orders -> Int] /\ status' \in [Orders -> Statuses]
       /\ filled'[o] = filled[o] + qty /\ filled'[m] = filled[m] + qty
       /\ status'[o] # "CANCELLED" /\ status'[m] # "CANCELLED"
       /\ \A x \in Orders : x # o /\ x # m => filled'[x] = filled[x] /\ status'[x] = status[x]
  <2>1. filled \in [Orders -> Int] /\ status \in [Orders -> Statuses]
    BY <1>4 DEF TypeOK
  <2>2. /\ StatusAfter(o, qty) \in {"FILLED", "PARTIALLY_FILLED"}
        /\ StatusAfter(m, qty) \in {"FILLED", "PARTIALLY_FILLED"}
    BY DEF StatusAfter
  <2>3. /\ filled' \in [Orders -> Int]
        /\ filled'[o] = filled[o] + qty /\ filled'[m] = filled[m] + qty
        /\ \A x \in Orders : x # o /\ x # m => filled'[x] = filled[x]
    BY <1>5, <1>6, <1>8, <2>1
  <2>4. /\ status' \in [Orders -> Statuses]
        /\ status'[o] # "CANCELLED" /\ status'[m] # "CANCELLED"
        /\ \A x \in Orders : x # o /\ x # m => status'[x] = status[x]
    BY <1>5, <1>8, <2>1, <2>2 DEF Statuses
  <2> QED
    BY <2>1, <2>3, <2>4
<1>11. /\ Remaining(o)' >= 0 /\ Remaining(m)' >= 0
       /\ Remaining(m) # qty => Remaining(m)' > 0
       /\ \A x \in Orders : x # o /\ x # m => Remaining(x)' = Remaining(x)
  <2>1. Order[o].qty \in Int /\ Order[m].qty \in Int /\ filled[o] \in Int /\ filled[m] \in Int
    BY <1>5, <1>10, OrderFields
  <2>2. Remaining(o)' >= 0 /\ Remaining(m)' >= 0 /\ (Remaining(m) # qty => Remaining(m)' > 0)
    BY <1>6, <1>10, <2>1 DEF Remaining
  <2> QED
    BY <1>10, <2>2 DEF Remaining
<1>12. StaysCancelled
  BY <1>5, <1>10 DEF StaysCancelled, OnBook
<1>13. ASSUME NEW x, OnBook(x), x # m PROVE OnBook(x)'
  <2>1. x \in Orders /\ x # o
    BY <1>5, <1>13 DEF OnBook
  <2>2. Remaining(x)' > 0 /\ status'[x] # "CANCELLED"
    BY <1>10, <1>11, <1>13, <2>1 DEF OnBook
  <2>3. x \notin stops' \cup triggered' \cup fresh' \cup offBook' \cup {taker'}
    BY <1>8, <1>9, <1>13 DEF OnBook
  <2> QED
    BY <2>1, <2>2, <2>3 DEF OnBook
<1>14. PutBack \subseteq PutBack'
  BY <1>8 DEF PutBack
<1>15. /\ BookOK' /\ queue' \in [Sides -> [Prices -> Seq(Orders)]]
       /\ levels' \in [Sides -> SUBSET Prices]
  <2>1. CASE Remaining(m) = qty
    <3>1. r = Tail(queue[s][p]) /\ Without(queue[s][p], r, 1)
      BY <1>5, <1>7, <2>1
    <3>2. entry' = entry
      BY <1>8
    <3> QED
      BY <1>5, <1>8, <1>12, <1>13, <1>14, <3>1, <3>2, BookAfterRemoval
  <2>2. CASE Remaining(m) # qty
    <3>1. r = queue[s][p] /\ r # <<>>
      BY <1>5, <1>7, <2>2, QueueType DEF Without
    <3>2. queue \in [Sides -> [Prices -> Seq(Orders)]] /\ levels \in [Sides -> SUBSET Prices]
      BY <1>4 DEF TypeOK
    <3>3. queue' = queue /\ levels' = levels
      BY <1>5, <1>8, <3>1, <3>2
    <3>4. OnBook(m)'
      <4>1. m \notin stops' \cup triggered' \cup fresh' \cup offBook' \cup {taker'}
        BY <1>5, <1>8, <1>9 DEF OnBook
      <4> QED
        BY <1>5, <1>10, <1>11, <2>2, <4>1 DEF OnBook
    <3>5. \A x : OnBook(x) => OnBook(x)'
      BY <1>13, <3>4
    <3>6. UNCHANGED <<levels, queue, entry>>
      BY <1>8, <3>3
    <3> QED
      BY <1>12, <1>14, <3>2, <3>3, <3>5, <3>6, BookKept
  <2> QED
    BY <2>1, <2>2
<1>16. PICK t : t = [maker |-> m, taker |-> o, price |-> p, qty |-> qty]
  OBVIOUS
<1>17. /\ t \in Trade /\ t.maker = m /\ t.taker = o /\ t.price = p
       /\ trades \in Seq(Trade)
  BY <1>4, <1>5, <1>6, <1>16 DEF Trade, TypeOK
<1>18. /\ trades' \in Seq(Trade) /\ Len(trades) \in Nat
       /\ Len(trades') = Len(trades) + 1 /\ DOMAIN trades' = 1..Len(trades')
       /\ trades'[Len(trades) + 1] = t
       /\ DOMAIN trades = 1..Len(trades)
       /\ \A i \in 1..Len(trades) : trades'[i] = trades[i]
  BY <1>8, <1>16, <1>17, AppendProperties, LenProperties
<1>19. TypeOK'
  <2>1. stops' \subseteq Orders /\ triggered' \subseteq Orders
    BY <1>4, <1>8, <1>9 DEF TypeOK
  <2>2. seq' \in Nat /\ lastPrice' \in Prices \cup {0}
    BY <1>4, <1>5, <1>8 DEF TypeOK
  <2> QED
    BY <1>4, <1>8, <1>10, <1>15, <1>18, <2>1, <2>2 DEF TypeOK
<1>20. ASSUME NEW x \in Orders PROVE AwayOK(x)'
  <2>1. AwayOK(x) /\ AwayOK(o)
    BY DEF IInv
  <2>2. entry'[x] <= seq'
    <3>1. entry \in [Orders -> Nat] /\ seq \in Nat /\ entry[x] <= seq
      BY <1>4, <2>1 DEF TypeOK, AwayOK
    <3> QED
      BY <1>8, <3>1
  <2>3. CASE x = m
    BY <1>5, <1>8, <1>9, <1>11, <2>2, <2>1, <2>3 DEF AwayOK, OnBook
  <2>4. CASE x = o
    BY <1>5, <1>8, <1>9, <1>10, <1>11, <2>1, <2>2, <2>4 DEF AwayOK
  <2>5. CASE x # m /\ x # o
    <3>1. Remaining(x)' = Remaining(x) /\ status'[x] = status[x]
      BY <1>10, <1>11, <2>5
    <3> QED
      BY <1>5, <1>8, <1>9, <2>1, <2>2, <2>5, <3>1 DEF AwayOK
  <2> QED
    BY <2>3, <2>4, <2>5
<1>21. PostOnlyPassive'
  BY <1>5, <1>8 DEF PostOnlyPassive, IsPostOnlyCrossing
<1>22. TradesWithinLimits'
  <2> SUFFICES ASSUME NEW i \in DOMAIN trades'
               PROVE  /\ trades'[i].price = Order[trades'[i].maker].price
                      /\ IsLimit(trades'[i].taker) => Within(trades'[i].taker, trades'[i].price)
                      /\ ~Order[trades'[i].taker].postOnly
                      /\ Order[trades'[i].maker].side # Order[trades'[i].taker].side
    BY DEF TradesWithinLimits, IsLimit, Within
  <2>1. CASE i \in 1..Len(trades)
    <3>1. trades'[i] = trades[i] /\ i \in DOMAIN trades
      BY <1>18, <2>1
    <3> QED
      BY <3>1 DEF IInv, TradesWithinLimits
  <2>2. CASE i \notin 1..Len(trades)
    <3>1. i = Len(trades) + 1 /\ trades'[i] = t
      BY <1>18, <2>2
    <3>2. Order[m].side # Order[o].side
      BY <1>1, <1>5, OrderFields
    <3> QED
      BY <1>5, <1>17, <3>1, <3>2
  <2> QED
    BY <2>1, <2>2
<1> QED
  BY <1>15, <1>19, <1>20, <1>21, <1>22, Assemble

LEMMA NextOK ==
    ASSUME IInv, [Next]_vars
    PROVE  IInv'
<1>1. CASE UNCHANGED vars
  <2>1. StaysCancelled
    BY <1>1 DEF vars, StaysCancelled
  <2>2. TypeOK'
    BY <1>1 DEF vars, IInv, TypeOK
  <2>3. \A o : OnBook(o) => OnBook(o)'
    BY <1>1 DEF vars, OnBook, Remaining
  <2>4. ASSUME NEW x \in Orders PROVE AwayOK(x)'
    BY <1>1 DEF vars, IInv, AwayOK, Remaining
  <2>5. PostOnlyPassive'
    BY <1>1 DEF vars, IInv, PostOnlyPassive, IsPostOnlyCrossing, BestLevel
  <2>6. PutBack \subseteq PutBack'
    BY <1>1 DEF vars, PutBack
  <2>7. UNCHANGED <<levels, queue, entry, trades>>
    BY <1>1 DEF vars
  <2> QED
    BY <2>1, <2>2, <2>3, <2>4, <2>5, <2>6, <2>7, QuietStep
<1>2. CASE \E o \in Orders : Reject(o)
  BY <1>2, RejectOK
<1>3. CASE \E o \in Orders : Enter(o)
  BY <1>3, EnterOK
<1>4. CASE \E o \in Orders : MatchStep(o)
  <2>1. PICK o \in Orders : MatchStep(o)
    BY <1>4
  <2>2. CASE DropEmptyLevel(o)
    BY <2>2, DropEmptyLevelOK
  <2>3. CASE \E m \in Orders, p \in Prices : CancelNewest(o, m, p)
    BY <2>3, CancelNewestOK
  <2>4. CASE \E m \in Orders, p \in Prices : CancelOldest(o, m, p)
    BY <2>4, CancelOldestOK
  <2>5. CASE \E m \in Orders, p \in Prices : CancelBoth(o, m, p)
    BY <2>5, CancelBothOK
  <2>6. CASE \E m \in Orders, p \in Prices : Fill(o, m, p)
    BY <2>6, FillOK
  <2>7. CASE CancelRemainder(o)
    BY <2>7, CancelRemainderOK
  <2>8. CASE Rest(o)
    BY <2>8, RestOK
  <2>9. CASE Return(o)
    BY <2>9, ReturnOK
  <2> QED
    BY <2>1, <2>2, <2>3, <2>4, <2>5, <2>6, <2>7, <2>8, <2>9 DEF MatchStep
<1>5. CASE \E o \in Orders : AddStopOrder(o)
  BY <1>5, AddStopOK
<1>6. CASE \E o \in Orders : CancelStopOrder(o)
  BY <1>6, CancelStopOK
<1>7. CASE \E o \in Orders : CancelOrder(o)
  BY <1>7, CancelOrderOK
<1>8. CASE \E o \in Orders : OfferToBridge(o)
  BY <1>8, OfferToBridgeOK
<1>9. CASE \E o \in Orders : AddOrderToBookDirect(o)
  BY <1>9, PutBackOK
<1>10. CASE \E mode \in STPModes : SetSTPMode(mode)
  BY <1>10, SetSTPModeOK
<1> QED
  BY <1>1, <1>2, <1>3, <1>4, <1>5, <1>6, <1>7, <1>8, <1>9, <1>10 DEF Next

-------------------------------------------------------------------------------
(* The theorems *)

(* The conjunction of facts above holds in every reachable state of the    *)
(* order book.                                                             *)
THEOREM MatcherInductive == Spec => []IInv
<1>1. Init => IInv
  BY InitOK
<1>2. IInv /\ [Next]_vars => IInv'
  BY NextOK
<1> QED
  BY <1>1, <1>2, PTL DEF Spec

(* Whatever is matched, cancelled, triggered, rejected, taken off for the  *)
(* bridge or put back: an order is in one place, the queues hold orders of *)
(* their side and price with something left to fill, and levels and queues *)
(* agree but for what CANCEL_BOTH leaves (MatchOrder, CancelOrder,         *)
(* addOrderToBook).                                                        *)
THEOREM BookStaysWellFormed == Spec => []BookWellFormed
<1>1. ASSUME IInv PROVE BookWellFormed
  <2>0. TypeOK
    BY <1>1 DEF IInv
  <2>1. ASSUME NEW s \in Sides, NEW p \in Prices
        PROVE  /\ queue[s][p] # <<>> => p \in levels[s]
               /\ queue[s][p] = <<>> /\ p \in levels[s] =>
                      \E o \in Orders : Order[o].side = s /\ Order[o].price = p
                                        /\ status[o] = "CANCELLED"
               /\ \A i, j \in DOMAIN queue[s][p] :
                      /\ Order[queue[s][p][i]].side = s
                      /\ Order[queue[s][p][i]].price = p
                      /\ Remaining(queue[s][p][i]) > 0
                      /\ queue[s][p][i] = queue[s][p][j] => i = j
    <3>1. LevelOK(s, p) /\ QueueOK(s, p)
      BY <1>1 DEF IInv
    <3>2. ASSUME NEW i \in DOMAIN queue[s][p], NEW j \in DOMAIN queue[s][p]
          PROVE  /\ Order[queue[s][p][i]].side = s
                 /\ Order[queue[s][p][i]].price = p
                 /\ Remaining(queue[s][p][i]) > 0
                 /\ queue[s][p][i] = queue[s][p][j] => i = j
      <4>1. i \in 1..Len(queue[s][p]) /\ j \in 1..Len(queue[s][p]) /\ Len(queue[s][p]) \in Nat
        BY <2>0, QueueType
      <4>2. /\ Order[queue[s][p][i]].side = s
            /\ Order[queue[s][p][i]].price = p
            /\ OnBook(queue[s][p][i]) /\ OnBook(queue[s][p][j])
        BY <3>1, <4>1 DEF QueueOK
      <4>3. entry[queue[s][p][i]] \in Nat /\ entry[queue[s][p][j]] \in Nat
        BY <2>0, <4>2 DEF TypeOK, OnBook
      <4>4. /\ i < j => entry[queue[s][p][i]] < entry[queue[s][p][j]]
            /\ j < i => entry[queue[s][p][j]] < entry[queue[s][p][i]]
        BY <3>1, <4>1 DEF QueueOK
      <4>5. queue[s][p][i] = queue[s][p][j] => i = j
        BY <4>1, <4>3, <4>4
      <4> QED
        BY <4>2, <4>5 DEF OnBook
    <3> QED
      BY <3>1, <3>2 DEF LevelOK
  <2>2. ASSUME NEW o \in Resting("BUY") \cup Resting("SELL")
        PROVE  o \notin stops \cup triggered \cup fresh \cup offBook \cup {taker}
    <3>1. PICK s \in Sides : o \in Resting(s)
      BY DEF Sides
    <3>2. OnBook(o)
      BY <1>1, <3>1, BestBeatsResting
    <3> QED
      BY <3>2 DEF OnBook
  <2>3. stops \cap triggered = {}
    BY <1>1 DEF IInv, AwayOK, TypeOK
  <2> QED
    BY <2>0, <2>1, <2>2, <2>3 DEF BookWellFormed
<1> QED
  BY <1>1, MatcherInductive, PTL

(* MatchOrder leaves no resting buy that meets a resting sell, whichever   *)
(* modifier or self-trade prevention mode ended it; only an order the      *)
(* router put back unmatched may cross (addOrderToBook after the loop of   *)
(* MatchOrder).                                                            *)
THEOREM BookStaysUncrossed == Spec => []NotCrossed
<1>1. IInv => NotCrossed
  BY DEF IInv, Uncrossed, NotCrossed
<1> QED
  BY <1>1, MatcherInductive, PTL

(* Every trade is at the price of its maker, within the limit of its       *)
(* taker, and never made by a post-only taker (isPostOnlyCrossing at the   *)
(* entry protects the whole loop of MatchOrder).                           *)
THEOREM TradesRespectLimits == Spec => []TradesWithinLimits
<1>1. IInv => TradesWithinLimits
  BY DEF IInv
<1> QED
  BY <1>1, MatcherInductive, PTL

(* Each trade is with the order that was put on the book first among those *)
(* with the best price, and a step makes one trade at most (the loops of   *)
(* MatchOrder over the levels and the queues).                             *)
THEOREM PriceTimePriorityHolds == Spec => PriceTimePriority
<1> DEFINE Priority ==
        trades' # trades =>
          LET m    == Last(trades').maker
              side == Order[m].side
          IN  /\ Len(trades') = Len(trades) + 1
              /\ \A r \in Resting(side) \ {m} :
                     \/ Better(side, Order[m].price, Order[r].price)
                     \/ Order[m].price = Order[r].price /\ entry[m] < entry[r]
<1>1. ASSUME IInv, [Next]_vars PROVE [Priority]_vars
  <2> SUFFICES ASSUME trades' # trades PROVE Priority
    OBVIOUS
  <2>1. PICK o \in Orders, m \in Orders, p \in Prices : Fill(o, m, p)
    BY <1>1 DEF Next, vars, MatchStep, Reject, Enter, DropEmptyLevel, CancelNewest,
                CancelOldest, CancelBoth, CancelRemainder, Rest, Return, AddStopOrder,
                CancelStopOrder, CancelOrder, OfferToBridge, RemoveFromLimits,
                AddOrderToBookDirect, SetSTPMode
  <2>2. PICK s : s = Opposite(Order[o].side)
    OBVIOUS
  <2>3. Meets(o, m, p) /\ TypeOK /\ Bounded
    BY <1>1, <2>1 DEF Fill, IInv
  <2>4. /\ s \in Sides /\ queue[s][p][1] = m /\ OnBook(m) /\ levels[s] # {}
        /\ Order[m].side = s /\ Order[m].price = p /\ p = BestLevel(s)
        /\ Without(queue[s][p], Tail(queue[s][p]), 1)
    <3>1. p = BestLevel(s)
      BY <2>2, <2>3 DEF Meets
    <3>2. /\ s \in Sides /\ queue[s][p][1] = m /\ OnBook(m) /\ p \in levels[s]
          /\ Order[m].side = s /\ Order[m].price = p
          /\ Without(queue[s][p], Tail(queue[s][p]), 1)
      BY <1>1, <2>2, <2>3, MeetsFacts, ZenonT(30)
    <3> QED
      BY <3>1, <3>2
  <2>5. Len(trades') = Len(trades) + 1 /\ Last(trades').maker = m
    <3>1. PICK t : t = [maker |-> m, taker |-> o, price |-> p, qty |-> MatchQty(o, m)]
      OBVIOUS
    <3>2. trades' = Append(trades, t) /\ trades \in Seq(Trade)
      BY <2>1, <2>3, <3>1 DEF Fill, TypeOK
    <3>3. t \in Trade /\ t.maker = m
      <4>1. MatchQty(o, m) \in Int
        BY <1>1, <2>3, FillQuantity
      <4> QED
        BY <3>1, <4>1 DEF Trade
    <3>4. Len(trades') = Len(trades) + 1 /\ trades'[Len(trades')] = t
      BY <3>2, <3>3, AppendProperties, LenProperties
    <3> QED
      BY <3>3, <3>4 DEF Last
  <2>6. ASSUME NEW r \in Resting(s) \ {m}
        PROVE  \/ Better(s, p, Order[r].price)
               \/ p = Order[r].price /\ entry[m] < entry[r]
    <3>1. p = Order[r].price \/ Better(s, p, Order[r].price)
      BY <1>1, <2>4, BestBeatsResting
    <3>2. CASE p = Order[r].price
      <4>1. PICK u \in Prices : \E i \in 1..Len(queue[s][u]) : queue[s][u][i] = r
        BY <2>3, <2>4, RestingMember
      <4>2. PICK i \in 1..Len(queue[s][u]) : queue[s][u][i] = r
        BY <4>1
      <4>3. QueueOK(s, u) /\ Len(queue[s][u]) \in Nat
        BY <1>1, <2>3, <2>4, QueueType DEF IInv
      <4>4. u = p
        BY <3>2, <4>2, <4>3 DEF QueueOK
      <4>5. i # 1 /\ 1 \in 1..Len(queue[s][u]) /\ 1 < i
        BY <2>4, <4>2, <4>3, <4>4 DEF Without
      <4>6. entry[queue[s][u][1]] < entry[queue[s][u][i]]
        BY <4>3, <4>5 DEF QueueOK
      <4> QED
        BY <2>4, <3>2, <4>2, <4>4, <4>6
    <3> QED
      BY <3>1, <3>2
  <2> QED
    BY <2>4, <2>5, <2>6
<1>2. Spec => [][Priority]_vars
  BY <1>1, MatcherInductive, PTL DEF Spec
<1> QED
  BY <1>2 DEF PriceTimePriority

-------------------------------------------------------------------------------
(* What the trades add up to *)

Mine(o) == {i \in DOMAIN trades : o \in {trades[i].maker, trades[i].taker}}
Traded(o) == SumFunction([i \in Mine(o) |-> trades[i].qty])
FillsAddUp == \A o \in Orders : filled[o] = Traded(o)

(* What a trade does to the fills and to the history.                      *)
LEMMA FillChanges ==
    ASSUME IInv, NEW o \in Orders, NEW m, NEW p, Fill(o, m, p)
    PROVE  LET qty == MatchQty(o, m) IN
           /\ taker = o /\ m \in Orders /\ m # o /\ qty \in Int /\ qty > 0
           /\ filled \in [Orders -> Int]
           /\ \A x \in Orders : filled'[x] = IF x \in {o, m} THEN filled[x] + qty
                                               ELSE filled[x]
           /\ Len(trades) \in Nat
           /\ DOMAIN trades = 1..Len(trades) /\ DOMAIN trades' = 1..(Len(trades) + 1)
           /\ \A i \in 1..Len(trades) : trades'[i] = trades[i]
           /\ trades'[Len(trades) + 1] = [maker |-> m, taker |-> o, price |-> p, qty |-> qty]
<1>1. PICK qty : qty = MatchQty(o, m)
  OBVIOUS
<1>2. PICK t : t = [maker |-> m, taker |-> o, price |-> p, qty |-> qty]
  OBVIOUS
<1>3. Meets(o, m, p) /\ TypeOK
  BY DEF Fill, IInv
<1>4. taker = o /\ m \in Orders /\ m # o /\ p \in Prices
  BY <1>3, MeetsFacts
<1>5. qty \in Int /\ qty > 0
  BY <1>1, <1>3, FillQuantity
<1>6. /\ filled' = [filled EXCEPT ![o] = @ + qty, ![m] = @ + qty]
      /\ trades' = Append(trades, t)
  BY <1>1, <1>2 DEF Fill
<1>7. filled \in [Orders -> Int] /\ trades \in Seq(Trade)
  BY <1>3 DEF TypeOK
<1>8. \A x \in Orders : filled'[x] = IF x \in {o, m} THEN filled[x] + qty ELSE filled[x]
  BY <1>4, <1>6, <1>7
<1>9. t \in Trade
  BY <1>2, <1>4, <1>5 DEF Trade
<1>10. /\ Len(trades) \in Nat /\ DOMAIN trades = 1..Len(trades)
       /\ Append(trades, t) \in Seq(Trade) /\ Len(Append(trades, t)) = Len(trades) + 1
       /\ Append(trades, t)[Len(trades) + 1] = t
       /\ \A i \in 1..Len(trades) : Append(trades, t)[i] = trades[i]
  BY <1>7, <1>9, AppendProperties, LenProperties
<1>11. DOMAIN trades' = 1..(Len(trades) + 1)
  BY <1>6, <1>10, LenProperties
<1> QED
  BY <1>1, <1>2, <1>4, <1>5, <1>6, <1>7, <1>8, <1>10, <1>11

(* Every step but a trade leaves the fills and the history alone.          *)
LEMMA OnlyFillTrades ==
    ASSUME [Next]_vars, ~(UNCHANGED <<filled, trades>>)
    PROVE  \E o \in Orders, m \in Orders, p \in Prices : Fill(o, m, p)
BY DEF Next, vars, MatchStep, Reject, Enter, DropEmptyLevel, CancelNewest,
       CancelOldest, CancelBoth, CancelRemainder, Rest, Return, AddStopOrder,
       CancelStopOrder, CancelOrder, OfferToBridge, RemoveFromLimits,
       AddOrderToBookDirect, SetSTPMode

LEMMA FillsAddUpStep ==
    ASSUME IInv, FillsAddUp, [Next]_vars
    PROVE  FillsAddUp'
<1>1. CASE UNCHANGED <<filled, trades>>
  BY <1>1 DEF FillsAddUp, Traded, Mine
<1>2. CASE ~(UNCHANGED <<filled, trades>>)
  <2>1. PICK o \in Orders, m \in Orders, p \in Prices : Fill(o, m, p)
    BY <1>2, OnlyFillTrades
  <2>2. PICK qty : qty = MatchQty(o, m)
    OBVIOUS
  <2>3. PICK n : n = Len(trades)
    OBVIOUS
  <2>4. /\ m # o /\ qty \in Int /\ filled \in [Orders -> Int] /\ n \in Nat
        /\ \A x \in Orders : filled'[x] = IF x \in {o, m} THEN filled[x] + qty ELSE filled[x]
        /\ DOMAIN trades = 1..n /\ DOMAIN trades' = 1..(n + 1)
        /\ \A i \in 1..n : trades'[i] = trades[i]
        /\ trades'[n + 1] = [maker |-> m, taker |-> o, price |-> p, qty |-> qty]
    BY <2>1, <2>2, <2>3, FillChanges
  <2>5. \A i \in 1..n : trades[i].qty \in Int
    <3>1. trades \in Seq(Trade)
      BY DEF IInv, TypeOK
    <3>2. \A i \in 1..n : trades[i] \in Trade
      BY <2>3, <3>1, ElementOfSeq
    <3>3. \A t \in Trade : t.qty \in Int
      BY DEF Trade
    <3> QED
      BY <3>2, <3>3
  <2>6. trades'[n + 1].maker = m /\ trades'[n + 1].taker = o /\ trades'[n + 1].qty = qty
    BY <2>4
  <2> SUFFICES ASSUME NEW x \in Orders PROVE filled'[x] = Traded(x)'
    BY DEF FillsAddUp
  <2> DEFINE f == [i \in Mine(x) |-> trades[i].qty]
             g == [i \in Mine(x)' |-> trades'[i].qty]
             S == Mine(x)
  <2>7. filled[x] = SumFunctionOnSet(f, S) /\ Traded(x)' = SumFunctionOnSet(g, Mine(x)')
    BY DEF FillsAddUp, Traded, SumFunction
  <2>8. S \subseteq 1..n /\ IsFiniteSet(S) /\ n + 1 \notin S
    <3>1. S \subseteq 1..n
      BY <2>4 DEF Mine
    <3>2. IsFiniteSet(1..n)
      BY <2>4, FS_Interval
    <3> QED
      BY <2>4, <3>1, <3>2, FS_Subset
  <2>9. Mine(x)' = IF x \in {o, m} THEN S \cup {n + 1} ELSE S
    <3>1. \A i \in 1..n : i \in Mine(x)' <=> i \in S
      BY <2>4 DEF Mine
    <3>2. n + 1 \in Mine(x)' <=> x \in {o, m}
      BY <2>4, <2>6 DEF Mine
    <3>3. Mine(x)' \subseteq 1..(n + 1)
      BY <2>4 DEF Mine
    <3>4. \A i \in 1..(n + 1) : i \in 1..n \/ i = n + 1
      BY <2>4
    <3>5. S \subseteq 1..(n + 1)
      BY <2>4, <2>8
    <3> HIDE DEF S
    <3>6. \A i \in 1..(n + 1) : i \in Mine(x)' <=> i \in S \/ (i = n + 1 /\ x \in {o, m})
      BY <2>8, <3>1, <3>2, <3>4
    <3>7. n + 1 \in 1..(n + 1)
      BY <2>4
    <3> QED
      BY <3>3, <3>5, <3>6, <3>7
  <2>10. \A i \in S : g[i] = f[i] /\ f[i] \in Int
    BY <2>4, <2>5, <2>8, <2>9
  <2>11. SumFunctionOnSet(g, S) = SumFunctionOnSet(f, S)
    <3>1. \A i \in S : g[i] = f[i]
      BY <2>10
    <3>2. IsFiniteSet(S)
      BY <2>8
    <3> HIDE DEF f, g, S
    <3> QED
      BY <3>1, <3>2, SumSame
  <2>12. CASE x \in {o, m}
    <3>1. g[n + 1] = qty
      BY <2>6, <2>9, <2>12
    <3>2. \A i \in S \cup {n + 1} : g[i] \in Int
      BY <2>4, <2>10, <3>1
    <3> HIDE DEF f, g, S
    <3>3. SumFunctionOnSet(g, S \cup {n + 1}) = SumFunctionOnSet(g, S) + qty
      BY <2>8, <3>1, <3>2, SumAdd
    <3> QED
      BY <2>4, <2>7, <2>9, <2>11, <2>12, <3>3
  <2>13. CASE x \notin {o, m}
    <3> HIDE DEF f, g, S
    <3> QED
      BY <2>4, <2>7, <2>9, <2>11, <2>13
  <2> QED
    BY <2>12, <2>13
<1> QED
  BY <1>1, <1>2

LEMMA FillsAddUpInit ==
    ASSUME Init
    PROVE  FillsAddUp
<1> SUFFICES ASSUME NEW o \in Orders PROVE filled[o] = Traded(o)
  BY DEF FillsAddUp
<1>1. Mine(o) = {}
  BY DEF Init, Mine
<1>2. Traded(o) = SumFunctionOnSet([i \in {} |-> trades[i].qty], {})
  BY <1>1 DEF Traded, SumFunction
<1> QED
  BY <1>2, SumEmpty DEF Init

(* FilledQty of an order is the sum of the quantities of its trades, for   *)
(* any number of trades, and never more than its quantity (the updates of  *)
(* FilledQty on both sides of a match in MatchOrder).                      *)
THEOREM FillsAreTrades == Spec => []FillsMatchTrades
<1>1. Init => FillsAddUp
  BY FillsAddUpInit
<1>2. IInv /\ FillsAddUp /\ [Next]_vars => FillsAddUp'
  BY FillsAddUpStep
<1>3. ASSUME IInv, FillsAddUp PROVE FillsMatchTrades
  <2>1. ASSUME NEW o \in Orders PROVE filled[o] <= Order[o].qty
    <3>1. Remaining(o) >= 0 /\ filled[o] \in Int
      BY <1>3 DEF IInv, AwayOK, TypeOK
    <3> QED
      BY <3>1, OrderFields DEF Remaining
  <2> QED
    BY <1>3, <2>1 DEF FillsMatchTrades, FillsAddUp, Traded, Mine
<1> QED
  BY <1>1, <1>2, <1>3, MatcherInductive, PTL DEF Spec

-------------------------------------------------------------------------------
(* Fill or kill *)

(* The user of o has, or has had, an order on the other side.              *)
Conflict(o) == \E m \in Orders \ fresh : SelfTrade(o, m) /\ Order[m].side # Order[o].side
Killable(o) == Order[o].tif = "FOK" /\ IsLimit(o) /\ ~Conflict(o)

(* What isFOK adds up for o.                                               *)
Reach(o) == {m \in Resting(Opposite(Order[o].side)) : Within(o, Order[m].price)}
Depth(o) == SumFunction([m \in Reach(o) |-> Remaining(m)])

(* While the order is matched what is in reach still covers it; otherwise  *)
(* it has traded in whole or not at all and waits nowhere.                 *)
AllOrNothing(o) ==
    Killable(o) =>
        IF taker = o THEN Remaining(o) <= Depth(o)
        ELSE filled[o] \in {0, Order[o].qty} /\ o \notin Resting(Order[o].side) \cup offBook

KillInv ==
    /\ \A s \in Sides : IsFiniteSet(Resting(s))
    /\ \A o \in Orders : AllOrNothing(o)

LEMMA FreshShrinks ==
    ASSUME [Next]_vars
    PROVE  fresh' \subseteq fresh
<1>1. ASSUME NEW o \in Orders, MatchStep(o) PROVE fresh' = fresh
  BY <1>1 DEF MatchStep, DropEmptyLevel, CancelNewest, CancelOldest, CancelBoth, Fill,
              CancelRemainder, Rest, Return
<1>2. ASSUME NEW o \in Orders, Reject(o) \/ Enter(o) \/ AddStopOrder(o)
      PROVE  fresh' = fresh \ {o}
  BY <1>2 DEF Reject, Enter, AddStopOrder, Calls
<1>3. ASSUME NEW o \in Orders, \/ CancelStopOrder(o) \/ CancelOrder(o) \/ OfferToBridge(o)
                               \/ AddOrderToBookDirect(o)
      PROVE  fresh' = fresh
  BY <1>3 DEF CancelStopOrder, CancelOrder, OfferToBridge, RemoveFromLimits,
              AddOrderToBookDirect
<1>4. ASSUME NEW mode, SetSTPMode(mode) PROVE fresh' = fresh
  BY <1>4 DEF SetSTPMode
<1> QED
  BY <1>1, <1>2, <1>3, <1>4 DEF Next, vars

LEMMA KillableBefore ==
    ASSUME fresh' \subseteq fresh, NEW o, Killable(o)'
    PROVE  Killable(o)
BY DEF Killable, Conflict, SelfTrade, IsLimit

LEMMA RemainingType ==
    ASSUME IInv, NEW o \in Orders
    PROVE  Remaining(o) \in Int
<1>1. filled \in [Orders -> Int]
  BY DEF IInv, TypeOK
<1> QED
  BY <1>1, OrderFields DEF Remaining

LEMMA RestingOnBook ==
    ASSUME IInv, NEW s \in Sides, NEW r \in Resting(s)
    PROVE  OnBook(r) /\ Order[r].side = s /\ r \in Orders /\ r # taker /\ r \notin offBook
           /\ r \notin fresh
<1>1. OnBook(r) /\ Order[r].side = s
  BY BestBeatsResting
<1> QED
  BY <1>1 DEF OnBook

(* Self-trade prevention never refuses a killable order.                   *)
LEMMA MeetsConflict ==
    ASSUME IInv, NEW o \in Orders, NEW m, NEW p, Meets(o, m, p), SelfTrade(o, m)
    PROVE  ~Killable(o)
<1>1. /\ m \in Orders /\ OnBook(m) /\ Order[m].side = Opposite(Order[o].side)
  BY MeetsFacts
<1>2. m \notin fresh /\ Order[m].side # Order[o].side
  BY <1>1, OrderFields DEF OnBook
<1> QED
  BY <1>1, <1>2 DEF Killable, Conflict

LEMMA HeadRests ==
    ASSUME IInv, NEW o \in Orders, NEW m, NEW p, Meets(o, m, p)
    PROVE  /\ m \in Resting(Opposite(Order[o].side))
           /\ m \in Orders /\ p \in Prices /\ Order[m].price = p
           /\ Opposite(Order[o].side) \in Sides
           /\ IsLimit(o) => m \in Reach(o)
<1> DEFINE s == Opposite(Order[o].side)
<1>1. /\ s \in Sides /\ p \in Prices /\ m \in Orders /\ Order[m].price = p
      /\ Without(queue[s][p], Tail(queue[s][p]), 1) /\ queue[s][p][1] = m
      /\ IsLimit(o) => Within(o, p)
  BY MeetsFacts
<1>2. TypeOK
  BY DEF IInv
<1>3. m \in Resting(s)
  BY <1>1, <1>2, RestingMember DEF Without
<1> QED
  BY <1>1, <1>3 DEF Reach

(* The loop ends with something left only when nothing is in reach.        *)
LEMMA NothingInReach ==
    ASSUME IInv, NEW o \in Orders, ~Matching(o), Remaining(o) > 0, IsLimit(o)
    PROVE  Depth(o) = 0
<1> DEFINE s == Opposite(Order[o].side)
<1>1. s \in Sides /\ Order[o].price \in Prices
  BY OrderFields
<1>2. ASSUME NEW r \in Reach(o) PROVE FALSE
  <2>1. r \in Resting(s) /\ Within(o, Order[r].price)
    BY <1>2 DEF Reach
  <2>2. /\ levels[s] # {} /\ r \in Orders
        /\ BestLevel(s) = Order[r].price \/ Better(s, BestLevel(s), Order[r].price)
    BY <1>1, <2>1, BestBeatsResting DEF OnBook
  <2>3. BestLevel(s) \in Prices
    BY <1>1, <2>2, BestExists DEF IInv
  <2>4. Order[o].price \in Nat /\ Order[r].price \in Nat /\ BestLevel(s) \in Nat
    BY <1>1, <2>2, <2>3, OrderFields, PricesAreInts
  <2>5. Within(o, BestLevel(s))
    BY <2>1, <2>2, <2>4 DEF Within, Better
  <2> QED
    BY <2>2, <2>5 DEF Matching
<1>3. Reach(o) = {}
  BY <1>2
<1>4. Depth(o) = SumFunctionOnSet([m \in {} |-> Remaining(m)], {})
  BY <1>3 DEF Depth, SumFunction
<1> QED
  BY <1>4, SumEmpty

(* A step that leaves the queues and the fills alone.                      *)
LEMMA KillQuiet ==
    ASSUME IInv, KillInv, UNCHANGED <<queue, filled, offBook>>, fresh' \subseteq fresh,
           \/ taker' = taker
           \/ taker' \in Orders /\ taker = NoOrder /\ ~IsFOK(taker')
           \/ taker' = NoOrder /\ taker \in Orders
              /\ (Killable(taker) => filled[taker] = Order[taker].qty)
    PROVE  KillInv'
<1>1. \A s : Resting(s)' = Resting(s)
  BY DEF Resting
<1>2. \A s \in Sides : IsFiniteSet(Resting(s)')
  BY <1>1 DEF KillInv
<1>3. ASSUME NEW o \in Orders PROVE AllOrNothing(o)'
  <2> SUFFICES ASSUME Killable(o)'
               PROVE  IF taker' = o THEN Remaining(o)' <= Depth(o)'
                      ELSE /\ filled'[o] \in {0, Order[o].qty}
                           /\ o \notin Resting(Order[o].side)' \cup offBook'
    BY DEF AllOrNothing
  <2>1. Killable(o) /\ AllOrNothing(o)
    BY KillableBefore DEF KillInv
  <2>2. Reach(o)' = Reach(o) /\ \A m : Remaining(m)' = Remaining(m)
    BY DEF Reach, Within, Resting, Remaining
  <2>3. Depth(o)' = Depth(o) /\ Remaining(o)' = Remaining(o)
    BY <2>2 DEF Depth
  <2>4. o \notin Resting(Order[o].side) \cup offBook \/ taker # o
    <3>1. Order[o].side \in Sides
      BY OrderFields
    <3>2. o = taker => o \notin offBook
      BY DEF IInv, AwayOK
    <3> QED
      BY <3>1, <3>2, RestingOnBook
  <2>5. taker' = o /\ taker = NoOrder /\ ~IsFOK(o) => Remaining(o) <= Depth(o)
    <3> SUFFICES ASSUME ~IsFOK(o) PROVE Remaining(o) <= Depth(o)
      OBVIOUS
    <3>1. ~(Depth(o) < Remaining(o))
      BY <2>1 DEF IsFOK, Depth, Reach, Killable
    <3>2. Remaining(o) \in Int
      BY RemainingType
    <3>3. Depth(o) \in Int
      <4>1. Opposite(Order[o].side) \in Sides
        BY OrderFields
      <4>2. IsFiniteSet(Reach(o)) /\ \A m \in Reach(o) : Remaining(m) \in Int
        <5>1. Reach(o) \subseteq Resting(Opposite(Order[o].side))
          BY DEF Reach
        <5>2. IsFiniteSet(Reach(o))
          BY <4>1, <5>1, FS_Subset DEF KillInv
        <5>3. ASSUME NEW m \in Reach(o) PROVE Remaining(m) \in Int
          <6>1. m \in Orders
            BY <4>1, <5>1, RestingOnBook
          <6> QED
            BY <6>1, RemainingType
        <5> QED
          BY <5>2, <5>3
      <4> DEFINE f == [m \in Reach(o) |-> Remaining(m)]
      <4>3. \A m \in Reach(o) : f[m] \in Int
        BY <4>2
      <4>4. Depth(o) = SumFunctionOnSet(f, Reach(o))
        BY DEF Depth, SumFunction
      <4> HIDE DEF f
      <4> QED
        BY <4>2, <4>3, <4>4, SumType
    <3> QED
      BY <3>1, <3>2, <3>3
  <2>6. NoOrder \notin Orders
    BY MatcherAssumption DEF MatcherConstants
  <2>7. CASE taker' = o
    <3>1. taker = o \/ (taker = NoOrder /\ ~IsFOK(o))
      BY <2>6, <2>7
    <3>2. Remaining(o) <= Depth(o)
      BY <2>1, <2>5, <2>7, <3>1 DEF AllOrNothing
    <3> QED
      BY <2>3, <2>7, <3>2
  <2>8. CASE taker' # o
    <3>1. o \notin Resting(Order[o].side) \cup offBook
      BY <2>1, <2>4 DEF AllOrNothing
    <3>2. CASE taker = o
      <4>1. filled[o] = Order[o].qty
        BY <2>1, <2>6, <2>8, <3>2
      <4> QED
        BY <1>1, <2>8, <3>1, <4>1
    <3>3. CASE taker # o
      <4>1. filled[o] \in {0, Order[o].qty}
        BY <2>1, <3>3 DEF AllOrNothing
      <4> QED
        BY <1>1, <2>8, <3>1, <4>1
    <3> QED
      BY <3>2, <3>3
  <2> QED
    BY <2>7, <2>8
<1> QED
  BY <1>2, <1>3 DEF KillInv

(* The order o joins or leaves the book and the fills stay.                *)
LEMMA KillMoves ==
    ASSUME IInv, KillInv, NEW o \in Orders, ~Killable(o),
           \A s \in Sides : Resting(s)' \subseteq Resting(s) \cup {o},
           offBook' \subseteq offBook \cup {o}, filled' = filled, fresh' \subseteq fresh,
           taker' \in {taker, NoOrder}, taker \in Orders => ~Killable(taker)
    PROVE  KillInv'
<1>1. ASSUME NEW s \in Sides PROVE IsFiniteSet(Resting(s)')
  <2>1. IsFiniteSet(Resting(s) \cup {o})
    BY FS_AddElement DEF KillInv
  <2> QED
    BY <2>1, FS_Subset
<1>2. ASSUME NEW x \in Orders PROVE AllOrNothing(x)'
  <2> SUFFICES ASSUME Killable(x)'
               PROVE  /\ taker' # x
                      /\ filled'[x] \in {0, Order[x].qty}
                      /\ x \notin Resting(Order[x].side)' \cup offBook'
    BY DEF AllOrNothing
  <2>1. Killable(x) /\ AllOrNothing(x)
    BY KillableBefore DEF KillInv
  <2>2. x # o /\ x # taker /\ x # NoOrder
    BY <2>1, MatcherAssumption DEF MatcherConstants
  <2>3. filled[x] \in {0, Order[x].qty} /\ x \notin Resting(Order[x].side) \cup offBook
    BY <2>1, <2>2 DEF AllOrNothing
  <2>4. Order[x].side \in Sides
    BY OrderFields
  <2>5. x \notin Resting(Order[x].side)'
    BY <2>2, <2>3, <2>4
  <2> QED
    BY <2>2, <2>3, <2>5
<1> QED
  BY <1>1, <1>2 DEF KillInv

(* Exactly the k-th order of a queue leaves the book.                      *)
OneLeaves(s, p, k) ==
    /\ queue[s][p][k] \in Resting(s)
    /\ \A t \in Sides : Resting(t)' = Resting(t) \ {queue[s][p][k]}

LEMMA RestingAfterRemoval ==
    ASSUME IInv, TypeOK', NEW s \in Sides, NEW p \in Prices, NEW r, NEW k,
           Without(queue[s][p], r, k), queue' = [queue EXCEPT ![s][p] = r]
    PROVE  OneLeaves(s, p, k)
<1>1. TypeOK /\ r \in Seq(Orders)
  BY DEF IInv, Without
<1>2. QueueTo(s, p, r)
  BY <1>1, QueueUpdate
<1>3. Gone(s, p, k)
  BY <1>2, RemovedIsGone
<1>4. queue[s][p][k] \in Resting(s)
  BY <1>1, RestingMember DEF Without
<1>5. ASSUME NEW t \in Sides, NEW x \in Resting(t)'
      PROVE  x \in Resting(t) /\ x # queue[s][p][k]
  <2>1. PICK u \in Prices : \E i \in 1..Len(queue'[t][u]) : queue'[t][u][i] = x
    BY <1>5, RestingMemberNext
  <2>2. x # queue[s][p][k] /\ \E j \in 1..Len(queue[t][u]) : queue[t][u][j] = x
    BY <1>3, <2>1 DEF Gone
  <2> QED
    BY <1>1, <2>2, RestingMember
<1>6. ASSUME NEW t \in Sides, NEW x \in Resting(t), x # queue[s][p][k]
      PROVE  x \in Resting(t)'
  <2>1. PICK u \in Prices : \E i \in 1..Len(queue[t][u]) : queue[t][u][i] = x
    BY <1>1, <1>6, RestingMember
  <2>2. PICK i \in 1..Len(queue[t][u]) : queue[t][u][i] = x
    BY <2>1
  <2>3. \E j \in 1..Len(queue'[t][u]) : queue'[t][u][j] = x
    <3>1. CASE t = s /\ u = p
      <4>1. Len(queue[s][p]) \in Nat
        BY <1>1, QueueType
      <4>2. /\ k \in 1..Len(queue[s][p]) /\ Len(r) = Len(queue[s][p]) - 1
            /\ \A j \in 1..Len(r) :
                   r[j] = IF j < k THEN queue[s][p][j] ELSE queue[s][p][j + 1]
        BY DEF Without
      <4>3. i # k /\ i \in 1..Len(queue[s][p])
        BY <1>6, <2>2, <3>1
      <4>4. \E j \in 1..Len(r) : r[j] = queue[s][p][i]
        <5>1. CASE i < k
          <6>1. i \in 1..Len(r)
            BY <4>1, <4>2, <4>3, <5>1
          <6> QED
            BY <4>2, <5>1, <6>1
        <5>2. CASE i > k
          <6>1. i - 1 \in 1..Len(r) /\ ~(i - 1 < k) /\ (i - 1) + 1 = i
            BY <4>1, <4>2, <4>3, <5>2
          <6> QED
            BY <4>2, <6>1
        <5> QED
          BY <4>2, <4>3, <5>1, <5>2
      <4> QED
        BY <1>2, <2>2, <3>1, <4>4 DEF QueueTo
    <3>2. CASE ~(t = s /\ u = p)
      BY <1>2, <2>2, <3>2 DEF QueueTo
    <3> QED
      BY <3>1, <3>2
  <2> QED
    BY <2>3, RestingMemberNext
<1>7. ASSUME NEW t \in Sides PROVE Resting(t)' = Resting(t) \ {queue[s][p][k]}
  BY <1>5, <1>6
<1> QED
  BY <1>4, <1>7 DEF OneLeaves

(* An order on the book that is not the taker's is not killable.           *)
LEMMA RestingNotKillable ==
    ASSUME IInv, KillInv, NEW s \in Sides, NEW r \in Resting(s)
    PROVE  ~Killable(r) /\ r \in Orders
<1>1. r \in Orders /\ r # taker /\ Order[r].side = s
  BY RestingOnBook
<1> QED
  BY <1>1 DEF KillInv, AllOrNothing

LEMMA RestingAfterCancel ==
    ASSUME IInv, TypeOK', NEW o \in Orders, RemoveFromLimits(o)
    PROVE  /\ \E s \in Sides : o \in Resting(s)
           /\ \A t \in Sides : Resting(t)' = Resting(t) \ {o}
<1>0. TypeOK
  BY DEF IInv
<1>1. PICK s \in Sides, p \in Prices : \E j \in DOMAIN queue[s][p] :
          queue[s][p][j] = o /\ Requeue(s, p, RemoveAt(queue[s][p], j))
  BY DEF RemoveFromLimits
<1>2. PICK k \in DOMAIN queue[s][p] :
          queue[s][p][k] = o /\ Requeue(s, p, RemoveAt(queue[s][p], k))
  BY <1>1
<1>3. queue[s][p] \in Seq(Orders)
  BY <1>0, QueueType
<1>4. PICK r : r = RemoveAt(queue[s][p], k)
  OBVIOUS
<1>5. Without(queue[s][p], r, k) /\ queue' = [queue EXCEPT ![s][p] = r]
  BY <1>2, <1>3, <1>4, RemoveAtWithout DEF Requeue
<1>6. OneLeaves(s, p, k)
  BY <1>0, <1>5, RestingAfterRemoval
<1> QED
  BY <1>2, <1>6 DEF OneLeaves

LEMMA KillRemoved ==
    ASSUME IInv, IInv', KillInv, NEW o \in Orders, RemoveFromLimits(o),
           offBook' \subseteq offBook \cup {o}
    PROVE  KillInv'
<1>1. TypeOK'
  BY DEF IInv
<1>2. /\ \E s \in Sides : o \in Resting(s)
      /\ \A t \in Sides : Resting(t)' = Resting(t) \ {o}
  BY <1>1, RestingAfterCancel
<1>3. ~Killable(o)
  BY <1>2, RestingNotKillable
<1>4. \A t \in Sides : Resting(t)' \subseteq Resting(t) \cup {o}
  BY <1>2
<1>5. /\ filled' = filled /\ fresh' = fresh /\ taker' = taker /\ taker = NoOrder
  BY DEF RemoveFromLimits
<1>6. NoOrder \notin Orders
  BY MatcherAssumption DEF MatcherConstants
<1> QED
  BY <1>3, <1>4, <1>5, <1>6, KillMoves

LEMMA RestingAfterSelfTrade ==
    ASSUME IInv, TypeOK', NEW o \in Orders, NEW m, NEW p,
           CancelOldest(o, m, p) \/ CancelBoth(o, m, p), NEW t \in Sides
    PROVE  Resting(t)' = Resting(t) \ {m}
<1>1. PICK s : s = Opposite(Order[o].side)
  OBVIOUS
<1>2. Meets(o, m, p)
  BY DEF CancelOldest, CancelBoth
<1>3. /\ s \in Sides /\ p \in Prices /\ m \in Orders
      /\ Without(queue[s][p], Tail(queue[s][p]), 1) /\ queue[s][p][1] = m
  BY <1>1, <1>2, MeetsFacts
<1>4. PICK r : r = Tail(queue[s][p])
  OBVIOUS
<1>5. Without(queue[s][p], r, 1) /\ queue' = [queue EXCEPT ![s][p] = r]
  BY <1>1, <1>3, <1>4 DEF CancelOldest, CancelBoth, Requeue
<1>6. OneLeaves(s, p, 1)
  BY <1>3, <1>5, RestingAfterRemoval
<1> QED
  BY <1>3, <1>6 DEF OneLeaves

LEMMA KillCancelMaker ==
    ASSUME IInv, IInv', KillInv, NEW o \in Orders, NEW m, NEW p,
           CancelOldest(o, m, p) \/ CancelBoth(o, m, p)
    PROVE  KillInv'
<1>0. TypeOK'
  BY DEF IInv
<1>1. Meets(o, m, p) /\ SelfTrade(o, m)
  BY DEF CancelOldest, CancelBoth
<1>2. ~Killable(o) /\ taker = o
  BY <1>1, MeetsConflict DEF Meets
<1>3. m \in Resting(Opposite(Order[o].side)) /\ Opposite(Order[o].side) \in Sides
  BY <1>1, HeadRests
<1>4. m \in Orders /\ ~Killable(m)
  BY <1>3, RestingNotKillable
<1>5. /\ filled' = filled /\ fresh' = fresh /\ taker' \in {taker, NoOrder} /\ offBook' = offBook
  BY DEF CancelOldest, CancelBoth, bridge
<1>6. \A t \in Sides : Resting(t)' \subseteq Resting(t) \cup {m}
  BY <1>0, RestingAfterSelfTrade
<1> QED
  BY <1>2, <1>4, <1>5, <1>6, KillMoves

LEMMA RestingAfterJoin ==
    ASSUME TypeOK, TypeOK', NEW o \in Orders, AddOrderToBook(o)
    PROVE  \A t \in Sides : Resting(t)' \subseteq Resting(t) \cup {o}
<1>4. PICK s \in Sides, p \in Prices : s = Order[o].side /\ p = Order[o].price
  BY OrderFields
<1>5. PICK r : r = Append(queue[s][p], o)
  OBVIOUS
<1>6. queue' = [queue EXCEPT ![s][p] = r]
  BY <1>4, <1>5 DEF AddOrderToBook
<1>7. queue[s][p] \in Seq(Orders) /\ Len(queue[s][p]) \in Nat
  BY QueueType
<1>8. /\ r \in Seq(Orders) /\ Len(r) = Len(queue[s][p]) + 1 /\ r[Len(queue[s][p]) + 1] = o
      /\ \A i \in 1..Len(queue[s][p]) : r[i] = queue[s][p][i]
  BY <1>5, <1>7, AppendElement
<1>9. QueueTo(s, p, r)
  BY <1>6, <1>8, QueueUpdate
<1>10. ASSUME NEW t \in Sides, NEW x \in Resting(t)' PROVE x \in Resting(t) \cup {o}
  <2>1. PICK u \in Prices : \E i \in 1..Len(queue'[t][u]) : queue'[t][u][i] = x
    BY <1>10, RestingMemberNext
  <2>2. PICK i \in 1..Len(queue'[t][u]) : queue'[t][u][i] = x
    BY <2>1
  <2>3. x = o \/ \E j \in 1..Len(queue[t][u]) : queue[t][u][j] = x
    <3>1. CASE t = s /\ u = p
      <4>1. i \in 1..Len(r) /\ r[i] = x
        BY <1>9, <2>2, <3>1 DEF QueueTo
      <4>2. i \in 1..Len(queue[s][p]) \/ i = Len(queue[s][p]) + 1
        BY <1>7, <1>8, <4>1
      <4> QED
        BY <1>8, <3>1, <4>1, <4>2
    <3>2. CASE ~(t = s /\ u = p)
      BY <1>9, <2>2, <3>2 DEF QueueTo
    <3> QED
      BY <3>1, <3>2
  <2> QED
    BY <2>3, RestingMember
<1> QED
  BY <1>10

LEMMA KillJoins ==
    ASSUME IInv, IInv', KillInv, NEW o \in Orders, Rest(o) \/ AddOrderToBookDirect(o)
    PROVE  KillInv'
<1>0. TypeOK /\ TypeOK' /\ NoOrder \notin Orders
  BY MatcherAssumption DEF MatcherConstants, IInv
<1>1. /\ filled' = filled /\ fresh' = fresh /\ taker' = NoOrder /\ offBook' \subseteq offBook
      /\ AddOrderToBook(o)
  BY DEF Rest, AddOrderToBookDirect, bridge
<1>2. ~Killable(o)
  <2> SUFFICES ASSUME Killable(o) PROVE FALSE
    OBVIOUS
  <2>1. AllOrNothing(o)
    BY DEF KillInv
  <2>2. CASE Rest(o)
    <3>1. taker = o /\ ~Matching(o) /\ Remaining(o) > 0 /\ IsLimit(o)
      BY <2>2 DEF Rest
    <3>2. Depth(o) = 0
      BY <3>1, NothingInReach
    <3>3. Remaining(o) <= Depth(o)
      BY <2>1, <3>1 DEF AllOrNothing
    <3>4. Remaining(o) \in Int
      BY RemainingType
    <3> QED
      BY <3>1, <3>2, <3>3, <3>4
  <2>3. CASE AddOrderToBookDirect(o)
    BY <1>0, <2>1, <2>3 DEF AllOrNothing, AddOrderToBookDirect
  <2> QED
    BY <2>2, <2>3
<1>3. taker \in Orders => taker = o
  BY <1>0 DEF Rest, AddOrderToBookDirect
<1>11. \A t \in Sides : Resting(t)' \subseteq Resting(t) \cup {o}
  BY <1>0, <1>1, RestingAfterJoin
<1> QED
  BY <1>1, <1>2, <1>3, <1>11, KillMoves

(* A trade takes the maker off the book when it is filled, or nothing.     *)
LEMMA RestingAfterFill ==
    ASSUME IInv, IInv', NEW o \in Orders, NEW m, NEW p, Fill(o, m, p), NEW t \in Sides
    PROVE  Resting(t)' = IF Remaining(m) = MatchQty(o, m) THEN Resting(t) \ {m} ELSE Resting(t)
<1>0. TypeOK /\ TypeOK'
  BY DEF IInv
<1>1. PICK s : s = Opposite(Order[o].side)
  OBVIOUS
<1>2. Meets(o, m, p)
  BY DEF Fill
<1>3. /\ s \in Sides /\ p \in Prices /\ m \in Orders /\ queue[s][p] \in Seq(Orders)
      /\ Without(queue[s][p], Tail(queue[s][p]), 1) /\ queue[s][p][1] = m
  BY <1>1, <1>2, MeetsFacts
<1>4. queue' = [queue EXCEPT ![s][p] = IF Remaining(m) = MatchQty(o, m)
                                       THEN Tail(queue[s][p]) ELSE queue[s][p]]
  BY <1>1 DEF Fill, Requeue
<1>5. CASE Remaining(m) = MatchQty(o, m)
  <2>1. PICK r : r = Tail(queue[s][p])
    OBVIOUS
  <2>2. Without(queue[s][p], r, 1) /\ queue' = [queue EXCEPT ![s][p] = r]
    BY <1>3, <1>4, <1>5, <2>1
  <2>3. OneLeaves(s, p, 1)
    BY <1>0, <1>3, <2>2, RestingAfterRemoval
  <2> QED
    BY <1>3, <1>5, <2>3 DEF OneLeaves
<1>6. CASE Remaining(m) # MatchQty(o, m)
  <2>1. queue' = [queue EXCEPT ![s][p] = queue[s][p]]
    BY <1>4, <1>6
  <2>2. queue \in [Sides -> [Prices -> Seq(Orders)]]
    BY <1>0 DEF TypeOK
  <2>3. queue' = queue
    BY <1>3, <2>1, <2>2
  <2> QED
    BY <1>6, <2>3 DEF Resting
<1> QED
  BY <1>5, <1>6

(* A trade takes the same from the order and from what is in its reach.    *)
LEMMA DepthAfterFill ==
    ASSUME IInv, IInv', KillInv, NEW o \in Orders, NEW m, NEW p, Fill(o, m, p), IsLimit(o)
    PROVE  /\ Depth(o)' = Depth(o) - MatchQty(o, m) /\ Depth(o) \in Int
           /\ Remaining(o)' = Remaining(o) - MatchQty(o, m)
<1>1. PICK s : s = Opposite(Order[o].side)
  OBVIOUS
<1>2. PICK qty : qty = MatchQty(o, m)
  OBVIOUS
<1>3. Meets(o, m, p)
  BY DEF Fill
<1>4. /\ m # o /\ qty \in Int /\ filled \in [Orders -> Int] /\ taker = o
      /\ \A x \in Orders : filled'[x] = IF x \in {o, m} THEN filled[x] + qty ELSE filled[x]
  BY <1>2, FillChanges
<1>5. s \in Sides /\ m \in Orders /\ m \in Reach(o) /\ m \in Resting(s)
  BY <1>1, <1>3, HeadRests
<1>6. /\ Resting(s)' = IF Remaining(m) = qty THEN Resting(s) \ {m} ELSE Resting(s)
  BY <1>2, <1>5, RestingAfterFill
<1>7. Remaining(m)' = Remaining(m) - qty /\ Remaining(o)' = Remaining(o) - qty
  BY <1>4, <1>5, OrderFields DEF Remaining
<1>8. \A x \in Reach(o) : x \in Orders /\ x # o /\ Remaining(x) \in Int
  <2> TAKE x \in Reach(o)
  <2>1. x \in Resting(s)
    BY <1>1 DEF Reach
  <2>2. x \in Orders /\ x # o
    BY <1>4, <1>5, <2>1, RestingOnBook
  <2> QED
    BY <2>2, RemainingType
<1>9. \A x \in Reach(o) \ {m} : Remaining(x)' = Remaining(x)
  BY <1>4, <1>8 DEF Remaining
<1>10. Reach(o)' = IF Remaining(m) = qty THEN Reach(o) \ {m} ELSE Reach(o)
  BY <1>1, <1>6 DEF Reach, Within
<1>11. IsFiniteSet(Reach(o))
  <2>1. Reach(o) \subseteq Resting(s)
    BY <1>1 DEF Reach
  <2> QED
    BY <1>5, <2>1, FS_Subset DEF KillInv
<1>12. IsFiniteSet(Reach(o) \ {m})
  BY <1>11, FS_Subset
<1> DEFINE S == Reach(o)
           f == [x \in S |-> Remaining(x)]
           g == [x \in Reach(o)' |-> Remaining(x)']
<1>13. Depth(o) = SumFunctionOnSet(f, S) /\ Depth(o)' = SumFunctionOnSet(g, Reach(o)')
  BY DEF Depth, SumFunction
<1>14. \A x \in S : f[x] \in Int
  BY <1>8
<1>15. f[m] = Remaining(m)
  BY <1>5
<1>16. \A x \in S \ {m} : f[x] = g[x]
  BY <1>9, <1>10
<1>17. Remaining(m) \in Int
  BY <1>5, RemainingType
<1>18. CASE Remaining(m) = qty
  <2> HIDE DEF f, g, S
  <2>1. SumFunctionOnSet(f, S) = f[m] + SumFunctionOnSet(f, S \ {m})
    BY <1>5, <1>11, <1>14, SumAt DEF S
  <2>2. SumFunctionOnSet(f, S \ {m}) = SumFunctionOnSet(g, S \ {m})
    BY <1>12, <1>16, SumSame DEF S
  <2>3. SumFunctionOnSet(f, S \ {m}) \in Int
    BY <1>12, <1>14, SumType DEF S
  <2>4. Depth(o)' = SumFunctionOnSet(g, S \ {m})
    BY <1>10, <1>13, <1>18 DEF S
  <2>5. PICK k \in Int : k = SumFunctionOnSet(f, S \ {m})
    BY <2>3
  <2>6. Depth(o) = qty + k /\ Depth(o)' = k
    BY <1>13, <1>15, <1>18, <2>1, <2>2, <2>4, <2>5
  <2> QED
    BY <1>2, <1>4, <1>7, <2>6
<1>19. CASE Remaining(m) # qty
  <2>1. Reach(o)' = S
    BY <1>10, <1>19
  <2>2. \A x \in S : g[x] \in Int
    <3>1. g[m] = Remaining(m) - qty
      BY <1>5, <1>7, <2>1
    <3> QED
      BY <1>4, <1>14, <1>16, <1>17, <3>1
  <2>3. g[m] = Remaining(m) - qty
    BY <1>5, <1>7, <2>1
  <2> HIDE DEF f, g, S
  <2>4. SumFunctionOnSet(g, S) = SumFunctionOnSet(f, S) - f[m] + g[m]
    BY <1>5, <1>11, <1>14, <1>16, <2>2, SumChange DEF S
  <2>5. SumFunctionOnSet(f, S) \in Int
    BY <1>11, <1>14, SumType DEF S
  <2>6. PICK k \in Int : k = SumFunctionOnSet(f, S)
    BY <2>5
  <2>7. Depth(o) = k /\ Depth(o)' = k - Remaining(m) + (Remaining(m) - qty)
    BY <1>13, <1>15, <2>1, <2>3, <2>4, <2>6
  <2> QED
    BY <1>2, <1>4, <1>7, <1>17, <2>7
<1> QED
  BY <1>18, <1>19

LEMMA KillFill ==
    ASSUME IInv, IInv', KillInv, NEW o \in Orders, NEW m, NEW p, Fill(o, m, p)
    PROVE  KillInv'
<1>1. /\ taker = o /\ m \in Orders /\ m # o /\ MatchQty(o, m) \in Int
      /\ \A x \in Orders : x \notin {o, m} => filled'[x] = filled[x]
  <2>1. /\ taker = o /\ m \in Orders /\ m # o /\ MatchQty(o, m) \in Int
        /\ \A x \in Orders : filled'[x] = IF x \in {o, m} THEN filled[x] + MatchQty(o, m)
                                            ELSE filled[x]
    BY FillChanges, ZenonT(30)
  <2> QED
    BY <2>1, Zenon
<1>2. taker' = taker /\ fresh' = fresh /\ offBook' = offBook
  BY DEF Fill, bridge
<1>3. \A t \in Sides : Resting(t)' \subseteq Resting(t)
  BY RestingAfterFill
<1>4. ~Killable(m)
  <2>1. m \in Resting(Opposite(Order[o].side)) /\ Opposite(Order[o].side) \in Sides
    BY HeadRests DEF Fill
  <2> QED
    BY <2>1, RestingNotKillable
<1>5. ASSUME NEW x \in Orders PROVE AllOrNothing(x)'
  <2> SUFFICES ASSUME Killable(x)' PROVE AllOrNothing(x)'
    BY DEF AllOrNothing
  <2>1. Killable(x) /\ AllOrNothing(x) /\ x # m
    BY <1>2, <1>4, KillableBefore DEF KillInv
  <2>2. CASE x = o
    <3>1. Remaining(o) <= Depth(o) /\ IsLimit(o)
      BY <1>1, <2>1, <2>2 DEF AllOrNothing, Killable
    <3>2. /\ Depth(o)' = Depth(o) - MatchQty(o, m) /\ Depth(o) \in Int
          /\ Remaining(o)' = Remaining(o) - MatchQty(o, m)
      BY <3>1, DepthAfterFill
    <3>3. Remaining(o) \in Int
      BY RemainingType
    <3>4. Remaining(o)' <= Depth(o)'
      BY <1>1, <3>1, <3>2, <3>3
    <3> QED
      BY <1>1, <1>2, <2>2, <3>4 DEF AllOrNothing
  <2>3. CASE x # o
    <3>1. filled[x] \in {0, Order[x].qty} /\ x \notin Resting(Order[x].side) \cup offBook
      BY <1>1, <2>1, <2>3 DEF AllOrNothing
    <3>2. Order[x].side \in Sides
      BY OrderFields
    <3>3. filled'[x] = filled[x]
      BY <1>1, <2>1, <2>3
    <3>4. x \notin Resting(Order[x].side)'
      BY <1>3, <3>1, <3>2
    <3> QED
      BY <1>1, <1>2, <2>3, <3>1, <3>3, <3>4 DEF AllOrNothing
  <2> QED
    BY <2>2, <2>3
<1>6. ASSUME NEW t \in Sides PROVE IsFiniteSet(Resting(t)')
  BY <1>3, FS_Subset DEF KillInv
<1> QED
  BY <1>5, <1>6 DEF KillInv

LEMMA KillStep ==
    ASSUME IInv, IInv', KillInv, [Next]_vars
    PROVE  KillInv'
<1>0. fresh' \subseteq fresh
  BY FreshShrinks
<1>1. CASE UNCHANGED vars
  <2>1. UNCHANGED <<queue, filled, offBook>> /\ taker' = taker
    BY <1>1 DEF vars
  <2> QED
    BY <1>0, <2>1, KillQuiet
<1>2. ASSUME NEW o \in Orders, Reject(o) \/ AddStopOrder(o) \/ CancelStopOrder(o)
      PROVE  KillInv'
  <2>1. UNCHANGED <<queue, filled, offBook>> /\ taker' = taker
    BY <1>2 DEF Reject, AddStopOrder, CancelStopOrder, bridge
  <2> QED
    BY <1>0, <2>1, KillQuiet
<1>3. ASSUME NEW o \in Orders, Enter(o) PROVE KillInv'
  <2>1. UNCHANGED <<queue, filled, offBook>> /\ taker' = o /\ taker = NoOrder /\ ~IsFOK(o)
    BY <1>3 DEF Enter, bridge, Calls
  <2> QED
    BY <1>0, <2>1, KillQuiet
<1>4. ASSUME NEW mode \in STPModes, SetSTPMode(mode) PROVE KillInv'
  <2>1. UNCHANGED <<queue, filled, offBook>> /\ taker' = taker
    BY <1>4 DEF SetSTPMode, bridge
  <2> QED
    BY <1>0, <2>1, KillQuiet
<1>5. ASSUME NEW o \in Orders, MatchStep(o) PROVE KillInv'
  <2>1. CASE DropEmptyLevel(o)
    <3>1. UNCHANGED <<queue, filled, offBook>> /\ taker' = taker
      BY <2>1 DEF DropEmptyLevel, bridge
    <3> QED
      BY <1>0, <3>1, KillQuiet
  <2>2. ASSUME NEW m, NEW p, CancelNewest(o, m, p) PROVE KillInv'
    <3>1. /\ UNCHANGED <<queue, filled, offBook>> /\ taker' = NoOrder /\ taker = o
          /\ Meets(o, m, p) /\ SelfTrade(o, m)
      BY <2>2 DEF CancelNewest, bridge, Meets
    <3>2. ~Killable(taker)
      BY <3>1, MeetsConflict
    <3> QED
      BY <1>0, <3>1, <3>2, KillQuiet
  <2>3. ASSUME NEW m, NEW p, CancelOldest(o, m, p) \/ CancelBoth(o, m, p) PROVE KillInv'
    BY <2>3, KillCancelMaker
  <2>4. ASSUME NEW m, NEW p, Fill(o, m, p) PROVE KillInv'
    BY <2>4, KillFill
  <2>5. CASE CancelRemainder(o) \/ Return(o)
    <3>1. UNCHANGED <<queue, filled, offBook>> /\ taker' = NoOrder /\ taker = o
      BY <2>5 DEF CancelRemainder, Return, bridge
    <3>2. Killable(o) => Remaining(o) = 0
      BY <2>5 DEF CancelRemainder, Return, Killable
    <3>3. filled[o] \in Int /\ Order[o].qty \in Int
      <4>1. filled \in [Orders -> Int]
        BY DEF IInv, TypeOK
      <4> QED
        BY <4>1, OrderFields
    <3>4. Killable(taker) => filled[taker] = Order[taker].qty
      BY <3>1, <3>2, <3>3 DEF Remaining
    <3> QED
      BY <1>0, <3>1, <3>4, KillQuiet
  <2>6. CASE Rest(o)
    BY <2>6, KillJoins
  <2> QED
    BY <1>5, <2>1, <2>2, <2>3, <2>4, <2>5, <2>6 DEF MatchStep
<1>6. ASSUME NEW o \in Orders, CancelOrder(o) \/ OfferToBridge(o) PROVE KillInv'
  <2>1. RemoveFromLimits(o) /\ offBook' \subseteq offBook \cup {o}
    BY <1>6 DEF CancelOrder, OfferToBridge, bridge
  <2> QED
    BY <2>1, KillRemoved
<1>7. ASSUME NEW o \in Orders, AddOrderToBookDirect(o) PROVE KillInv'
  BY <1>7, KillJoins
<1> QED
  BY <1>1, <1>2, <1>3, <1>4, <1>5, <1>6, <1>7 DEF Next

(* An order with the Fill Or Kill modifier trades its whole quantity or    *)
(* nothing and never rests, unless its user has had orders on both sides:  *)
(* the depth isFOK counts at the entry still covers the order at every     *)
(* turn of the loop of MatchOrder.                                         *)
THEOREM FillOrKillHolds == Spec => []FillOrKill
<1>1. Init => KillInv
  <2> SUFFICES ASSUME Init PROVE KillInv
    OBVIOUS
  <2>1. ASSUME NEW s \in Sides PROVE Resting(s) = {}
    <3>1. \A p \in Prices : queue[s][p] = <<>>
      BY DEF Init
    <3>2. Range(<<>>) = {}
      BY DEF Range
    <3> QED
      BY <3>1, <3>2 DEF Resting
  <2>2. ASSUME NEW o \in Orders PROVE AllOrNothing(o)
    BY <2>1, OrderFields, MatcherAssumption DEF MatcherConstants, Init, AllOrNothing
  <2> QED
    BY <2>1, <2>2, FS_EmptySet DEF KillInv
<1>2. IInv /\ IInv' /\ KillInv /\ [Next]_vars => KillInv'
  BY KillStep
<1>3. KillInv => FillOrKill
  BY DEF KillInv, AllOrNothing, Killable, Conflict, FillOrKill
<1> QED
  BY <1>1, <1>2, <1>3, MatcherInductive, PTL DEF Spec

-------------------------------------------------------------------------------
(* Orders that have left the market *)

OnSides == Resting("BUY") \cup Resting("SELL")

(* The order is in none of the places it could be matched from.            *)
Out(o) == o \notin OnSides \cup stops \cup triggered \cup fresh \cup offBook \cup {taker}

(* The places an order comes from.                                         *)
Moves ==
    /\ OnSides' \subseteq OnSides \cup offBook \cup {taker}
    /\ stops' \subseteq stops \cup fresh
    /\ triggered' \subseteq triggered \cup stops
    /\ fresh' \subseteq fresh
    /\ offBook' \subseteq offBook \cup OnSides
    /\ taker' \in {taker, NoOrder} \cup fresh \cup triggered

LEMMA SidesOf ==
    /\ \A o : o \in OnSides <=> \E s \in Sides : o \in Resting(s)
    /\ \A o : o \in OnSides' <=> \E s \in Sides : o \in Resting(s)'
BY DEF OnSides, Sides

LEMMA StepMoves ==
    ASSUME IInv, TypeOK', [Next]_vars
    PROVE  Moves
<1>0. TypeOK /\ fresh' \subseteq fresh
  BY FreshShrinks DEF IInv
<1>1. CASE UNCHANGED vars
  BY <1>1 DEF vars, Moves, OnSides, Resting
<1>2. ASSUME NEW o \in Orders, Reject(o) \/ Enter(o) \/ AddStopOrder(o) \/ CancelStopOrder(o)
      PROVE  Moves
  <2>1. queue' = queue /\ offBook' = offBook
    BY <1>2 DEF Reject, Enter, AddStopOrder, CancelStopOrder, bridge
  <2>2. OnSides' = OnSides
    BY <2>1 DEF OnSides, Resting
  <2>3. /\ taker' \in {taker, NoOrder} \cup fresh \cup triggered
        /\ stops' \subseteq stops \cup fresh /\ triggered' \subseteq triggered
    BY <1>2 DEF Reject, Enter, AddStopOrder, CancelStopOrder, Calls
  <2> QED
    BY <1>0, <2>1, <2>2, <2>3 DEF Moves
<1>3. ASSUME NEW mode \in STPModes, SetSTPMode(mode) PROVE Moves
  BY <1>3 DEF SetSTPMode, bridge, Moves, OnSides, Resting
<1>4. ASSUME NEW o \in Orders, \/ DropEmptyLevel(o) \/ CancelRemainder(o) \/ Return(o)
                               \/ \E m, p : CancelNewest(o, m, p)
      PROVE  Moves
  BY <1>4 DEF DropEmptyLevel, CancelRemainder, Return, CancelNewest, bridge, Moves, OnSides,
              Resting
<1>5. ASSUME NEW o \in Orders, NEW m, NEW p, CancelOldest(o, m, p) \/ CancelBoth(o, m, p)
      PROVE  Moves
  <2>1. \A s \in Sides : Resting(s)' \subseteq Resting(s)
    BY <1>5, RestingAfterSelfTrade
  <2>2. OnSides' \subseteq OnSides
    BY <2>1, SidesOf
  <2>3. UNCHANGED <<stops, triggered, fresh, offBook>> /\ taker' \in {taker, NoOrder}
    BY <1>5 DEF CancelOldest, CancelBoth, bridge
  <2> QED
    BY <2>2, <2>3 DEF Moves
<1>6. ASSUME NEW o \in Orders, NEW m, NEW p, Fill(o, m, p) PROVE Moves
  <2>1. IInv'
    BY <1>6, FillOK
  <2>2. \A s \in Sides : Resting(s)' \subseteq Resting(s)
    BY <1>6, <2>1, RestingAfterFill
  <2>3. OnSides' \subseteq OnSides
    BY <2>2, SidesOf
  <2>4. /\ stops' \subseteq stops /\ triggered' \subseteq triggered \cup stops
        /\ fresh' = fresh /\ offBook' = offBook /\ taker' = taker
    BY <1>6 DEF Fill, bridge
  <2> QED
    BY <2>3, <2>4 DEF Moves
<1>7. ASSUME NEW o \in Orders, Rest(o) \/ AddOrderToBookDirect(o) PROVE Moves
  <2>1. /\ AddOrderToBook(o) /\ UNCHANGED <<stops, triggered, fresh>>
        /\ offBook' \subseteq offBook /\ taker' \in {taker, NoOrder}
        /\ o \in offBook \cup {taker}
    BY <1>7 DEF Rest, AddOrderToBookDirect, bridge
  <2>2. \A s \in Sides : Resting(s)' \subseteq Resting(s) \cup {o}
    BY <1>0, <2>1, RestingAfterJoin
  <2>3. OnSides' \subseteq OnSides \cup {o}
    BY <2>2, SidesOf
  <2> QED
    BY <2>1, <2>3 DEF Moves
<1>8. ASSUME NEW o \in Orders, CancelOrder(o) \/ OfferToBridge(o) PROVE Moves
  <2>1. /\ RemoveFromLimits(o) /\ UNCHANGED <<stops, triggered, fresh, taker>>
        /\ offBook' \subseteq offBook \cup {o}
    BY <1>8 DEF CancelOrder, OfferToBridge, RemoveFromLimits, bridge
  <2>2. o \in OnSides /\ OnSides' \subseteq OnSides
    BY <2>1, RestingAfterCancel, SidesOf
  <2> QED
    BY <2>1, <2>2 DEF Moves
<1> QED
  BY <1>1, <1>2, <1>3, <1>4, <1>5, <1>6, <1>7, <1>8 DEF Next, MatchStep

(* An order that is out of the market never comes back.                    *)
LEMMA OutStays ==
    ASSUME IInv, TypeOK', [Next]_vars, NEW o \in Orders, Out(o)
    PROVE  Out(o)'
<1>1. Moves /\ o # NoOrder
  BY StepMoves, MatcherAssumption DEF MatcherConstants
<1> QED
  BY <1>1 DEF Moves, Out

(* CancelOrder takes the order out of the market: it is in one place only. *)
LEMMA CancelledIsOut ==
    ASSUME IInv, TypeOK', NEW o \in Orders, CancelOrder(o) \/ CancelStopOrder(o)
    PROVE  Out(o)'
<1>0. NoOrder \notin Orders
  BY MatcherAssumption DEF MatcherConstants
<1>1. CASE CancelOrder(o)
  <2>1. RemoveFromLimits(o) /\ UNCHANGED <<stops, triggered, fresh, offBook, taker>>
    BY <1>1 DEF CancelOrder, RemoveFromLimits, bridge
  <2>2. /\ \E s \in Sides : o \in Resting(s)
        /\ \A t \in Sides : Resting(t)' = Resting(t) \ {o}
    BY <2>1, RestingAfterCancel
  <2>3. OnBook(o)
    BY <2>2, RestingOnBook
  <2>4. o \notin OnSides'
    BY <2>2, SidesOf
  <2> QED
    BY <2>1, <2>3, <2>4 DEF Out, OnBook
<1>2. CASE CancelStopOrder(o)
  <2>1. /\ o \in stops /\ stops' = stops \ {o} /\ queue' = queue
        /\ UNCHANGED <<triggered, fresh, offBook, taker>>
    BY <1>2 DEF CancelStopOrder, bridge
  <2>2. AwayOK(o)
    BY DEF IInv
  <2>3. o \notin OnSides
    <3> SUFFICES ASSUME NEW s \in Sides, o \in Resting(s) PROVE FALSE
      BY SidesOf
    <3>1. OnBook(o)
      BY RestingOnBook
    <3> QED
      BY <2>1, <3>1 DEF OnBook
  <2>4. o \notin OnSides'
    BY <2>1, <2>3 DEF OnSides, Resting
  <2> QED
    BY <2>1, <2>2, <2>4 DEF Out, AwayOK
<1> QED
  BY <1>1, <1>2

(* Trades are added to the history, one at a time, with a quantity; fills  *)
(* only grow.                                                              *)
HistoryGrows ==
    /\ Len(trades) \in Nat /\ Len(trades') \in Nat /\ Len(trades) <= Len(trades')
    /\ DOMAIN trades = 1..Len(trades) /\ DOMAIN trades' = 1..Len(trades')
    /\ \A i \in 1..Len(trades) : trades'[i] = trades[i]
    /\ \A i \in 1..Len(trades') : i \in 1..Len(trades) \/ trades'[i].qty > 0
    /\ \A o \in Orders : filled[o] <= filled'[o]

LEMMA HistoryStep ==
    ASSUME IInv, IInv', [Next]_vars
    PROVE  HistoryGrows
<1>0. /\ trades \in Seq(Trade) /\ trades' \in Seq(Trade)
      /\ filled \in [Orders -> Int] /\ filled' \in [Orders -> Int]
  BY DEF IInv, TypeOK
<1>1. /\ Len(trades) \in Nat /\ Len(trades') \in Nat
      /\ DOMAIN trades = 1..Len(trades) /\ DOMAIN trades' = 1..Len(trades')
  BY <1>0, LenProperties
<1>2. CASE UNCHANGED <<filled, trades>>
  BY <1>0, <1>1, <1>2 DEF HistoryGrows
<1>3. CASE ~(UNCHANGED <<filled, trades>>)
  <2>1. PICK o \in Orders, m \in Orders, p \in Prices : Fill(o, m, p)
    BY <1>3, OnlyFillTrades
  <2>2. PICK qty : qty = MatchQty(o, m)
    OBVIOUS
  <2>3. PICK n \in Nat : n = Len(trades)
    BY <1>1
  <2>4. /\ qty \in Int /\ qty > 0
        /\ \A x \in Orders : filled'[x] = IF x \in {o, m} THEN filled[x] + qty ELSE filled[x]
        /\ DOMAIN trades' = 1..(n + 1)
        /\ \A i \in 1..n : trades'[i] = trades[i]
        /\ trades'[n + 1] = [maker |-> m, taker |-> o, price |-> p, qty |-> qty]
    BY <2>1, <2>2, <2>3, FillChanges
  <2>5. Len(trades') = n + 1
    <3>1. PICK k \in Nat : k = Len(trades')
      BY <1>1
    <3>2. 1..k = 1..(n + 1)
      BY <1>1, <2>4, <3>1
    <3>3. n + 1 \in 1..k /\ (k # 0 => k \in 1..(n + 1))
      BY <3>2
    <3> QED
      BY <3>1, <3>3
  <2>6. trades'[n + 1].qty > 0
    BY <2>4
  <2>7. ASSUME NEW x \in Orders PROVE filled[x] <= filled'[x]
    <3>1. filled[x] \in Int
      BY <1>0
    <3> QED
      BY <2>4, <3>1
  <2>8. \A i \in 1..(n + 1) : i \in 1..n \/ trades'[i].qty > 0
    BY <2>6
  <2> QED
    BY <1>1, <2>3, <2>4, <2>5, <2>7, <2>8 DEF HistoryGrows
<1> QED
  BY <1>2, <1>3
================================================================================

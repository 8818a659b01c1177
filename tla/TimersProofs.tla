---------------------------- MODULE TimersProofs ----------------------------
(***************************************************************************)
(* Proofs about MCTimers, for every value of the constants.                *)
(***************************************************************************)
EXTENDS MCTimers, NaturalRecursion, SequenceTheorems

LEMMA MinOf ==
  ASSUME NEW T \in SUBSET Nat, T # {}
  PROVE  Min(T) \in T /\ \A n \in T : Min(T) <= n
BY Least DEF Min

LEMMA MaxOfTwo ==
  ASSUME NEW a \in Int, NEW b \in Int
  PROVE  Max({a, b}) = IF a >= b THEN a ELSE b
<1>1. \E x \in {a, b} : \A y \in {a, b} : x >= y
      OBVIOUS
<1>2. Max({a, b}) \in {a, b} /\ \A y \in {a, b} : Max({a, b}) >= y
      BY <1>1 DEF Max
<1> QED BY <1>2

LEMMA ClampType ==
  ASSUME NEW low \in Int, NEW high \in Int, low <= high, NEW n \in Int
  PROVE  Clamp(low, high, n) \in low .. high
BY DEF Clamp

\* A set of numbers that has every lower one is an interval.
LEMMA Downwards ==
  ASSUME NEW n \in Nat, NEW D \in SUBSET (1 .. n), \A i \in D, j \in 1 .. n : j <= i => j \in D
  PROVE  D = 1 .. Cardinality(D) /\ Cardinality(D) \in 0 .. n
<1>1. CASE D = 1 .. n
      BY <1>1, FS_Interval
<1>2. CASE D # 1 .. n
  <2> DEFINE E == (1 .. n) \ D
  <2>1. E \in SUBSET Nat /\ E # {}
    <3>1. 1 .. n \in SUBSET Nat
          OBVIOUS
    <3>2. E # {}
          BY <1>2, Zenon
    <3> QED BY <3>1, <3>2
  <2>2. PICK m \in E : \A i \in E : m <= i
        BY <2>1, Least
  <2>3. m \in 1 .. n /\ m \notin D
        BY <2>2
  <2>4. \A i \in 1 .. n : i < m => i \in D
        BY <2>2
  <2>5. \A i \in D : i < m
        BY <2>3
  <2>6. D = 1 .. m - 1
    <3>1. ASSUME NEW i \in D PROVE i \in 1 .. m - 1
          BY <2>3, <2>5
    <3>2. ASSUME NEW i \in 1 .. m - 1 PROVE i \in D
          BY <2>3, <2>4
    <3> QED BY <3>1, <3>2
  <2>7. 1 \in Int /\ m - 1 \in Int /\ m - 1 \in 0 .. n
        BY <2>3
  <2>8. Cardinality(1 .. m - 1) = m - 1
        BY <2>3, <2>7, FS_Interval
  <2> QED BY <2>6, <2>7, <2>8
<1> QED BY <1>1, <1>2

-----------------------------------------------------------------------------
(* The queue. *)

Ordered(q) == \A i, j \in DOMAIN q : i <= j => q[i].in <= q[j].in

\* A schedule has one activation at most.
Single(q) ==
  \A i, j \in DOMAIN q :
    ~q[i].deactivate /\ ~q[j].deactivate /\ q[i].schedule = q[j].schedule => i = j

Has(q, s) == \E i \in DOMAIN q : q[i].schedule = s /\ ~q[i].deactivate

\* The schedules of an event are never in the queue.
Quiet(q) == \A s \in S : Schedules[s].type \in {"login", "logout"} => ~Has(q, s)

QueueOK(q) == q \in Seq(Notification) /\ Ordered(q) /\ Single(q) /\ Quiet(q)

LEMMA InsertedAt ==
  ASSUME NEW q \in Seq(Notification), NEW e \in Notification, NEW k \in 0 .. Len(q)
  PROVE  /\ InsertAt(q, k + 1, e) \in Seq(Notification) /\ Len(InsertAt(q, k + 1, e)) = Len(q) + 1
         /\ \A i \in 1 .. Len(q) + 1 :
              InsertAt(q, k + 1, e)[i] =
                IF i <= k THEN q[i] ELSE IF i = k + 1 THEN e ELSE q[i - 1]
<1> DEFINE a == SubSeq(q, 1, k)
           b == SubSeq(q, k + 1, Len(q))
           r == (a \o <<e>>) \o b
<1>1. InsertAt(q, k + 1, e) = r
  <2>1. (k + 1) - 1 = k
        OBVIOUS
  <2> QED BY <2>1 DEF InsertAt
<1>2. a \in Seq(Notification) /\ Len(a) = k /\ \A i \in 1 .. k : a[i] = q[i]
      BY SubSeqProperties
<1>3. b \in Seq(Notification) /\ Len(b) = Len(q) - k /\ \A i \in 1 .. Len(q) - k : b[i] = q[k + i]
  <2>1. \A i \in k + 1 .. Len(q) : q[i] \in Notification
        OBVIOUS
  <2>2. \A i \in 1 .. Len(q) - k : (k + 1) + i - 1 = k + i
        OBVIOUS
  <2> QED BY <2>1, <2>2, SubSeqProperties
<1>4. <<e>> \in Seq(Notification) /\ Len(<<e>>) = 1 /\ <<e>>[1] = e
      OBVIOUS
<1> HIDE DEF a, b
<1>5. /\ a \o <<e>> \in Seq(Notification) /\ Len(a \o <<e>>) = k + 1
      /\ \A i \in 1 .. k + 1 : (a \o <<e>>)[i] = IF i <= k THEN q[i] ELSE e
      BY <1>2, <1>4, ConcatProperties
<1>6. r \in Seq(Notification) /\ Len(r) = Len(q) + 1
      BY <1>3, <1>5, ConcatProperties
<1>7. \A i \in 1 .. Len(r) : r[i] = IF i <= k + 1 THEN (a \o <<e>>)[i] ELSE b[i - (k + 1)]
      BY <1>3, <1>5, ConcatProperties
<1>8. ASSUME NEW i \in 1 .. Len(q) + 1
      PROVE  r[i] = IF i <= k THEN q[i] ELSE IF i = k + 1 THEN e ELSE q[i - 1]
  <2>1. CASE i <= k + 1
        BY <1>5, <1>6, <1>7, <2>1
  <2>2. CASE ~(i <= k + 1)
    <3> DEFINE j == i - (k + 1)
    <3>1. j \in 1 .. Len(q) - k /\ k + j = i - 1 /\ ~(i <= k) /\ i # k + 1
          BY <2>2
    <3>2. r[i] = b[j]
          BY <1>6, <1>7, <2>2
    <3>3. b[j] = q[k + j]
          BY <1>3, <3>1
    <3> HIDE DEF j
    <3> QED BY <3>1, <3>2, <3>3
  <2> QED BY <2>1, <2>2
<1> HIDE DEF r
<1> QED BY <1>1, <1>6, <1>8

\* A notification comes after those of the same time.
LEMMA Inserted ==
  ASSUME NEW q \in Seq(Notification), Ordered(q), NEW e \in Notification
  PROVE  \E k \in 0 .. Len(q) :
           /\ Insert(q, e) \in Seq(Notification) /\ Len(Insert(q, e)) = Len(q) + 1
           /\ \A i \in 1 .. Len(q) + 1 :
                Insert(q, e)[i] = IF i <= k THEN q[i] ELSE IF i = k + 1 THEN e ELSE q[i - 1]
           /\ \A i \in 1 .. Len(q) : q[i].in <= e.in <=> i <= k
<1> DEFINE D == {i \in DOMAIN q : q[i].in <= e.in}
           k == Cardinality(D)
<1>1. e.in \in Int /\ \A i \in 1 .. Len(q) : q[i].in \in Int
  <2>1. \A i \in 1 .. Len(q) : q[i] \in Notification
        OBVIOUS
  <2> QED BY <2>1 DEF Notification
<1>2. DOMAIN q = 1 .. Len(q) /\ Len(q) \in Nat
      OBVIOUS
<1>3. \A i \in D, j \in 1 .. Len(q) : j <= i => j \in D
      BY <1>1, <1>2 DEF Ordered
<1>4. D = 1 .. k /\ k \in 0 .. Len(q)
      BY <1>2, <1>3, Downwards
<1>5. \A i \in 1 .. Len(q) : q[i].in <= e.in <=> i <= k
      BY <1>2, <1>4
<1>6. Insert(q, e) = InsertAt(q, k + 1, e)
      BY DEF Insert
<1> HIDE DEF k
<1>7. k \in 0 .. Len(q)
      BY <1>4
<1>8. /\ Insert(q, e) \in Seq(Notification) /\ Len(Insert(q, e)) = Len(q) + 1
      /\ \A i \in 1 .. Len(q) + 1 :
           Insert(q, e)[i] = IF i <= k THEN q[i] ELSE IF i = k + 1 THEN e ELSE q[i - 1]
  <2> DEFINE r == InsertAt(q, k + 1, e)
  <2>1. /\ r \in Seq(Notification) /\ Len(r) = Len(q) + 1
        /\ \A i \in 1 .. Len(q) + 1 : r[i] = IF i <= k THEN q[i] ELSE IF i = k + 1 THEN e ELSE q[i - 1]
        BY <1>7, InsertedAt
  <2>2. Insert(q, e) = r
        BY <1>6
  <2> HIDE DEF r
  <2> QED BY <2>1, <2>2
<1> QED BY <1>5, <1>7, <1>8

LEMMA Added ==
  ASSUME NEW q, QueueOK(q), NEW s \in S, NEW deactivate \in BOOLEAN, NEW in \in Int,
         ~deactivate /\ in > 0 => ~Has(q, s) /\ Schedules[s].type \notin {"login", "logout"}
  PROVE  /\ QueueOK(AddNotification(q, s, deactivate, in))
         /\ \A x : Has(AddNotification(q, s, deactivate, in), x)
                    <=> Has(q, x) \/ (x = s /\ ~deactivate /\ in > 0)
         /\ Deactivations(q) # {} \/ (deactivate /\ in > 0)
              => Deactivations(AddNotification(q, s, deactivate, in)) # {}
<1>1. CASE ~(in > 0)
      BY <1>1 DEF AddNotification
<1>2. CASE in > 0
  <2> DEFINE e == [schedule |-> s, deactivate |-> deactivate, in |-> in]
             r == Insert(q, e)
             n == Len(q)
  <2>1. e \in Notification /\ e.schedule = s /\ e.deactivate = deactivate /\ e.in = in
        BY DEF Notification
  <2>2. AddNotification(q, s, deactivate, in) = r
        BY <1>2 DEF AddNotification
  <2>3. q \in Seq(Notification) /\ Ordered(q) /\ Single(q) /\ Quiet(q)
        BY DEF QueueOK
  <2> HIDE DEF e
  <2>4. PICK k \in 0 .. n :
          /\ r \in Seq(Notification) /\ Len(r) = n + 1
          /\ \A i \in 1 .. n + 1 : r[i] = IF i <= k THEN q[i] ELSE IF i = k + 1 THEN e ELSE q[i - 1]
          /\ \A i \in 1 .. n : q[i].in <= e.in <=> i <= k
        BY <2>1, <2>3, Inserted
  <2> HIDE DEF r
  <2> DEFINE Old(i) == IF i <= k THEN i ELSE i - 1
             New(i) == IF i <= k THEN i ELSE i + 1
  <2>5. DOMAIN q = 1 .. n /\ DOMAIN r = 1 .. n + 1 /\ n \in Nat /\ k + 1 \in 1 .. n + 1
        BY <2>3, <2>4
  <2>6. r[k + 1] = e
        BY <2>4, <2>5
  <2>7. ASSUME NEW i \in 1 .. n + 1, i # k + 1
        PROVE  Old(i) \in 1 .. n /\ r[i] = q[Old(i)]
        BY <2>4, <2>5, <2>7
  <2>8. ASSUME NEW i \in 1 .. n PROVE New(i) \in 1 .. n + 1 /\ r[New(i)] = q[i] /\ New(i) # k + 1
    <3>1. CASE i <= k
          BY <2>4, <3>1
    <3>2. CASE ~(i <= k)
      <4>1. i + 1 \in 1 .. n + 1 /\ ~(i + 1 <= k) /\ i + 1 # k + 1 /\ (i + 1) - 1 = i
            BY <3>2
      <4> QED BY <2>4, <3>2, <4>1
    <3> QED BY <3>1, <3>2
  <2>9. \A i \in 1 .. n : q[i].in \in Int
    <3>1. \A i \in 1 .. n : q[i] \in Notification
          BY <2>3
    <3> QED BY <3>1 DEF Notification
  <2>10. Ordered(r)
    <3> SUFFICES ASSUME NEW i \in 1 .. n + 1, NEW j \in 1 .. n + 1, i < j
                 PROVE  r[i].in <= r[j].in
        BY <2>1, <2>5, <2>6, <2>7, <2>9 DEF Ordered
    <3>1. CASE i # k + 1 /\ j # k + 1
      <4>1. Old(i) <= Old(j)
            BY <3>1
      <4> QED BY <2>3, <2>5, <2>7, <3>1, <4>1 DEF Ordered
    <3>2. CASE i = k + 1
      <4>1. j # k + 1 /\ Old(j) \in 1 .. n /\ ~(Old(j) <= k)
            BY <2>7, <3>2
      <4>2. ~(q[Old(j)].in <= e.in) /\ r[j] = q[Old(j)]
            BY <2>4, <2>7, <4>1
      <4> QED BY <2>1, <2>6, <2>9, <3>2, <4>1, <4>2
    <3>3. CASE j = k + 1
      <4>1. i # k + 1 /\ Old(i) \in 1 .. n /\ Old(i) <= k
            BY <2>7, <3>3
      <4>2. q[Old(i)].in <= e.in /\ r[i] = q[Old(i)]
            BY <2>4, <2>7, <4>1
      <4> QED BY <2>6, <3>3, <4>2
    <3> QED BY <3>1, <3>2, <3>3
  <2>11. \A x : Has(r, x) <=> Has(q, x) \/ (x = s /\ ~deactivate /\ in > 0)
    <3>1. ASSUME NEW x, Has(r, x) PROVE Has(q, x) \/ (x = s /\ ~deactivate)
      <4>1. PICK i \in 1 .. n + 1 : r[i].schedule = x /\ ~r[i].deactivate
            BY <2>5, <3>1 DEF Has
      <4> QED BY <2>1, <2>5, <2>6, <2>7, <4>1 DEF Has
    <3>2. ASSUME NEW x, Has(q, x) PROVE Has(r, x)
      <4>1. PICK i \in 1 .. n : q[i].schedule = x /\ ~q[i].deactivate
            BY <2>5, <3>2 DEF Has
      <4> QED BY <2>5, <2>8, <4>1 DEF Has
    <3>3. ASSUME ~deactivate PROVE Has(r, s)
          BY <2>1, <2>5, <2>6, <3>3 DEF Has
    <3> QED BY <1>2, <3>1, <3>2, <3>3
  <2>12. Single(r)
    <3> SUFFICES ASSUME NEW i \in 1 .. n + 1, NEW j \in 1 .. n + 1,
                        ~r[i].deactivate, ~r[j].deactivate, r[i].schedule = r[j].schedule
                 PROVE  i = j
        BY <2>5 DEF Single
    <3>1. CASE i # k + 1 /\ j # k + 1
      <4>1. Old(i) = Old(j)
            BY <2>3, <2>5, <2>7, <3>1 DEF Single
      <4> QED BY <3>1, <4>1
    <3>2. CASE i = k + 1 /\ j # k + 1
      <4>1. ~deactivate /\ q[Old(j)].schedule = s /\ ~q[Old(j)].deactivate /\ Old(j) \in DOMAIN q
            BY <2>1, <2>5, <2>6, <2>7, <3>2
      <4>2. Has(q, s)
            BY <4>1 DEF Has
      <4> QED BY <1>2, <4>1, <4>2
    <3>3. CASE j = k + 1 /\ i # k + 1
      <4>1. ~deactivate /\ q[Old(i)].schedule = s /\ ~q[Old(i)].deactivate /\ Old(i) \in DOMAIN q
            BY <2>1, <2>5, <2>6, <2>7, <3>3
      <4>2. Has(q, s)
            BY <4>1 DEF Has
      <4> QED BY <1>2, <4>1, <4>2
    <3> QED BY <3>1, <3>2, <3>3
  <2>13. Quiet(r)
        BY <1>2, <2>3, <2>11 DEF Quiet
  <2>14. ASSUME Deactivations(q) # {} \/ deactivate PROVE Deactivations(r) # {}
    <3>1. CASE deactivate
          BY <2>1, <2>5, <2>6, <3>1 DEF Deactivations
    <3>2. CASE Deactivations(q) # {}
      <4>1. PICK i \in 1 .. n : q[i].deactivate
            BY <2>5, <3>2 DEF Deactivations
      <4>2. New(i) \in DOMAIN r /\ r[New(i)].deactivate
            BY <2>5, <2>8, <4>1
      <4> QED BY <4>2 DEF Deactivations
    <3> QED BY <2>14, <3>1, <3>2
  <2>15. QueueOK(r)
        BY <2>4, <2>10, <2>12, <2>13 DEF QueueOK
  <2> HIDE DEF Old, New
  <2> QED BY <2>2, <2>11, <2>14, <2>15
<1> QED BY <1>1, <1>2

LEMMA AddedActivation ==
  ASSUME NEW q, QueueOK(q), NEW s \in S, NEW in \in Int,
         in > 0 => ~Has(q, s) /\ Schedules[s].type \notin {"login", "logout"}
  PROVE  /\ QueueOK(AddNotification(q, s, FALSE, in))
         /\ \A x : Has(AddNotification(q, s, FALSE, in), x) <=> Has(q, x) \/ (x = s /\ in > 0)
         /\ Deactivations(q) # {} => Deactivations(AddNotification(q, s, FALSE, in)) # {}
<1>1. PICK no \in BOOLEAN : no = FALSE
      OBVIOUS
<1> DEFINE r == AddNotification(q, s, no, in)
<1>2. /\ QueueOK(r) /\ \A x : Has(r, x) <=> Has(q, x) \/ (x = s /\ in > 0)
      /\ Deactivations(q) # {} => Deactivations(r) # {}
      BY <1>1, Added
<1> HIDE DEF r
<1>3. r = AddNotification(q, s, FALSE, in)
      BY <1>1 DEF r
<1> QED BY <1>2, <1>3

LEMMA AddedDeactivation ==
  ASSUME NEW q, QueueOK(q), NEW s \in S, NEW in \in Int
  PROVE  /\ QueueOK(AddNotification(q, s, TRUE, in))
         /\ \A x : Has(AddNotification(q, s, TRUE, in), x) <=> Has(q, x)
         /\ Deactivations(q) # {} \/ in > 0 => Deactivations(AddNotification(q, s, TRUE, in)) # {}
<1>1. PICK yes \in BOOLEAN : yes /\ yes = TRUE
      OBVIOUS
<1> DEFINE r == AddNotification(q, s, yes, in)
<1>2. /\ QueueOK(r) /\ \A x : Has(r, x) <=> Has(q, x) \/ (x = s /\ ~yes /\ in > 0)
      /\ Deactivations(q) # {} \/ (yes /\ in > 0) => Deactivations(r) # {}
  <2>1. ~yes /\ in > 0 => ~Has(q, s) /\ Schedules[s].type \notin {"login", "logout"}
        BY <1>1
  <2> HIDE <1>1
  <2> QED BY <2>1, Added
<1>3. r = AddNotification(q, s, TRUE, in)
      BY <1>1
<1> HIDE DEF r
<1>4. /\ QueueOK(r) /\ \A x : Has(r, x) <=> Has(q, x)
      /\ Deactivations(q) # {} \/ in > 0 => Deactivations(r) # {}
      BY <1>1, <1>2
<1> QED BY <1>3, <1>4

-----------------------------------------------------------------------------
(* Recalculating: one activation of each schedule up to the last one. *)

LEMMA EmptyQueue == QueueOK(<<>>) /\ (\A s : ~Has(<<>>, s)) /\ Deactivations(<<>>) = {}
<1>1. <<>> \in Seq(Notification) /\ DOMAIN <<>> = {}
      OBVIOUS
<1> QED BY <1>1 DEF QueueOK, Ordered, Single, Quiet, Has, Deactivations

LEMMA SchedulesType ==
  /\ S = 1 .. Len(Schedules) /\ Len(Schedules) \in Nat
  /\ \A s \in S :
       /\ Schedules[s].type \in Types /\ Schedules[s].limit \in Int
       /\ Schedules[s].action \in {"high", "low", "toggle"}
       /\ Schedules[s].duration \in Nat /\ Schedules[s].every \in Nat \ {0}
       /\ Schedules[s].at \in 0 .. Day - 1 /\ Schedules[s].offset \in Int
<1> DEFINE R == [type : Types, action : {"high", "low", "toggle"},
                 limit : Int, duration : Nat, every : Nat \ {0},
                 at : 0 .. Day - 1, offset : Int]
<1>1. Schedules \in Seq(R)
      BY ScheduleAssumption
<1> HIDE DEF R
<1>2. S = 1 .. Len(Schedules) /\ Len(Schedules) \in Nat
      BY <1>1 DEF S
<1>3. \A s \in S : Schedules[s] \in R
      BY <1>1, <1>2
<1> USE DEF R
<1> QED BY <1>2, <1>3

\* The queue after the first schedules have been added one by one.
LEMMA OneByOne ==
  ASSUME NEW times \in [S -> Int],
         \A s \in S : Schedules[s].type \in {"login", "logout"} => times[s] <= 0,
         NEW g, g[0] = <<>>,
         \A n \in S : Has(g[n - 1], n) \/ g[n] = AddNotification(g[n - 1], n, FALSE, times[n]),
         NEW last \in 0 .. Len(Schedules)
  PROVE  QueueOK(g[last]) /\ \A s : Has(g[last], s) <=> s \in 1 .. last /\ times[s] > 0
<1> DEFINE P(m) == QueueOK(g[m]) /\ \A s : Has(g[m], s) <=> s \in 1 .. m /\ times[s] > 0
           T == {m \in Nat : m <= Len(Schedules) => P(m)}
<1>1. 0 \in T
      BY EmptyQueue
<1>2. ASSUME NEW m \in Nat, m \in T PROVE m + 1 \in T
  <2> SUFFICES ASSUME m + 1 <= Len(Schedules) PROVE P(m + 1)
      OBVIOUS
  <2>1. m + 1 \in S /\ (m + 1) - 1 = m
        BY SchedulesType
  <2>2. P(m)
        BY <1>2, SchedulesType
  <2>3. ~Has(g[m], m + 1)
        BY <2>2
  <2> DEFINE q == g[m]
             s1 == m + 1
             time == times[s1]
             r == AddNotification(q, s1, FALSE, time)
  <2>4. g[m + 1] = r
        BY <2>1, <2>3
  <2>5. time \in Int /\ (time > 0 => Schedules[s1].type \notin {"login", "logout"})
        BY <2>1
  <2>6. QueueOK(r) /\ \A s : Has(r, s) <=> Has(q, s) \/ (s = s1 /\ time > 0)
    <3>1. QueueOK(q) /\ s1 \in S /\ ~Has(q, s1)
          BY <2>1, <2>2, <2>3
    <3> HIDE DEF q, s1, time
    <3> QED BY <2>5, <3>1, AddedActivation
  <2> HIDE DEF r
  <2>7. \A s : s \in 1 .. m + 1 <=> s \in 1 .. m \/ s = m + 1
        OBVIOUS
  <2> QED BY <2>2, <2>4, <2>6, <2>7
<1> HIDE DEF T
<1>3. last \in T
      BY <1>1, <1>2, Induction
<1> QED BY <1>3 DEF T

LEMMA ScheduledOK ==
  ASSUME NEW times \in [S -> Int],
         \A s \in S : Schedules[s].type \in {"login", "logout"} => times[s] <= 0,
         NEW last \in 0 .. Len(Schedules)
  PROVE  /\ QueueOK(Scheduled(times, last))
         /\ \A s : Has(Scheduled(times, last), s) <=> s \in 1 .. last /\ times[s] > 0
<1> DEFINE N == Len(Schedules)
           V == {q \in Seq(Notification) : QueueOK(q)}
           Next1(n, q) == IF Has(q, n) THEN q ELSE AddNotification(q, n, FALSE, times[n])
           step == [x \in (1 .. N) \X V |-> Next1(x[1], x[2])]
           Def(g) == [s \in 0 .. N |->
                        IF s = 0 THEN <<>> ELSE AddNotification(g[s - 1], s, FALSE, times[s])]
           added == CHOOSE g : g = Def(g)
<1>1. <<>> \in V
      BY EmptyQueue
<1>2. N \in Nat /\ S = 1 .. N
      BY SchedulesType
<1>3. ASSUME NEW n \in 1 .. N, NEW q \in V PROVE Next1(n, q) \in V
  <2>1. times[n] \in Int /\ (times[n] > 0 => Schedules[n].type \notin {"login", "logout"})
        BY <1>2
  <2>2. CASE Has(q, n)
        BY <2>2
  <2>3. CASE ~Has(q, n)
    <3>1. QueueOK(AddNotification(q, n, FALSE, times[n]))
          BY <1>2, <2>1, <2>3, AddedActivation
    <3> QED BY <2>3, <3>1 DEF QueueOK
  <2> QED BY <2>2, <2>3
<1> HIDE DEF V, Next1
<1>4. step \in [(1 .. N) \X V -> V]
      BY <1>3
<1>5. \A n \in 1 .. N, q \in V : step[<<n, q>>] = Next1(n, q)
      OBVIOUS
<1> HIDE DEF step, N, Def
<1>6. PICK f : f \in [0 .. N -> V] /\ f[0] = <<>> /\ \A n \in 1 .. N : f[n] = step[<<n, f[n - 1]>>]
  <2>1. PICK f : Iterates(f, V, <<>>, N, step)
        BY <1>1, <1>2, <1>4, Recursion
  <2> QED BY <2>1 DEF Iterates
<1> USE DEF Def
<1>7. ASSUME NEW n \in 1 .. N PROVE f[n] = Next1(n, f[n - 1])
  <2>1. n - 1 \in 0 .. N
        BY <1>2
  <2> QED BY <1>5, <1>6, <2>1
<1>8. \A n \in S : Has(f[n - 1], n) \/ f[n] = AddNotification(f[n - 1], n, FALSE, times[n])
      BY <1>2, <1>7 DEF Next1
<1>9. \A m \in 0 .. N : \A s : Has(f[m], s) <=> s \in 1 .. m /\ times[s] > 0
      BY <1>6, <1>8, OneByOne DEF N
<1>10. ASSUME NEW n \in 1 .. N PROVE f[n] = AddNotification(f[n - 1], n, FALSE, times[n])
  <2>1. n - 1 \in 0 .. N /\ n \notin 1 .. n - 1
        BY <1>2
  <2>2. ~Has(f[n - 1], n)
        BY <1>9, <2>1
  <2> QED BY <1>7, <2>2 DEF Next1
<1>11. f = Def(f)
  <2>1. \A s \in 0 .. N : s # 0 => s \in 1 .. N
        BY <1>2
  <2> QED BY <1>6, <1>10, <2>1
<1>12. added = Def(added)
      BY <1>11
<1> HIDE DEF added
<1>13. added[0] = <<>>
  <2>1. 0 \in 0 .. N
        BY <1>2
  <2> QED BY <1>12, <2>1
<1>14. \A n \in S : added[n] = AddNotification(added[n - 1], n, FALSE, times[n])
  <2>1. \A n \in S : n \in 0 .. N /\ n # 0
        BY <1>2
  <2> QED BY <1>12, <2>1
<1>15. Scheduled(times, last) = added[last]
      BY DEF Scheduled, added, N
<1> QED BY <1>13, <1>14, <1>15, OneByOne

\* A recurring schedule has an activation, unless one whose calculation may
\* throw comes before it.
Complete(q) == \A s \in Recurring : Has(q, s) \/ \E r \in Refusing : r <= s

\* TimeToNext with the dates and the clock as parameters
Time(s, dates, time) ==
  LET schedule == Schedules[s]
      toEvent == 1 + ((schedule.at - time - 1) % Day)
  IN CASE schedule.type = "interval" -> schedule.every
       [] schedule.type = "periodic" -> toEvent
       [] schedule.type = "astronomical" -> toEvent + schedule.offset
       [] schedule.type \in {"once", "manual"} -> dates[s]
       [] OTHER -> 0

LEMMA TimeType ==
  ASSUME NEW dates \in [Dated -> Int], NEW time \in Int, NEW s \in S
  PROVE  /\ Time(s, dates, time) \in Int
         /\ Schedules[s].type \in {"login", "logout"} => Time(s, dates, time) = 0
         /\ s \in Recurring => Time(s, dates, time) > 0
<1> DEFINE toEvent == 1 + ((Schedules[s].at - time - 1) % Day)
<1>1. /\ Schedules[s].type \in Types /\ Schedules[s].every \in Nat \ {0}
      /\ Schedules[s].at \in 0 .. Day - 1 /\ Schedules[s].offset \in Int /\ Day \in Nat \ {0}
      BY SchedulesType, TimerAssumption
<1>2. toEvent \in Int /\ toEvent > 0
      BY <1>1
<1>3. Schedules[s].type \in {"once", "manual"} => dates[s] \in Int
      BY DEF Dated
<1> HIDE DEF toEvent
<1>4. Time(s, dates, time) =
        CASE Schedules[s].type = "interval" -> Schedules[s].every
          [] Schedules[s].type = "periodic" -> toEvent
          [] Schedules[s].type = "astronomical" -> toEvent + Schedules[s].offset
          [] Schedules[s].type \in {"once", "manual"} -> dates[s]
          [] OTHER -> 0
      BY DEF Time, toEvent
<1>5. Time(s, dates, time) \in Int
      BY <1>1, <1>2, <1>3, <1>4 DEF Types
<1>6. Schedules[s].type \in {"login", "logout"} => Time(s, dates, time) = 0
      BY <1>4
<1>7. s \in Recurring => Time(s, dates, time) > 0
      BY <1>1, <1>2, <1>4 DEF Recurring
<1> QED BY <1>5, <1>6, <1>7

\* Recalculated with the dates, the clock and Refused as parameters
Recalculation(dates, time, refused) ==
  Scheduled([s \in S |-> Time(s, dates, time)],
            IF refused = {} THEN Len(Schedules) ELSE Min(refused) - 1)

LEMMA RecalculationOK ==
  ASSUME NEW dates \in [Dated -> Int], NEW time \in Int, NEW refused \in SUBSET Refusing
  PROVE  QueueOK(Recalculation(dates, time, refused)) /\ Complete(Recalculation(dates, time, refused))
<1> DEFINE times == [s \in S |-> Time(s, dates, time)]
           last == IF refused = {} THEN Len(Schedules) ELSE Min(refused) - 1
           q == Scheduled(times, last)
<1>1. S = 1 .. Len(Schedules) /\ Len(Schedules) \in Nat /\ Refusing \subseteq S
      BY SchedulesType, TimerAssumption
<1>2. refused # {} => Min(refused) \in refused /\ Min(refused) \in 1 .. Len(Schedules)
  <2>1. refused \in SUBSET Nat
        BY <1>1
  <2> QED BY <1>1, <2>1, MinOf
<1>3. last \in 0 .. Len(Schedules)
      BY <1>1, <1>2
<1>4. /\ times \in [S -> Int]
      /\ \A s \in S : /\ Schedules[s].type \in {"login", "logout"} => times[s] <= 0
                      /\ s \in Recurring => times[s] > 0
      BY TimeType
<1> HIDE DEF times
<1>5. QueueOK(q) /\ \A s : Has(q, s) <=> s \in 1 .. last /\ times[s] > 0
  <2> HIDE DEF last
  <2> QED BY <1>3, <1>4, ScheduledOK
<1> HIDE DEF q
<1>6. ASSUME NEW s \in Recurring PROVE Has(q, s) \/ \E r \in Refusing : r <= s
  <2>1. s \in S /\ times[s] > 0
        BY <1>4 DEF Recurring
  <2>2. CASE s <= last
        BY <1>1, <1>3, <1>5, <2>1, <2>2
  <2>3. CASE ~(s <= last)
    <3>1. refused # {} /\ Min(refused) <= s
          BY <1>1, <1>2, <2>1, <2>3
    <3> QED BY <1>2, <3>1
  <2> QED BY <2>2, <2>3
<1>7. Recalculation(dates, time, refused) = q
      BY DEF Recalculation, q, times
<1> QED BY <1>5, <1>6, <1>7 DEF Complete

-----------------------------------------------------------------------------
(* Taking a notification from the queue. *)

LEMMA Taken ==
  ASSUME NEW q, QueueOK(q), q # <<>>
  PROVE  /\ QueueOK(Tail(q)) /\ Head(q) \in Notification
         /\ ~Head(q).deactivate => ~Has(Tail(q), Head(q).schedule)
         /\ \A x : Has(q, x) => Has(Tail(q), x) \/ (x = Head(q).schedule /\ ~Head(q).deactivate)
         /\ Deactivations(q) # {} => Head(q).deactivate \/ Deactivations(Tail(q)) # {}
<1> DEFINE n == Len(q)
           r == Tail(q)
<1>1. q \in Seq(Notification) /\ Ordered(q) /\ Single(q) /\ Quiet(q)
      BY DEF QueueOK
<1>2. /\ DOMAIN q = 1 .. n /\ n \in Nat \ {0} /\ Head(q) = q[1] /\ q[1] \in Notification
      /\ r \in Seq(Notification) /\ DOMAIN r = 1 .. n - 1
      /\ \A i \in 1 .. n - 1 : r[i] = q[i + 1]
      BY <1>1, HeadTailProperties
<1> HIDE DEF r
<1>3. \A i \in 1 .. n - 1 : i + 1 \in 1 .. n /\ i + 1 # 1
      BY <1>2
<1>4. \A i \in 1 .. n : i # 1 => i - 1 \in 1 .. n - 1 /\ (i - 1) + 1 = i
      BY <1>2
<1>5. \A i \in 1 .. n : i = 1 \/ (i - 1 \in DOMAIN r /\ r[i - 1] = q[i])
      BY <1>2, <1>4
<1>6. Ordered(r)
  <2> SUFFICES ASSUME NEW i \in 1 .. n - 1, NEW j \in 1 .. n - 1, i <= j
               PROVE  r[i].in <= r[j].in
      BY <1>2 DEF Ordered
  <2>1. i + 1 \in 1 .. n /\ j + 1 \in 1 .. n /\ i + 1 <= j + 1
        BY <1>3
  <2> QED BY <1>1, <1>2, <2>1 DEF Ordered
<1>7. Single(r)
  <2> SUFFICES ASSUME NEW i \in 1 .. n - 1, NEW j \in 1 .. n - 1,
                      ~r[i].deactivate, ~r[j].deactivate, r[i].schedule = r[j].schedule
               PROVE  i = j
      BY <1>2 DEF Single
  <2>1. i + 1 = j + 1
        BY <1>1, <1>2, <1>3 DEF Single
  <2> QED BY <2>1
<1>8. ASSUME NEW x, Has(r, x) PROVE Has(q, x)
  <2>1. PICK i \in 1 .. n - 1 : r[i].schedule = x /\ ~r[i].deactivate
        BY <1>2, <1>8 DEF Has
  <2> QED BY <1>2, <1>3, <2>1 DEF Has
<1>9. QueueOK(r)
      BY <1>1, <1>2, <1>6, <1>7, <1>8 DEF QueueOK, Quiet
<1>10. ASSUME ~q[1].deactivate, Has(r, q[1].schedule) PROVE FALSE
  <2>1. PICK i \in 1 .. n - 1 : r[i].schedule = q[1].schedule /\ ~r[i].deactivate
        BY <1>2, <1>10 DEF Has
  <2>2. 1 \in 1 .. n /\ i + 1 \in 1 .. n /\ i + 1 # 1
        BY <1>2, <1>3
  <2> QED BY <1>1, <1>2, <1>10, <2>1, <2>2 DEF Single
<1>11. ASSUME NEW x, Has(q, x) PROVE Has(r, x) \/ (x = q[1].schedule /\ ~q[1].deactivate)
  <2>1. PICK i \in 1 .. n : q[i].schedule = x /\ ~q[i].deactivate
        BY <1>2, <1>11 DEF Has
  <2> QED BY <1>5, <2>1 DEF Has
<1>12. ASSUME Deactivations(q) # {}, ~q[1].deactivate PROVE Deactivations(r) # {}
  <2>1. PICK i \in 1 .. n : q[i].deactivate
        BY <1>2, <1>12 DEF Deactivations
  <2>2. i - 1 \in DOMAIN r /\ r[i - 1].deactivate
        BY <1>5, <1>12, <2>1
  <2> QED BY <2>2 DEF Deactivations
<1> QED BY <1>2, <1>9, <1>10, <1>11, <1>12 DEF r

-----------------------------------------------------------------------------
(* Processing a notification. *)

\* Every schedule sets its outputs to High and deactivates them again.
HighForAWhile == \A s \in S : Schedules[s].action = "high" /\ Schedules[s].duration > 0

IsHigh == \E o \in DOMAIN outputs : outputs[o] = 1

OutputsType == [1 .. Outputs -> {0, 1}]

\* what becomes of the calculated time and of the settings
LEMMA Settings ==
  ASSUME TypeOK
  PROVE  /\ date \in [Dated -> Int] /\ clock \in Int /\ Refused \in SUBSET Refusing
         /\ \A s : TimeToNext(s) = Time(s, date, clock)
         /\ Recalculated = Recalculation(date, clock, Refused)
<1>1. date \in [Dated -> Int]
  <2>1. MinAhead .. MaxAhead \subseteq Int
        OBVIOUS
  <2>2. date \in [Dated -> MinAhead .. MaxAhead]
        BY DEF TypeOK
  <2> QED BY <2>1, <2>2
<1>2. clock \in Int /\ Refused \in SUBSET Refusing
      BY DEF TypeOK, Refused
<1>3. \A s : TimeToNext(s) = Time(s, date, clock)
      BY DEF TimeToNext, Time
<1>4. [s \in S |-> TimeToNext(s)] = [s \in S |-> Time(s, date, clock)]
      BY <1>3
<1>5. Recalculated = Recalculation(date, clock, Refused)
      BY <1>4 DEF Recalculated, Recalculation
<1> QED BY <1>1, <1>2, <1>3, <1>5

LEMMA RecalculatedOK == TypeOK => QueueOK(Recalculated) /\ Complete(Recalculated)
BY Settings, RecalculationOK

LEMMA SetOutputsType ==
  ASSUME TypeOK, NEW value \in {Toggle, 0, 1}, SetOutputs(value)
  PROVE  /\ outputs' \in OutputsType
         /\ value = 0 => ~IsHigh'
<1>1. outputs \in [1 .. Outputs -> {0, 1}] /\ 1 \in 1 .. Outputs
      BY TimerAssumption DEF TypeOK
<1> DEFINE line1 == IF value = Toggle THEN 1 - outputs[1] ELSE value
<1>2. outputs' = [o \in 1 .. Outputs |-> line1]
      BY DEF SetOutputs
<1>3. line1 \in {0, 1} /\ (value = 0 => line1 = 0)
      BY <1>1 DEF Toggle
<1> HIDE DEF line1
<1> QED BY <1>2, <1>3 DEF OutputsType, IsHigh

LEMMA OutputLineType ==
  ASSUME NEW entry, entry.schedule \in S, entry.deactivate \in BOOLEAN
  PROVE  /\ OutputLine(entry) \in {Toggle, 0, 1}
         /\ HighForAWhile /\ entry.deactivate => OutputLine(entry) = 0
<1>1. OutputLine(entry) \in {Toggle, 0, 1}
      BY DEF OutputLine
<1>2. ASSUME HighForAWhile, entry.deactivate PROVE OutputLine(entry) = 0
      BY <1>2 DEF OutputLine, HighForAWhile
<1> QED BY <1>1, <1>2

LEMMA ProcessOK ==
  ASSUME TypeOK, NEW q, QueueOK(q),
         NEW entry, entry.schedule \in S, entry.deactivate \in BOOLEAN,
         ~entry.deactivate => ~Has(q, entry.schedule),
         \A x \in Recurring :
           Has(q, x) \/ (x = entry.schedule /\ ~entry.deactivate) \/ \E r \in Refusing : r <= x,
         Process(q, entry)
  PROVE  /\ QueueOK(queue') /\ Complete(queue')
         /\ occurrences' \in [S -> Nat] /\ outputs' \in OutputsType /\ forgotten' \in BOOLEAN
         /\ HighForAWhile
              => \/ ~IsHigh' \/ Deactivations(queue') # {}
                 \/ queue' = q /\ ~entry.deactivate /\ entry.schedule \in Refused
                      /\ UNCHANGED <<outputs, forgotten>>
<1> DEFINE s == entry.schedule
           count == occurrences[s] + 1
           again == ~entry.deactivate /\ Repeats(s, count)
           refused == again /\ s \in Refused
           time == TimeToNext(s)
           q1 == IF again THEN AddNotification(q, s, FALSE, time) ELSE q
           q2 == IF entry.deactivate THEN q1
                 ELSE AddNotification(q1, s, TRUE, Schedules[s].duration)
<1>1. /\ occurrences' = [occurrences EXCEPT ![s] = Clamp(0, Max({Schedules[s].limit, 0}), count)]
      /\ queue' = IF refused THEN q ELSE q2
      /\ IF refused THEN UNCHANGED <<outputs, forgotten>>
         ELSE SetOutputs(OutputLine(entry)) /\ forgotten' = FALSE
      BY DEF Process
<1>2. /\ Schedules[s].limit \in Int /\ Schedules[s].duration \in Nat
      /\ Schedules[s].type \in Types
      BY SchedulesType
<1>3. /\ time \in Int
      /\ Schedules[s].type \in {"login", "logout"} => time = 0
      /\ s \in Recurring => time > 0
      BY Settings, TimeType
<1>4. s \in Recurring => Repeats(s, count)
      BY DEF Recurring, Repeats
<1>5. occurrences' \in [S -> Nat]
  <2>1. occurrences \in [S -> Nat] /\ count \in Int
        BY DEF TypeOK
  <2>2. Max({Schedules[s].limit, 0}) \in Nat
        BY <1>2, MaxOfTwo
  <2>3. Clamp(0, Max({Schedules[s].limit, 0}), count) \in Nat
    <3> DEFINE high == Max({Schedules[s].limit, 0})
    <3>1. high \in Nat /\ high \in Int /\ 0 <= high
          BY <2>2
    <3> HIDE DEF high, count
    <3>2. Clamp(0, high, count) \in 0 .. high
          BY <2>1, <3>1 DEF Clamp
    <3>3. Clamp(0, high, count) \in Nat
          BY <3>1, <3>2
    <3> QED BY <3>3 DEF high
  <2> HIDE DEF count
  <2> QED BY <1>1, <2>1, <2>3
<1> HIDE DEF count
<1>6. /\ QueueOK(q1)
      /\ \A x : Has(q1, x) <=> Has(q, x) \/ (again /\ x = s /\ time > 0)
  <2>1. CASE again
    <3> HIDE DEF time
    <3>1. time > 0 => ~Has(q, s) /\ Schedules[s].type \notin {"login", "logout"}
          BY <1>3, <2>1
    <3>2. q1 = AddNotification(q, s, FALSE, time)
          BY <2>1
    <3> HIDE DEF q1, s
    <3>3. /\ QueueOK(AddNotification(q, s, FALSE, time))
          /\ \A x : Has(AddNotification(q, s, FALSE, time), x) <=> Has(q, x) \/ (x = s /\ time > 0)
          BY <1>3, <3>1, AddedActivation DEF s
    <3> QED BY <2>1, <3>2, <3>3
  <2>2. CASE ~again
        BY <2>2
  <2> QED BY <2>1, <2>2
<1> HIDE DEF q1, time, again
<1>7. /\ QueueOK(q2) /\ \A x : Has(q2, x) <=> Has(q1, x)
      /\ ~entry.deactivate /\ Schedules[s].duration > 0 => Deactivations(q2) # {}
  <2>1. CASE entry.deactivate
        BY <1>6, <2>1
  <2>2. CASE ~entry.deactivate
    <3> DEFINE duration == Schedules[s].duration
               added == AddNotification(q1, s, TRUE, duration)
    <3>1. q2 = added /\ duration \in Int /\ s \in S /\ QueueOK(q1)
          BY <1>2, <1>6, <2>2
    <3> HIDE DEF q2, duration, s
    <3>2. /\ QueueOK(added) /\ \A x : Has(added, x) <=> Has(q1, x)
          /\ Deactivations(q1) # {} \/ duration > 0 => Deactivations(added) # {}
          BY <3>1, AddedDeactivation
    <3> HIDE DEF added
    <3>3. duration > 0 => Deactivations(q2) # {}
          BY <3>1, <3>2
    <3> QED BY <3>1, <3>2, <3>3 DEF duration
  <2> QED BY <2>1, <2>2
<1> HIDE DEF q2
<1>8. QueueOK(queue') /\ Complete(queue')
  <2>1. CASE refused
    <3>1. ASSUME NEW x \in Recurring PROVE Has(q, x) \/ \E r \in Refusing : r <= x
      <4>1. CASE x = s
        <5>1. s \in Refusing /\ s \in Int
              BY <2>1, Settings, SchedulesType
        <5> QED BY <4>1, <5>1
      <4> QED BY <4>1
    <3> QED BY <1>1, <2>1, <3>1 DEF Complete
  <2>2. CASE ~refused
    <3>1. ASSUME NEW x \in Recurring PROVE Has(q2, x) \/ \E r \in Refusing : r <= x
          BY <1>3, <1>4, <1>6, <1>7 DEF again
    <3> QED BY <1>1, <1>7, <2>2, <3>1 DEF Complete
  <2> QED BY <2>1, <2>2
<1>9. outputs' \in OutputsType /\ forgotten' \in BOOLEAN
  <2>1. CASE refused
        BY <1>1, <2>1 DEF TypeOK, OutputsType
  <2>2. CASE ~refused
        BY <1>1, <2>2, OutputLineType, SetOutputsType
  <2> QED BY <2>1, <2>2
<1>10. ASSUME HighForAWhile
       PROVE  \/ ~IsHigh' \/ Deactivations(queue') # {}
              \/ queue' = q /\ ~entry.deactivate /\ s \in Refused /\ UNCHANGED <<outputs, forgotten>>
  <2>1. CASE refused
        BY <1>1, <2>1 DEF again
  <2>2. CASE ~refused /\ entry.deactivate
        BY <1>1, <1>10, <2>2, OutputLineType, SetOutputsType
  <2>3. CASE ~refused /\ ~entry.deactivate
        BY <1>1, <1>7, <1>10, <2>3 DEF HighForAWhile
  <2> QED BY <2>1, <2>2, <2>3
<1> QED BY <1>5, <1>8, <1>9, <1>10

-----------------------------------------------------------------------------
(* The passage of time. *)

LEMMA Constants ==
  /\ MinAhead \in Int /\ MinAhead <= -1 /\ MaxAhead \in Nat /\ MaxJumps \in Nat
  /\ Tolerance \in Nat /\ Day \in Nat \ {0} /\ Outputs \in Nat \ {0}
BY TimerAssumption DEF MinAhead

LEMMA Shifted ==
  ASSUME TypeOK, QueueOK(queue), NEW n \in Int, NEW time \in Int, Shift(n, time)
  PROVE  /\ QueueOK(queue') /\ \A x : Has(queue', x) <=> Has(queue, x)
         /\ Deactivations(queue) # {} => Deactivations(queue') # {}
<1> DEFINE q == queue
           r == queue'
           Later(i) == [q[i] EXCEPT !.in = Max({MinAhead, @ - time})]
<1>1. q \in Seq(Notification) /\ Ordered(q) /\ Single(q) /\ Quiet(q)
      BY DEF QueueOK
<1>2. r = [i \in DOMAIN q |-> Later(i)]
      BY DEF Shift
<1>3. ASSUME NEW i \in DOMAIN q
      PROVE  /\ Later(i) \in Notification /\ Later(i).schedule = q[i].schedule
             /\ Later(i).deactivate = q[i].deactivate
             /\ Later(i).in = IF MinAhead >= q[i].in - time THEN MinAhead ELSE q[i].in - time
             /\ q[i].in \in Int
  <2>1. q[i] \in Notification
        BY <1>1
  <2>2. q[i].in \in Int /\ q[i].schedule \in S /\ q[i].deactivate \in BOOLEAN
        BY <2>1 DEF Notification
  <2> DEFINE in == Max({MinAhead, q[i].in - time})
  <2>3. in = (IF MinAhead >= q[i].in - time THEN MinAhead ELSE q[i].in - time) /\ in \in Int
        BY <2>2, MaxOfTwo, Constants
  <2>4. Later(i) = [q[i] EXCEPT !.in = in]
        OBVIOUS
  <2> HIDE DEF in, Later
  <2>5. Later(i) \in Notification /\ Later(i).schedule = q[i].schedule
        /\ Later(i).deactivate = q[i].deactivate /\ Later(i).in = in
        BY <2>1, <2>3, <2>4 DEF Notification
  <2> QED BY <2>2, <2>3, <2>5
<1> HIDE DEF Later
<1>4. /\ DOMAIN r = DOMAIN q /\ r \in Seq(Notification)
      /\ \A i \in DOMAIN q : r[i] = Later(i)
  <2>1. DOMAIN q = 1 .. Len(q) /\ Len(q) \in Nat
        BY <1>1
  <2> DEFINE f == [i \in 1 .. Len(q) |-> Later(i)]
  <2>2. f \in Seq(Notification)
        BY <1>3, <2>1, IsASeq
  <2> HIDE DEF q
  <2>3. r = f
        BY <1>2, <2>1
  <2> QED BY <1>2, <2>2, <2>3
<1>5. Ordered(r)
  <2> SUFFICES ASSUME NEW i \in DOMAIN q, NEW j \in DOMAIN q, i <= j PROVE r[i].in <= r[j].in
      BY <1>4 DEF Ordered
  <2>1. q[i].in <= q[j].in
        BY <1>1 DEF Ordered
  <2> QED BY <1>3, <1>4, <2>1, Constants
<1>6. Single(r)
      BY <1>1, <1>3, <1>4 DEF Single
<1>7. \A x : Has(r, x) <=> Has(q, x)
      BY <1>3, <1>4 DEF Has
<1>8. Quiet(r)
      BY <1>1, <1>7 DEF Quiet
<1>9. Deactivations(q) # {} => Deactivations(r) # {}
      BY <1>3, <1>4 DEF Deactivations
<1> QED BY <1>4, <1>5, <1>6, <1>7, <1>8, <1>9 DEF QueueOK

LEMMA ShiftType ==
  ASSUME TypeOK, NEW n \in Int, NEW time \in Int, Shift(n, time)
  PROVE  /\ date' \in [Dated -> MinAhead .. MaxAhead] /\ clock' \in 0 .. Day - 1
         /\ sinceWork' \in -(Tolerance + 1) .. Tolerance + 1
<1>1. /\ clock' = (clock + n) % Day
      /\ date' = [s \in Dated |-> Clamp(MinAhead, MaxAhead, date[s] - n)]
      /\ sinceWork' = Clamp(-(Tolerance + 1), Tolerance + 1, sinceWork + n)
      BY DEF Shift
<1>2. clock \in Int /\ sinceWork \in Int /\ date \in [Dated -> MinAhead .. MaxAhead]
      BY Constants DEF TypeOK
<1>3. \A s \in Dated : Clamp(MinAhead, MaxAhead, date[s] - n) \in MinAhead .. MaxAhead
      BY <1>2, Constants DEF Clamp
<1>4. date' \in [Dated -> MinAhead .. MaxAhead]
      BY <1>1, <1>3
<1>5. clock' \in 0 .. Day - 1
      BY <1>1, <1>2, Constants
<1>6. sinceWork' \in -(Tolerance + 1) .. Tolerance + 1
      BY <1>1, <1>2, Constants DEF Clamp
<1> QED BY <1>4, <1>5, <1>6

-----------------------------------------------------------------------------
(* The inductive invariant of the timer. *)

TimerIInv == TypeOK /\ QueueOK(queue) /\ (line = 1 => Complete(queue))

\* A port that is High has a pending deactivation, unless it has been cleared.
SwitchedOffLater == ~forgotten /\ IsHigh => Deactivations(queue) # {}

TimerInv == TimerIInv /\ (HighForAWhile => SwitchedOffLater)

\* the parts of TypeOK the queue has no part in
RestType ==
  /\ line \in {0, 1}
  /\ occurrences \in [S -> Nat]
  /\ date \in [Dated -> MinAhead .. MaxAhead]
  /\ clock \in 0 .. Day - 1
  /\ sinceWork \in -(Tolerance + 1) .. Tolerance + 1
  /\ yearEnd \in BOOLEAN /\ connected \in BOOLEAN /\ masterLoggedIn \in BOOLEAN
  /\ outputs \in OutputsType
  /\ jumps \in 0 .. MaxJumps
  /\ forgotten \in BOOLEAN

LEMMA TypeSplit ==
  /\ TypeOK <=> RestType /\ queue \in Seq(Notification) /\ Ordered(queue)
  /\ TypeOK' <=> RestType' /\ queue' \in Seq(Notification) /\ Ordered(queue')
BY DEF TypeOK, RestType, Ordered, OutputsType

LEMMA ByParts ==
  ASSUME RestType', QueueOK(queue'), line' = 1 => Complete(queue'),
         HighForAWhile => SwitchedOffLater'
  PROVE  TimerInv'
BY TypeSplit DEF TimerInv, TimerIInv, QueueOK

LEMMA InitTimerInv == Init => TimerInv
<1> SUFFICES ASSUME Init PROVE TimerInv
    OBVIOUS
<1>1. RestType
  <2>1. \A d \in {-1} \cup 1 .. MaxAhead : d \in MinAhead .. MaxAhead
        BY Constants
  <2>2. date \in [Dated -> MinAhead .. MaxAhead]
        BY <2>1 DEF Init
  <2>3. 0 \in -(Tolerance + 1) .. Tolerance + 1 /\ 0 \in 0 .. MaxJumps
        BY Constants
  <2>4. occurrences \in [S -> Nat] /\ outputs \in OutputsType
        BY DEF Init, OutputsType
  <2> QED BY <2>2, <2>3, <2>4 DEF Init, RestType
<1>2. /\ date \in [Dated -> Int] /\ clock \in Int /\ Refused \in SUBSET Refusing
      /\ Recalculated = Recalculation(date, clock, Refused)
  <2>1. MinAhead .. MaxAhead \subseteq Int /\ 0 .. Day - 1 \subseteq Int
        OBVIOUS
  <2>2. date \in [Dated -> Int] /\ clock \in Int
        BY <1>1, <2>1 DEF RestType
  <2>3. [s \in S |-> TimeToNext(s)] = [s \in S |-> Time(s, date, clock)]
        BY DEF TimeToNext, Time
  <2> QED BY <2>2, <2>3 DEF Refused, Recalculated, Recalculation
<1>3. QueueOK(queue) /\ (line = 1 => Complete(queue))
  <2>1. QueueOK(Recalculated) /\ Complete(Recalculated)
        BY <1>2, RecalculationOK
  <2> QED BY <2>1, EmptyQueue DEF Init
<1>4. ~IsHigh
      BY DEF Init, IsHigh
<1> QED BY <1>1, <1>3, <1>4, TypeSplit DEF TimerInv, TimerIInv, SwitchedOffLater, QueueOK

\* What a queue is that is processed by the one or the other branch of doWork.
LEMMA WorkOK ==
  ASSUME TimerInv, line = 1, ~Stuck, NEW q, NEW entry,
         QueueOK(q), entry.schedule \in S, entry.deactivate \in BOOLEAN,
         ~entry.deactivate => ~Has(q, entry.schedule),
         \A x \in Recurring :
           Has(q, x) \/ (x = entry.schedule /\ ~entry.deactivate) \/ \E r \in Refusing : r <= x,
         ~ClockCorrected /\ ~entry.deactivate =>
           (Deactivations(queue) # {} => Deactivations(q) # {}),
         Process(q, entry), masterLoggedIn' = connected, sinceWork' = 0, UNCHANGED around
  PROVE  TimerInv'
<1>1. TypeOK /\ RestType
      BY TypeSplit DEF TimerInv, TimerIInv
<1>2. /\ QueueOK(queue') /\ Complete(queue')
      /\ occurrences' \in [S -> Nat] /\ outputs' \in OutputsType /\ forgotten' \in BOOLEAN
      /\ HighForAWhile
           => \/ ~IsHigh' \/ Deactivations(queue') # {}
              \/ queue' = q /\ ~entry.deactivate /\ entry.schedule \in Refused
                   /\ UNCHANGED <<outputs, forgotten>>
      BY <1>1, ProcessOK
<1>3. RestType'
  <2>1. sinceWork' \in -(Tolerance + 1) .. Tolerance + 1
        BY Constants
  <2> QED BY <1>1, <1>2, <2>1 DEF RestType, around
<1>4. ASSUME HighForAWhile PROVE SwitchedOffLater'
  <2>1. CASE ~IsHigh' \/ Deactivations(queue') # {}
        BY <2>1 DEF SwitchedOffLater
  <2>2. CASE queue' = q /\ ~entry.deactivate /\ entry.schedule \in Refused
             /\ UNCHANGED <<outputs, forgotten>>
    <3>1. ~ClockCorrected
          BY <2>2 DEF Stuck
    <3> QED BY <1>4, <2>2, <3>1 DEF TimerInv, SwitchedOffLater, IsHigh
  <2> QED BY <1>2, <1>4, <2>1, <2>2
<1> QED BY <1>2, <1>3, <1>4, ByParts

LEMMA WorkEventOK == ASSUME TimerInv, WorkEvent PROVE TimerInv'
<1> DEFINE q == IF ClockCorrected THEN Recalculated ELSE queue
           entry == [schedule |-> Min(Events), deactivate |-> FALSE, in |-> 0]
<1>1. /\ line = 1 /\ ~Stuck /\ Events # {} /\ Process(q, entry)
      /\ masterLoggedIn' = connected /\ sinceWork' = 0 /\ UNCHANGED around
      BY DEF WorkEvent
<1>2. QueueOK(q) /\ Complete(q)
      BY <1>1, RecalculatedOK DEF TimerInv, TimerIInv
<1>3. Min(Events) \in S /\ Schedules[Min(Events)].type \in {"login", "logout"}
  <2>1. Events \in SUBSET Nat
        BY SchedulesType DEF Events
  <2>2. Min(Events) \in Events
        BY <1>1, <2>1, MinOf
  <2> QED BY <2>2 DEF Events
<1>4. entry.schedule \in S /\ entry.deactivate \in BOOLEAN
      BY <1>3
<1>5. ~Has(q, entry.schedule)
      BY <1>2, <1>3 DEF QueueOK, Quiet
<1>6. ~ClockCorrected => q = queue
      OBVIOUS
<1> HIDE DEF q, entry
<1> QED BY <1>1, <1>2, <1>4, <1>5, <1>6, WorkOK DEF Complete

LEMMA WorkQueueOK == ASSUME TimerInv, WorkQueue PROVE TimerInv'
<1> DEFINE q == IF ClockCorrected THEN Recalculated ELSE queue
<1>1. /\ line = 1 /\ ~Stuck
      /\ masterLoggedIn' = connected /\ sinceWork' = 0 /\ UNCHANGED around
      /\ IF Due(q) THEN Process(Tail(q), Head(q))
         ELSE /\ queue' = q
              /\ forgotten' = (forgotten \/ (ClockCorrected /\ Deactivations(queue) # {}))
              /\ UNCHANGED <<occurrences, outputs>>
      BY DEF WorkQueue
<1>2. QueueOK(q) /\ Complete(q)
      BY <1>1, RecalculatedOK DEF TimerInv, TimerIInv
<1>3. ~ClockCorrected => q = queue
      OBVIOUS
<1> HIDE DEF q
<1>4. CASE Due(q)
  <2> DEFINE r == Tail(q)
             entry == Head(q)
  <2>1. q # <<>> /\ Process(r, entry)
        BY <1>1, <1>4 DEF Due
  <2>2. /\ QueueOK(r) /\ entry \in Notification
        /\ ~entry.deactivate => ~Has(r, entry.schedule)
        /\ \A x : Has(q, x) => Has(r, x) \/ (x = entry.schedule /\ ~entry.deactivate)
        /\ Deactivations(q) # {} => entry.deactivate \/ Deactivations(r) # {}
        BY <1>2, <2>1, Taken
  <2>3. entry.schedule \in S /\ entry.deactivate \in BOOLEAN
        BY <2>2 DEF Notification
  <2> HIDE DEF r, entry
  <2>4. \A x \in Recurring :
          Has(r, x) \/ (x = entry.schedule /\ ~entry.deactivate) \/ \E y \in Refusing : y <= x
        BY <1>2, <2>2 DEF Complete
  <2>5. ~ClockCorrected /\ ~entry.deactivate =>
          (Deactivations(queue) # {} => Deactivations(r) # {})
        BY <1>3, <2>2
  <2> QED BY <1>1, <2>1, <2>2, <2>3, <2>4, <2>5, WorkOK
<1>5. CASE ~Due(q)
  <2>1. /\ queue' = q /\ UNCHANGED <<occurrences, outputs>>
        /\ forgotten' = (forgotten \/ (ClockCorrected /\ Deactivations(queue) # {}))
        BY <1>1, <1>5
  <2>2. RestType
        BY TypeSplit DEF TimerInv, TimerIInv
  <2>3. RestType'
    <3>1. sinceWork' \in -(Tolerance + 1) .. Tolerance + 1
          BY <1>1, Constants
    <3>2. forgotten' \in BOOLEAN
          BY <2>1
    <3> QED BY <1>1, <2>1, <2>2, <3>1, <3>2 DEF RestType, around
  <2>4. ASSUME HighForAWhile PROVE SwitchedOffLater'
    <3>1. SwitchedOffLater
          BY <2>4 DEF TimerInv
    <3>2. IsHigh' = IsHigh
          BY <2>1 DEF IsHigh
    <3>3. CASE ClockCorrected
          BY <2>1, <3>1, <3>2, <3>3 DEF SwitchedOffLater
    <3>4. CASE ~ClockCorrected
          BY <1>3, <2>1, <3>1, <3>2, <3>4 DEF SwitchedOffLater
    <3> QED BY <3>3, <3>4
  <2> QED BY <1>2, <2>1, <2>3, <2>4, ByParts
<1> QED BY <1>4, <1>5

\* A queue that is cleared and recalculated
LEMMA ClearedOK ==
  ASSUME TimerInv, RestType', QueueOK(queue'), line' = 1 => Complete(queue'),
         forgotten' = (forgotten \/ Deactivations(queue) # {}), UNCHANGED outputs
  PROVE  TimerInv'
<1>1. ASSUME HighForAWhile PROVE SwitchedOffLater'
      BY <1>1 DEF TimerInv, SwitchedOffLater, IsHigh
<1> QED BY <1>1, ByParts

\* A step that leaves the queue and the outputs alone
LEMMA QuietStep ==
  ASSUME TimerInv, RestType', UNCHANGED <<line, queue, outputs, forgotten>>
  PROVE  TimerInv'
<1>1. QueueOK(queue') /\ (line' = 1 => Complete(queue'))
      BY DEF TimerInv, TimerIInv
<1>2. HighForAWhile => SwitchedOffLater'
      BY DEF TimerInv, SwitchedOffLater, IsHigh
<1> QED BY <1>1, <1>2, ByParts

LEMMA NextTimerInv == TimerInv /\ [Next]_vars => TimerInv'
<1> SUFFICES ASSUME TimerInv, [Next]_vars PROVE TimerInv'
    OBVIOUS
<1>1. TypeOK /\ RestType /\ QueueOK(queue) /\ QueueOK(Recalculated) /\ Complete(Recalculated)
      BY TypeSplit, RecalculatedOK DEF TimerInv, TimerIInv
<1>2. CASE WorkDisabled
  <2>1. RestType'
        BY <1>1, <1>2 DEF WorkDisabled, around, RestType
  <2> QED BY <1>2, <2>1, QuietStep DEF WorkDisabled, around
<1>3. CASE WorkRefused
  <2>1. RestType'
    <3>1. forgotten' \in BOOLEAN
          BY <1>3 DEF WorkRefused
    <3> QED BY <1>1, <1>3, <3>1 DEF WorkRefused, around, RestType
  <2> QED BY <1>1, <1>3, <2>1, ClearedOK DEF WorkRefused
<1>4. CASE WorkEvent
      BY <1>4, WorkEventOK
<1>5. CASE WorkQueue
      BY <1>5, WorkQueueOK
<1>6. CASE Disable
  <2>1. QueueOK(queue') /\ line' = 0
        BY <1>6, EmptyQueue DEF Disable
  <2>2. CASE PropagateSwitchOff
    <3>1. SetOutputs(0) /\ forgotten' = FALSE
          BY <1>6, <2>2 DEF Disable
    <3>2. outputs' \in OutputsType /\ ~IsHigh'
          BY <1>1, <3>1, SetOutputsType
    <3>3. RestType'
          BY <1>1, <1>6, <3>1, <3>2 DEF Disable, RestType
    <3>4. SwitchedOffLater'
          BY <3>2 DEF SwitchedOffLater
    <3> QED BY <2>1, <3>3, <3>4, ByParts
  <2>3. CASE ~PropagateSwitchOff
    <3>1. forgotten' = (forgotten \/ Deactivations(queue) # {}) /\ UNCHANGED outputs
          BY <1>6, <2>3 DEF Disable
    <3>2. forgotten' \in BOOLEAN
          BY <3>1
    <3>3. RestType'
          BY <1>1, <1>6, <3>1, <3>2 DEF Disable, RestType
    <3> QED BY <2>1, <3>1, <3>3, ClearedOK
  <2> QED BY <2>2, <2>3
<1>7. CASE Enable
  <2>1. RestType'
    <3>1. forgotten' \in BOOLEAN
          BY <1>7 DEF Enable
    <3> QED BY <1>1, <1>7, <3>1 DEF Enable, RestType
  <2> QED BY <1>1, <1>7, <2>1, ClearedOK DEF Enable
<1>8. CASE SetDate
  <2>1. PICK s \in Dated, d \in {-1} \cup 1 .. MaxAhead : date' = [date EXCEPT ![s] = d]
        BY <1>8 DEF SetDate
  <2>2. date' \in [Dated -> MinAhead .. MaxAhead]
    <3>1. d \in MinAhead .. MaxAhead
          BY Constants
    <3> QED BY <1>1, <2>1, <3>1 DEF RestType
  <2>3. RestType'
    <3>1. forgotten' \in BOOLEAN /\ jumps' \in 0 .. MaxJumps
      <4>1. forgotten' \in BOOLEAN
            BY <1>8 DEF SetDate
      <4>2. jumps < MaxJumps /\ jumps' = jumps + 1
            BY <1>8 DEF SetDate
      <4>3. jumps' \in 0 .. MaxJumps
            BY <1>1, <4>2, Constants DEF RestType
      <4> QED BY <4>1, <4>3
    <3> QED BY <1>1, <1>8, <2>2, <3>1 DEF SetDate, RestType
  <2>4. queue' = Recalculation(date', clock', Refused')
    <3>1. [s1 \in S |-> TimeToNext(s1)'] = [s1 \in S |-> Time(s1, date', clock')]
          BY DEF TimeToNext, Time
    <3>2. Recalculated' = Recalculation(date', clock', Refused')
          BY <3>1 DEF Recalculated, Recalculation
    <3> QED BY <1>8, <3>2 DEF SetDate
  <2>5. date' \in [Dated -> Int] /\ clock' \in Int /\ Refused' \in SUBSET Refusing
    <3>1. MinAhead .. MaxAhead \subseteq Int /\ 0 .. Day - 1 \subseteq Int
          OBVIOUS
    <3>2. date' \in [Dated -> Int] /\ clock' \in Int
          BY <2>2, <2>3, <3>1 DEF RestType
    <3> QED BY <3>2 DEF Refused
  <2>6. QueueOK(queue') /\ Complete(queue')
        BY <2>4, <2>5, RecalculationOK
  <2> QED BY <1>8, <2>3, <2>6, ClearedOK DEF SetDate
<1>9. CASE Connect
  <2>1. connected' \in BOOLEAN
        BY <1>9 DEF Connect
  <2>2. RestType'
        BY <1>1, <1>9, <2>1 DEF Connect, RestType
  <2> QED BY <1>9, <2>2, QuietStep DEF Connect
<1>10. ASSUME NEW n \in Int, NEW time \in Int, Shift(n, time), jumps' \in 0 .. MaxJumps PROVE TimerInv'
  <2>1. /\ QueueOK(queue') /\ \A x : Has(queue', x) <=> Has(queue, x)
        /\ Deactivations(queue) # {} => Deactivations(queue') # {}
        BY <1>1, <1>10, Shifted
  <2>2. /\ date' \in [Dated -> MinAhead .. MaxAhead] /\ clock' \in 0 .. Day - 1
        /\ sinceWork' \in -(Tolerance + 1) .. Tolerance + 1
        BY <1>1, <1>10, ShiftType
  <2>3. UNCHANGED <<yearEnd, line, occurrences, connected, masterLoggedIn, outputs, forgotten>>
        BY <1>10 DEF Shift
  <2>4. RestType'
        BY <1>1, <1>10, <2>2, <2>3 DEF RestType
  <2>5. line' = 1 => Complete(queue')
        BY <2>1, <2>3 DEF TimerInv, TimerIInv, Complete
  <2>6. HighForAWhile => SwitchedOffLater'
        BY <2>1, <2>3 DEF TimerInv, SwitchedOffLater, IsHigh
  <2> QED BY <2>1, <2>4, <2>5, <2>6, ByParts
<1>11. CASE Tick
  <2>1. Shift(1, 1) /\ jumps' \in 0 .. MaxJumps
        BY <1>1, <1>11 DEF Tick, RestType
  <2> QED BY <1>10, <2>1
<1>12. ASSUME jumps < MaxJumps, jumps' = jumps + 1 PROVE jumps' \in 0 .. MaxJumps
       BY <1>1, <1>12, Constants DEF RestType
<1>13. CASE Correct
  <2>1. PICK n \in {-(Tolerance + 1), -1, 1, Tolerance + 1} : Shift(n, 0)
        BY <1>13 DEF Correct
  <2>2. n \in Int
        BY Constants
  <2>3. jumps' \in 0 .. MaxJumps
        BY <1>12, <1>13 DEF Correct
  <2> QED BY <1>10, <2>1, <2>2, <2>3
<1>14. CASE TurnOfYear
  <2>1. yearEnd' \in BOOLEAN /\ jumps' \in 0 .. MaxJumps
        BY <1>12, <1>14 DEF TurnOfYear
  <2>2. RestType'
        BY <1>1, <1>14, <2>1 DEF TurnOfYear, RestType
  <2> QED BY <1>14, <2>2, QuietStep DEF TurnOfYear
<1>15. CASE UNCHANGED vars
  <2>1. RestType'
        BY <1>1, <1>15 DEF vars, RestType
  <2> QED BY <1>15, <2>1, QuietStep DEF vars
<1> QED BY <1>2, <1>3, <1>4, <1>5, <1>6, <1>7, <1>8, <1>9, <1>11, <1>13, <1>14, <1>15 DEF Next, DoWork

-----------------------------------------------------------------------------
(* What the invariant says of the checked properties. *)

LEMMA PendingFollows == TimerIInv => PendingInv
<1> SUFFICES ASSUME TimerIInv, line = 1
             PROVE  /\ \A s \in S : Cardinality(Pending(s)) <= 1
                    /\ \A s \in Recurring : Pending(s) # {} \/ \E r \in Refusing : r <= s
    BY DEF PendingInv
<1>1. Single(queue) /\ Complete(queue)
      BY DEF TimerIInv, QueueOK
<1>2. ASSUME NEW s \in S PROVE Cardinality(Pending(s)) <= 1
  <2>1. \A i, j \in Pending(s) : i = j
        BY <1>1 DEF Single, Pending
  <2>2. CASE Pending(s) = {}
        BY <2>2, FS_EmptySet
  <2>3. CASE Pending(s) # {}
    <3>1. PICK i \in Pending(s) : TRUE
          BY <2>3
    <3>2. Pending(s) = {i}
          BY <2>1, <3>1
    <3> QED BY <3>2, FS_Singleton
  <2> QED BY <2>2, <2>3
<1>3. ASSUME NEW s \in Recurring PROVE Pending(s) # {} \/ \E r \in Refusing : r <= s
      BY <1>1 DEF Complete, Has, Pending
<1> QED BY <1>2, <1>3

LEMMA NeverStuckHighFollows == TimerInv /\ HighForAWhile => NeverStuckHigh
BY DEF TimerInv, SwitchedOffLater, IsHigh, NeverStuckHigh

-----------------------------------------------------------------------------
(* The calendar. *)

LEMMA Calendar ==
  /\ SecondMax \in Nat /\ MinuteMax \in Nat /\ HourMax \in Nat
  /\ MonthMax \in Nat \ {0} /\ MaxIter \in Nat /\ FirstYear \in Nat
  /\ \A y \in Nat, m \in 1 .. MonthMax : DaysOfMonth(y, m) \in Nat \ {0}
BY CalendarAssumption DEF DaysOfMonth

\* A set of numbers with a bound has a greatest element.
LEMMA MaxOf ==
  ASSUME NEW T \in SUBSET Nat, T # {}, NEW b \in Nat, \A n \in T : n <= b
  PROVE  Max(T) \in T /\ \A n \in T : n <= Max(T)
<1> DEFINE U == {c \in Nat : \A n \in T : n <= c}
<1>1. U \in SUBSET Nat /\ U # {}
      OBVIOUS
<1> HIDE DEF U
<1>2. PICK x \in U : \A c \in U : x <= c
      BY <1>1, Least
<1> USE DEF U
<1>3. x \in T
  <2> SUFFICES ASSUME x \notin T PROVE FALSE
      OBVIOUS
  <2>1. PICK n \in T : TRUE
        OBVIOUS
  <2>2. x \in Nat /\ n \in Nat /\ n < x
        BY <1>2, <2>1
  <2>3. x - 1 \in Nat
        BY <2>2
  <2>4. \A i \in T : i <= x - 1
        BY <1>2
  <2> QED BY <1>2, <2>2, <2>3, <2>4
<1>4. \E y \in T : \A n \in T : y >= n
      BY <1>2, <1>3
<1>5. Max(T) \in T /\ \A n \in T : Max(T) >= n
      BY <1>4 DEF Max
<1> QED BY <1>5

\* The days of the first n months have a bound.
LEMMA DaysBounded ==
  \E b \in Nat : \A y \in 1 .. 2, m \in 1 .. MonthMax : DaysOfMonth(y, m) <= b
<1> DEFINE T == {k \in Nat : k <= MonthMax =>
                   \E b \in Nat : \A y \in 1 .. 2, m \in 1 .. k : DaysOfMonth(y, m) <= b}
<1>1. 0 \in T
      OBVIOUS
<1>2. ASSUME NEW k \in Nat, k \in T PROVE k + 1 \in T
  <2>1. SUFFICES ASSUME k + 1 <= MonthMax
                 PROVE  \E b \in Nat : \A y \in 1 .. 2, m \in 1 .. k + 1 : DaysOfMonth(y, m) <= b
        OBVIOUS
  <2>2. PICK b \in Nat : \A y \in 1 .. 2, m \in 1 .. k : DaysOfMonth(y, m) <= b
        BY <1>2, <2>1, Calendar
  <2>3. DaysOfMonth(1, k + 1) \in Nat /\ DaysOfMonth(2, k + 1) \in Nat
        BY <2>1, Calendar
  <2> DEFINE c == b + DaysOfMonth(1, k + 1) + DaysOfMonth(2, k + 1)
  <2>4. c \in Nat
        BY <2>3
  <2>5. ASSUME NEW y \in 1 .. 2, NEW m \in 1 .. k + 1 PROVE DaysOfMonth(y, m) <= c
    <3>1. CASE m \in 1 .. k
      <4>1. DaysOfMonth(y, m) <= b /\ DaysOfMonth(y, m) \in Nat
            BY <2>1, <2>2, <3>1, Calendar
      <4> QED BY <2>3, <4>1
    <3>2. CASE m = k + 1
      <4>1. y = 1 \/ y = 2
            OBVIOUS
      <4>2. CASE y = 1
            BY <2>3, <3>2, <4>2
      <4>3. CASE y = 2
            BY <2>3, <3>2, <4>3
      <4> QED BY <4>1, <4>2, <4>3
    <3> QED BY <3>1, <3>2
  <2> QED BY <2>4, <2>5
<1> HIDE DEF T
<1>3. MonthMax \in T
      BY <1>1, <1>2, Calendar, Induction
<1> QED BY <1>3, Calendar DEF T

\* The days of the longest month are a bound for those of every month.
LEMMA LongestOf ==
  /\ Longest \in Nat \ {0}
  /\ \A y \in Nat, m \in 1 .. MonthMax : DaysOfMonth(y, m) <= Longest
<1> DEFINE D == {DaysOfMonth(y, m) : y \in 1 .. 2, m \in 1 .. MonthMax}
<1>1. \A d : d \in D <=> \E y \in 1 .. 2, m \in 1 .. MonthMax : d = DaysOfMonth(y, m)
      OBVIOUS
<1>2. Longest = Max(D)
      BY DEF Longest
<1> HIDE DEF D
<1>3. D \in SUBSET Nat /\ D # {} /\ 0 \notin D
  <2>1. DaysOfMonth(1, 1) \in D
        BY <1>1, Calendar
  <2> QED BY <1>1, <2>1, Calendar
<1>4. PICK b \in Nat : \A d \in D : d <= b
      BY <1>1, DaysBounded
<1>5. Longest \in D /\ \A d \in D : d <= Longest
      BY <1>2, <1>3, <1>4, MaxOf
<1>6. ASSUME NEW y \in Nat, NEW m \in 1 .. MonthMax PROVE DaysOfMonth(y, m) \in D
  <2>1. CASE y % 2 = 0
    <3>1. DaysOfMonth(y, m) = DaysOfMonth(2, m)
          BY <2>1 DEF DaysOfMonth
    <3> QED BY <1>1, <3>1
  <2>2. CASE y % 2 # 0
    <3>1. DaysOfMonth(y, m) = DaysOfMonth(1, m)
          BY <2>2 DEF DaysOfMonth
    <3> QED BY <1>1, <3>1
  <2> QED BY <2>1, <2>2
<1> QED BY <1>3, <1>5, <1>6

Moment(s, m, h, d, mo, y) ==
  [second |-> s, minute |-> m, hour |-> h, day |-> d, month |-> mo, year |-> y]

LEMMA MomentOf ==
  ASSUME NEW t \in DateTimes(Nat)
  PROVE  t = Moment(t.second, t.minute, t.hour, t.day, t.month, t.year)
BY DEF DateTimes, Moment

LEMMA IsMoment ==
  ASSUME NEW s \in 0 .. SecondMax, NEW m \in 0 .. MinuteMax, NEW h \in 0 .. HourMax,
         NEW d \in Nat \ {0}, NEW mo \in 1 .. MonthMax, NEW y \in Nat, d <= DaysOfMonth(y, mo)
  PROVE  Moment(s, m, h, d, mo, y) \in Moments
<1>1. d \in 1 .. Longest
      BY Calendar, LongestOf
<1> QED BY <1>1 DEF Moments, DateTimes, Exists, Moment

\* What is in range stays.
Carried(c, s, m, h, d, mo, y) ==
  /\ c \in Moments
  /\ s <= SecondMax => c.second = s
  /\ s <= SecondMax /\ m <= MinuteMax => c.minute = m
  /\ s <= SecondMax /\ m <= MinuteMax /\ h <= HourMax =>
       /\ c.hour = h
       /\ d <= DaysOfMonth(y, mo) => c.day = d /\ c.month = mo /\ c.year = y

\* A component may be one beyond its last value before it is carried, and the
\* day any number.
LEMMA CarryOK ==
  ASSUME NEW s \in 0 .. SecondMax + 1, NEW m \in 0 .. MinuteMax + 1, NEW h \in 0 .. HourMax + 1,
         NEW d \in Nat \ {0}, NEW mo \in 1 .. MonthMax, NEW y \in Nat
  PROVE  Carried(Carry(Moment(s, m, h, d, mo, y)), s, m, h, d, mo, y)
<1> DEFINE t == Moment(s, m, h, d, mo, y)
           minute == IF t.second > SecondMax
                     THEN [t EXCEPT !.second = 0, !.minute = @ + 1] ELSE t
           hour == IF minute.minute > MinuteMax
                   THEN [minute EXCEPT !.minute = 0, !.hour = @ + 1] ELSE minute
           day == IF hour.hour > HourMax
                  THEN [hour EXCEPT !.hour = 0, !.day = @ + 1] ELSE hour
           month == IF day.day > DaysOfMonth(day.year, day.month)
                    THEN [day EXCEPT !.day = 1, !.month = @ + 1] ELSE day
<1>1. Carry(t) = IF month.month > MonthMax
                 THEN [month EXCEPT !.month = 1, !.year = @ + 1] ELSE month
      BY DEF Carry
<1> HIDE DEF month
<1>2. PICK s1 \in 0 .. SecondMax, m1 \in 0 .. MinuteMax + 2 :
        minute = Moment(s1, m1, h, d, mo, y) /\ (s <= SecondMax => s1 = s /\ m1 = m)
  <2>1. CASE s > SecondMax
    <3>1. minute = Moment(0, m + 1, h, d, mo, y)
          BY <2>1 DEF Moment
    <3>2. 0 \in 0 .. SecondMax /\ m + 1 \in 0 .. MinuteMax + 2
          BY Calendar
    <3> QED BY <2>1, <3>1, <3>2, Calendar
  <2>2. CASE ~(s > SecondMax)
    <3>1. minute = Moment(s, m, h, d, mo, y)
          BY <2>2 DEF Moment
    <3>2. s \in 0 .. SecondMax /\ m \in 0 .. MinuteMax + 2
          BY <2>2, Calendar
    <3> QED BY <3>1, <3>2
  <2> QED BY <2>1, <2>2
<1> HIDE DEF minute
<1>3. PICK m2 \in 0 .. MinuteMax, h1 \in 0 .. HourMax + 2 :
        hour = Moment(s1, m2, h1, d, mo, y) /\ (m1 <= MinuteMax => m2 = m1 /\ h1 = h)
  <2>1. CASE m1 > MinuteMax
    <3>1. hour = Moment(s1, 0, h + 1, d, mo, y)
          BY <1>2, <2>1 DEF Moment
    <3>2. 0 \in 0 .. MinuteMax /\ h + 1 \in 0 .. HourMax + 2
          BY Calendar
    <3> QED BY <2>1, <3>1, <3>2, Calendar
  <2>2. CASE ~(m1 > MinuteMax)
    <3>1. hour = Moment(s1, m1, h, d, mo, y)
          BY <1>2, <2>2 DEF Moment
    <3>2. m1 \in 0 .. MinuteMax /\ h \in 0 .. HourMax + 2
          BY <2>2, Calendar
    <3> QED BY <3>1, <3>2
  <2> QED BY <2>1, <2>2
<1> HIDE DEF hour
<1>4. PICK h2 \in 0 .. HourMax, d1 \in Nat \ {0} :
        day = Moment(s1, m2, h2, d1, mo, y) /\ (h1 <= HourMax => h2 = h1 /\ d1 = d)
  <2>1. CASE h1 > HourMax
    <3>1. day = Moment(s1, m2, 0, d + 1, mo, y)
          BY <1>3, <2>1 DEF Moment
    <3>2. 0 \in 0 .. HourMax /\ d + 1 \in Nat \ {0}
          BY Calendar
    <3> QED BY <2>1, <3>1, <3>2, Calendar
  <2>2. CASE ~(h1 > HourMax)
    <3>1. day = Moment(s1, m2, h1, d, mo, y)
          BY <1>3, <2>2 DEF Moment
    <3>2. h1 \in 0 .. HourMax
          BY <2>2, Calendar
    <3> QED BY <3>1, <3>2
  <2> QED BY <2>1, <2>2
<1> HIDE DEF day
<1>5. DaysOfMonth(y, mo) \in Nat
      BY Calendar
<1>6. day.day = d1 /\ day.year = y /\ day.month = mo
      BY <1>4 DEF Moment
<1> DEFINE r == Carry(Moment(s, m, h, d, mo, y))
<1>7. \E d2, mo2, y2 :
        /\ r = Moment(s1, m2, h2, d2, mo2, y2) /\ r \in Moments
        /\ d1 <= DaysOfMonth(y, mo) => d2 = d1 /\ mo2 = mo /\ y2 = y
  <2>1. CASE d1 > DaysOfMonth(y, mo)
    <3>1. month = Moment(s1, m2, h2, 1, mo + 1, y)
          BY <1>4, <1>6, <2>1 DEF Moment, month
    <3>2. ~(d1 <= DaysOfMonth(y, mo))
          BY <1>5, <2>1
    <3>3. CASE mo + 1 > MonthMax
      <4>1. r = Moment(s1, m2, h2, 1, 1, y + 1)
            BY <1>1, <3>1, <3>3 DEF Moment
      <4>2. 1 \in 1 .. MonthMax /\ y + 1 \in Nat /\ 1 <= DaysOfMonth(y + 1, 1)
            BY Calendar
      <4>3. Moment(s1, m2, h2, 1, 1, y + 1) \in Moments
            BY <4>2, IsMoment
      <4> QED BY <3>2, <4>1, <4>3
    <3>4. CASE ~(mo + 1 > MonthMax)
      <4>1. r = Moment(s1, m2, h2, 1, mo + 1, y)
            BY <1>1, <3>1, <3>4 DEF Moment
      <4>2. mo + 1 \in 1 .. MonthMax
            BY <3>4, Calendar
      <4>3. 1 <= DaysOfMonth(y, mo + 1)
            BY <4>2, Calendar
      <4>4. Moment(s1, m2, h2, 1, mo + 1, y) \in Moments
            BY <4>2, <4>3, IsMoment
      <4> QED BY <3>2, <4>1, <4>4
    <3> QED BY <3>3, <3>4
  <2>2. CASE ~(d1 > DaysOfMonth(y, mo))
    <3>1. month = Moment(s1, m2, h2, d1, mo, y)
          BY <1>4, <1>6, <2>2 DEF month
    <3>2. r = Moment(s1, m2, h2, d1, mo, y)
          BY <1>1, <3>1, Calendar DEF Moment
    <3>3. d1 <= DaysOfMonth(y, mo)
          BY <1>5, <2>2
    <3> QED BY <3>2, <3>3, IsMoment
  <2> QED BY <2>1, <2>2
<1> HIDE DEF r
<1>8. PICK d2, mo2, y2 :
        /\ r = Moment(s1, m2, h2, d2, mo2, y2) /\ r \in Moments
        /\ d1 <= DaysOfMonth(y, mo) => d2 = d1 /\ mo2 = mo /\ y2 = y
      BY <1>7
<1>9. r.second = s1 /\ r.minute = m2 /\ r.hour = h2 /\ r.day = d2 /\ r.month = mo2 /\ r.year = y2
      BY <1>8 DEF Moment
<1>10. ASSUME s <= SecondMax PROVE r.second = s /\ m1 = m
       BY <1>2, <1>9, <1>10
<1>11. ASSUME s <= SecondMax, m <= MinuteMax PROVE r.minute = m /\ h1 = h
       BY <1>3, <1>9, <1>10, <1>11
<1>12. ASSUME s <= SecondMax, m <= MinuteMax, h <= HourMax PROVE r.hour = h /\ d1 = d
       BY <1>4, <1>9, <1>11, <1>12
<1>13. ASSUME s <= SecondMax, m <= MinuteMax, h <= HourMax, d <= DaysOfMonth(y, mo)
       PROVE  r.day = d /\ r.month = mo /\ r.year = y
       BY <1>8, <1>9, <1>12, <1>13
<1>14. Carried(r, s, m, h, d, mo, y)
       BY <1>8, <1>10, <1>11, <1>12, <1>13 DEF Carried
<1>15. r = Carry(Moment(s, m, h, d, mo, y))
       BY DEF r
<1> HIDE DEF t
<1> QED BY <1>14, <1>15

-----------------------------------------------------------------------------
(* The components of a pattern. *)

Possible(A, current, limit, value, rollover, changed) ==
  /\ NextPossibleValue(A, current, limit)
       = [value |-> value, rollover |-> rollover, changed |-> changed]
  /\ value \in A /\ rollover \in BOOLEAN /\ changed \in BOOLEAN
  /\ rollover => value = Min(A) /\ \A i \in A : ~(current <= i /\ i < limit)
  /\ ~rollover => /\ current <= value /\ value < limit /\ (changed <=> value # current)
                  /\ \A i \in A : current <= i /\ i < limit => value <= i

LEMMA NextPossible ==
  ASSUME NEW A \in SUBSET Nat, A # {}, NEW current \in Nat, NEW limit \in Nat
  PROVE  \E value, rollover, changed : Possible(A, current, limit, value, rollover, changed)
<1> DEFINE later == {i \in A : current <= i /\ i < limit}
<1>1. CASE later # {}
  <2>1. Min(later) \in later /\ \A i \in later : Min(later) <= i
    <3>1. later \in SUBSET Nat
          OBVIOUS
    <3> HIDE DEF later
    <3> QED BY <1>1, <3>1, MinOf
  <2>2. NextPossibleValue(A, current, limit)
          = [value |-> Min(later), rollover |-> FALSE, changed |-> Min(later) # current]
        BY <1>1 DEF NextPossibleValue
  <2>3. PICK v : v = Min(later)
        OBVIOUS
  <2>4. PICK c \in BOOLEAN : c = (v # current)
        OBVIOUS
  <2>5. PICK r \in BOOLEAN : r = FALSE
        OBVIOUS
  <2>6. v \in A /\ current <= v /\ v < limit /\ \A i \in A : current <= i /\ i < limit => v <= i
        BY <2>1, <2>3
  <2>7. NextPossibleValue(A, current, limit) = [value |-> v, rollover |-> r, changed |-> c]
        BY <2>2, <2>3, <2>4, <2>5
  <2>8. Possible(A, current, limit, v, r, c)
        BY <2>4, <2>5, <2>6, <2>7 DEF Possible
  <2> QED BY <2>8
<1>2. CASE later = {}
  <2>1. NextPossibleValue(A, current, limit)
          = [value |-> Min(A), rollover |-> TRUE, changed |-> FALSE]
        BY <1>2 DEF NextPossibleValue
  <2>2. Min(A) \in A /\ \A i \in A : ~(current <= i /\ i < limit)
        BY <1>2, MinOf
  <2>3. Possible(A, current, limit, Min(A), TRUE, FALSE)
        BY <2>1, <2>2 DEF Possible
  <2> QED BY <2>3
<1> QED BY <1>1, <1>2

LEMMA PatternOf ==
  ASSUME NEW p \in Pattern
  PROVE  /\ p.second \in SUBSET (0 .. SecondMax) /\ p.second # {}
         /\ p.minute \in SUBSET (0 .. MinuteMax) /\ p.minute # {}
         /\ p.hour \in SUBSET (0 .. HourMax) /\ p.hour # {}
         /\ p.day \in SUBSET (1 .. Longest) /\ p.day # {}
         /\ p.month \in SUBSET (1 .. MonthMax) /\ p.month # {}
         /\ p.weekday \in SUBSET (0 .. WeekLength - 1)
BY DEF Pattern

LEMMA FirstOf ==
  ASSUME NEW p \in Pattern, NEW k \in 0 .. 4,
         NEW s, NEW m, NEW h, NEW d, NEW mo, NEW y
  PROVE  FirstPossibleValues(p, Moment(s, m, h, d, mo, y), k)
           = Moment(IF k >= 1 THEN Min(p.second) ELSE s, IF k >= 2 THEN Min(p.minute) ELSE m,
                    IF k >= 3 THEN Min(p.hour) ELSE h, IF k >= 4 THEN Min(p.day) ELSE d, mo, y)
<1> DEFINE t == Moment(s, m, h, d, mo, y)
           f == FirstPossibleValues(p, t, k)
<1>1. DOMAIN t = {"second", "minute", "hour", "day", "month", "year"}
      BY DEF Moment
<1>2. f = [u \in DOMAIN t |-> IF \E i \in 1 .. k : Units[i] = u THEN Min(p[u]) ELSE t[u]]
      BY DEF FirstPossibleValues
<1>3. /\ (\E i \in 1 .. k : Units[i] = "second") <=> k >= 1
      /\ (\E i \in 1 .. k : Units[i] = "minute") <=> k >= 2
      /\ (\E i \in 1 .. k : Units[i] = "hour") <=> k >= 3
      /\ (\E i \in 1 .. k : Units[i] = "day") <=> k >= 4
      /\ ~(\E i \in 1 .. k : Units[i] = "month") /\ ~(\E i \in 1 .. k : Units[i] = "year")
  <2>1. k = 0 \/ k = 1 \/ k = 2 \/ k = 3 \/ k = 4
        OBVIOUS
  <2>2. \A i \in 1 .. k : i = 1 \/ i = 2 \/ i = 3 \/ i = 4
        BY <2>1
  <2> QED BY <2>1, <2>2 DEF Units
<1>4. /\ t["second"] = s /\ t["minute"] = m /\ t["hour"] = h /\ t["day"] = d
      /\ t["month"] = mo /\ t["year"] = y
      BY DEF Moment
<1> HIDE DEF t, f
<1>5. /\ f["second"] = IF k >= 1 THEN Min(p.second) ELSE s
      /\ f["minute"] = IF k >= 2 THEN Min(p.minute) ELSE m
      /\ f["hour"] = IF k >= 3 THEN Min(p.hour) ELSE h
      /\ f["day"] = IF k >= 4 THEN Min(p.day) ELSE d
      /\ f["month"] = mo /\ f["year"] = y
      BY <1>1, <1>2, <1>3, <1>4
<1>6. DOMAIN f = {"second", "minute", "hour", "day", "month", "year"}
      BY <1>1, <1>2
<1>7. f = Moment(f["second"], f["minute"], f["hour"], f["day"], f["month"], f["year"])
      BY <1>2, <1>6 DEF Moment
<1> QED BY <1>5, <1>7 DEF f, t
LEMMA MomentsAre ==
  ASSUME NEW t \in Moments
  PROVE  \E s \in 0 .. SecondMax, m \in 0 .. MinuteMax, h \in 0 .. HourMax, d \in 1 .. Longest,
            mo \in 1 .. MonthMax, y \in Nat :
           t = Moment(s, m, h, d, mo, y) /\ d <= DaysOfMonth(y, mo)
<1>1. t \in DateTimes(Nat) /\ t.day <= DaysOfMonth(t.year, t.month)
      BY DEF Moments, Exists
<1>2. /\ t.second \in 0 .. SecondMax /\ t.minute \in 0 .. MinuteMax /\ t.hour \in 0 .. HourMax
      /\ t.day \in 1 .. Longest /\ t.month \in 1 .. MonthMax /\ t.year \in Nat
      BY <1>1 DEF DateTimes
<1> QED BY <1>1, <1>2, MomentOf

\* The first n of second, minute and hour are values of the pattern.
ClockFits(p, t, n) ==
  /\ n >= 1 => t.second \in p.second
  /\ n >= 2 => t.minute \in p.minute
  /\ n >= 3 => t.hour \in p.hour

\* Advance, without the names of its components
Advanced(p, k, r, c, chosen, above) ==
  IF r THEN FirstPossibleValues(p, Carry(above), k - 1)
  ELSE IF c THEN FirstPossibleValues(p, chosen, k - 1)
  ELSE chosen

Changed(t, unit, v) == [t EXCEPT ![unit] = v]
Increased(t, unit) == [t EXCEPT ![unit] = @ + 1]

LEMMA AdvanceBy ==
  ASSUME NEW p, NEW t, NEW k, NEW v, NEW r, NEW c,
         Possible(p[Units[k]], t[Units[k]], Limit(Units[k], t), v, r, c)
  PROVE  Advance(p, t, k)
           = Advanced(p, k, r, c, Changed(t, Units[k], v),
                      Increased(Changed(t, Units[k], v), Units[k + 1]))
<1>1. PICK x : x = NextPossibleValue(p[Units[k]], t[Units[k]], Limit(Units[k], t))
      OBVIOUS
<1>2. x.value = v /\ x.rollover = r /\ x.changed = c
      BY <1>1 DEF Possible
<1>3. CASE x.rollover
      BY <1>1, <1>2, <1>3 DEF Advance, Advanced, Changed, Increased
<1>4. CASE ~x.rollover /\ x.changed
      BY <1>1, <1>2, <1>4 DEF Advance, Advanced, Changed, Increased
<1>5. CASE ~x.rollover /\ ~x.changed
      BY <1>1, <1>2, <1>5 DEF Advance, Advanced, Changed, Increased
<1> QED BY <1>3, <1>4, <1>5

LEMMA ChangedIn ==
  ASSUME NEW s, NEW m, NEW h, NEW d, NEW mo, NEW y, NEW v
  PROVE  /\ Changed(Moment(s, m, h, d, mo, y), "second", v) = Moment(v, m, h, d, mo, y)
         /\ Changed(Moment(s, m, h, d, mo, y), "minute", v) = Moment(s, v, h, d, mo, y)
         /\ Changed(Moment(s, m, h, d, mo, y), "hour", v) = Moment(s, m, v, d, mo, y)
         /\ Changed(Moment(s, m, h, d, mo, y), "day", v) = Moment(s, m, h, v, mo, y)
         /\ Changed(Moment(s, m, h, d, mo, y), "month", v) = Moment(s, m, h, d, v, y)
<1>1. Changed(Moment(s, m, h, d, mo, y), "second", v) = Moment(v, m, h, d, mo, y)
      BY DEF Changed, Moment
<1>2. Changed(Moment(s, m, h, d, mo, y), "minute", v) = Moment(s, v, h, d, mo, y)
      BY DEF Changed, Moment
<1>3. Changed(Moment(s, m, h, d, mo, y), "hour", v) = Moment(s, m, v, d, mo, y)
      BY DEF Changed, Moment
<1>4. Changed(Moment(s, m, h, d, mo, y), "day", v) = Moment(s, m, h, v, mo, y)
      BY DEF Changed, Moment
<1>5. Changed(Moment(s, m, h, d, mo, y), "month", v) = Moment(s, m, h, d, v, y)
      BY DEF Changed, Moment
<1> QED BY <1>1, <1>2, <1>3, <1>4, <1>5

LEMMA IncreasedIn ==
  ASSUME NEW s, NEW m, NEW h, NEW d, NEW mo, NEW y
  PROVE  /\ Increased(Moment(s, m, h, d, mo, y), "minute") = Moment(s, m + 1, h, d, mo, y)
         /\ Increased(Moment(s, m, h, d, mo, y), "hour") = Moment(s, m, h + 1, d, mo, y)
         /\ Increased(Moment(s, m, h, d, mo, y), "day") = Moment(s, m, h, d + 1, mo, y)
         /\ Increased(Moment(s, m, h, d, mo, y), "month") = Moment(s, m, h, d, mo + 1, y)
         /\ Increased(Moment(s, m, h, d, mo, y), "year") = Moment(s, m, h, d, mo, y + 1)
<1>1. Increased(Moment(s, m, h, d, mo, y), "minute") = Moment(s, m + 1, h, d, mo, y)
      BY DEF Increased, Moment
<1>2. Increased(Moment(s, m, h, d, mo, y), "hour") = Moment(s, m, h + 1, d, mo, y)
      BY DEF Increased, Moment
<1>3. Increased(Moment(s, m, h, d, mo, y), "day") = Moment(s, m, h, d + 1, mo, y)
      BY DEF Increased, Moment
<1>4. Increased(Moment(s, m, h, d, mo, y), "month") = Moment(s, m, h, d, mo + 1, y)
      BY DEF Increased, Moment
<1>5. Increased(Moment(s, m, h, d, mo, y), "year") = Moment(s, m, h, d, mo, y + 1)
      BY DEF Increased, Moment
<1> QED BY <1>1, <1>2, <1>3, <1>4, <1>5

-----------------------------------------------------------------------------
(* The order of moments: on the lists of their components, the last the highest. *)

Numbers == [1 .. 6 -> Nat]

Above(a, b, k) == \E j \in k .. 6 : a[j] > b[j] /\ \A i \in j + 1 .. 6 : a[i] = b[i]
Same(a, b, k) == \A i \in k .. 6 : a[i] = b[i]

LEMMA AboveAt ==
  ASSUME NEW a \in Numbers, NEW b \in Numbers, NEW k \in 1 .. 6, a[k] > b[k], Same(a, b, k + 1)
  PROVE  Above(a, b, k)
BY DEF Above, Same

LEMMA AboveLower ==
  ASSUME NEW a \in Numbers, NEW b \in Numbers, NEW k \in 1 .. 6, NEW j \in 1 .. k, Above(a, b, k)
  PROVE  Above(a, b, j)
BY DEF Above

LEMMA AboveSplits ==
  ASSUME NEW a \in Numbers, NEW b \in Numbers, NEW k \in 1 .. 6, Above(a, b, k)
  PROVE  Above(a, b, k + 1) \/ (Same(a, b, k + 1) /\ a[k] > b[k])
BY DEF Above, Same

LEMMA NotAboveBoth ==
  ASSUME NEW a \in Numbers, NEW b \in Numbers, NEW k \in 1 .. 7, NEW j \in 1 .. 7, Above(a, b, k)
  PROVE  ~Above(b, a, j)
<1> SUFFICES ASSUME Above(b, a, j) PROVE FALSE
    OBVIOUS
<1>1. PICK m \in k .. 6 : a[m] > b[m] /\ \A i \in m + 1 .. 6 : a[i] = b[i]
      BY DEF Above
<1>2. PICK n \in j .. 6 : b[n] > a[n] /\ \A i \in n + 1 .. 6 : a[i] = b[i]
      BY DEF Above
<1>3. a[m] \in Nat /\ b[m] \in Nat /\ a[n] \in Nat /\ b[n] \in Nat
      BY DEF Numbers
<1>4. m < n \/ n < m \/ m = n
      OBVIOUS
<1> QED BY <1>1, <1>2, <1>3, <1>4

\* Lists that agree from k on, the first of which has the least values below.
LEMMA NotAboveFloor ==
  ASSUME NEW a \in Numbers, NEW b \in Numbers, NEW k \in 1 .. 7, Same(a, b, k),
         \A i \in 1 .. k - 1 : a[i] <= b[i]
  PROVE  ~Above(a, b, 1)
<1> SUFFICES ASSUME Above(a, b, 1) PROVE FALSE
    OBVIOUS
<1>1. PICK m \in 1 .. 6 : a[m] > b[m]
      BY DEF Above
<1>2. a[m] \in Nat /\ b[m] \in Nat
      BY DEF Numbers
<1> QED BY <1>1, <1>2 DEF Same

LEMMA AboveOrSame ==
  ASSUME NEW a \in Numbers, NEW b \in Numbers, NEW k \in 1 .. 7
  PROVE  Above(a, b, k) \/ Above(b, a, k) \/ Same(a, b, k)
<1>1. \A i \in 1 .. 6 : a[i] \in Nat /\ b[i] \in Nat
      BY DEF Numbers
<1>2. ASSUME NEW j \in k .. 6, a[j] # b[j], Same(a, b, j + 1)
      PROVE  Above(a, b, k) \/ Above(b, a, k)
      BY <1>1, <1>2 DEF Above, Same
<1> SUFFICES ASSUME ~Above(a, b, k), ~Above(b, a, k) PROVE Same(a, b, k)
    OBVIOUS
<1>3. \A j \in k .. 6 : Same(a, b, j + 1) => a[j] = b[j]
      BY <1>2
<1>4. Same(a, b, 7)
      BY DEF Same
<1>5. k <= 6 => Same(a, b, 6)
      BY <1>3, <1>4 DEF Same
<1>6. k <= 5 => Same(a, b, 5)
      BY <1>3, <1>5 DEF Same
<1>7. k <= 4 => Same(a, b, 4)
      BY <1>3, <1>6 DEF Same
<1>8. k <= 3 => Same(a, b, 3)
      BY <1>3, <1>7 DEF Same
<1>9. k <= 2 => Same(a, b, 2)
      BY <1>3, <1>8 DEF Same
<1>10. k <= 1 => Same(a, b, 1)
      BY <1>3, <1>9 DEF Same
<1> QED BY <1>4, <1>5, <1>6, <1>7, <1>8, <1>9, <1>10

LEMMA AboveTransitive ==
  ASSUME NEW a \in Numbers, NEW b \in Numbers, NEW c \in Numbers, NEW k \in 1 .. 6,
         Above(a, b, k), Above(b, c, k)
  PROVE  Above(a, c, k)
<1>1. PICK m \in k .. 6 : a[m] > b[m] /\ \A i \in m + 1 .. 6 : a[i] = b[i]
      BY DEF Above
<1>2. PICK n \in k .. 6 : b[n] > c[n] /\ \A i \in n + 1 .. 6 : b[i] = c[i]
      BY DEF Above
<1>3. \A i \in 1 .. 6 : a[i] \in Nat /\ b[i] \in Nat /\ c[i] \in Nat
      BY DEF Numbers
<1>4. CASE m <= n
  <2>1. a[n] > c[n] /\ \A i \in n + 1 .. 6 : a[i] = c[i]
        BY <1>1, <1>2, <1>3, <1>4
  <2> QED BY <2>1 DEF Above
<1>5. CASE n < m
  <2>1. a[m] > c[m] /\ \A i \in m + 1 .. 6 : a[i] = c[i]
        BY <1>1, <1>2, <1>3, <1>5
  <2> QED BY <2>1 DEF Above
<1> QED BY <1>4, <1>5

\* a is the next list after b from its component k on, as far as c shows.
NextFor(a, b, c, k) == Above(a, b, k) /\ (Above(c, b, k) => ~Above(a, c, k))

LEMMA NextLifts ==
  ASSUME NEW a \in Numbers, NEW b \in Numbers, NEW c \in Numbers, NEW k \in 1 .. 5,
         NextFor(a, b, c, k + 1), Same(c, b, k + 1) => c[k] <= b[k], a[k] <= c[k]
  PROVE  NextFor(a, b, c, k)
<1>1. \A i \in 1 .. 6 : a[i] \in Nat /\ b[i] \in Nat /\ c[i] \in Nat
      BY DEF Numbers
<1>2. Above(a, b, k)
      BY AboveLower DEF NextFor
<1>3. ASSUME Above(c, b, k) PROVE ~Above(a, c, k)
  <2>1. Above(c, b, k + 1)
        BY <1>1, <1>3, AboveSplits
  <2>2. ~Above(a, c, k + 1)
        BY <2>1 DEF NextFor
  <2> QED BY <1>1, <2>2, AboveSplits
<1> QED BY <1>2, <1>3 DEF NextFor

LEMMA NextAt ==
  ASSUME NEW a \in Numbers, NEW b \in Numbers, NEW c \in Numbers, NEW k \in 1 .. 6,
         a[k] = b[k] + 1, Same(a, b, k + 1)
  PROVE  NextFor(a, b, c, k)
<1>1. \A i \in 1 .. 6 : a[i] \in Nat /\ b[i] \in Nat /\ c[i] \in Nat
      BY DEF Numbers
<1>2. Above(a, b, k)
      BY <1>1, AboveAt
<1>3. ASSUME Above(c, b, k), Above(a, c, k) PROVE FALSE
  <2>1. CASE Above(c, b, k + 1)
    <3>1. Above(c, a, k + 1)
          BY <2>1 DEF Above, Same
    <3> QED BY <1>3, <3>1, NotAboveBoth
  <2>2. CASE Same(c, b, k + 1) /\ c[k] > b[k]
    <3>1. Same(a, c, k + 1)
          BY <2>2 DEF Same
    <3>2. ~(a[k] > c[k])
          BY <1>1, <2>2
    <3>3. Above(a, c, k + 1)
          BY <1>3, <3>2, AboveSplits
    <3> QED BY <1>1, <3>1, <3>3 DEF Above, Same
  <2> QED BY <1>3, <2>1, <2>2, AboveSplits
<1> QED BY <1>2, <1>3 DEF NextFor

\* A component is raised to the first possible value.
LEMMA Raised ==
  ASSUME NEW t \in Numbers, NEW u \in Numbers, NEW x \in Numbers, NEW k \in 1 .. 6,
         Same(u, t, k + 1), u[k] > t[k], \A i \in 1 .. k - 1 : u[i] <= x[i],
         Same(x, t, k + 1) /\ t[k] <= x[k] => u[k] <= x[k], ~Above(t, x, 1)
  PROVE  ~Above(u, x, 1)
<1>1. \A i \in 1 .. 6 : t[i] \in Nat /\ u[i] \in Nat /\ x[i] \in Nat
      BY DEF Numbers
<1>2. CASE Above(x, t, k + 1)
  <2>1. Above(x, u, k + 1)
        BY <1>2 DEF Above, Same
  <2> QED BY <2>1, NotAboveBoth
<1>3. CASE Above(t, x, k + 1)
  <2>1. Above(t, x, 1)
        BY <1>3 DEF Above
  <2> QED BY <2>1
<1>4. CASE Same(x, t, k + 1)
  <2>1. t[k] <= x[k]
    <3>1. ~(t[k] > x[k])
      <4>1. SUFFICES ASSUME t[k] > x[k] PROVE FALSE
            OBVIOUS
      <4>2. Above(t, x, 1)
            BY <1>4, <4>1 DEF Above, Same
      <4> QED BY <4>2
    <3> QED BY <1>1, <3>1
  <2>2. u[k] <= x[k]
        BY <1>4, <2>1
  <2>3. Same(u, x, k + 1)
        BY <1>4 DEF Same
  <2>4. \A i \in 1 .. k : u[i] <= x[i]
        BY <2>2
  <2> QED BY <2>3, <2>4, NotAboveFloor
<1> QED BY <1>2, <1>3, <1>4, AboveOrSame

\* The component above has the next value.
LEMMA RolledOver ==
  ASSUME NEW t \in Numbers, NEW u \in Numbers, NEW x \in Numbers, NEW k \in 1 .. 5,
         NextFor(u, t, x, k + 1), Same(u, x, k + 1) => \A i \in 1 .. k : u[i] <= x[i],
         Same(x, t, k + 1) => ~(t[k] <= x[k]), ~Above(t, x, 1)
  PROVE  ~Above(u, x, 1)
<1>1. \A i \in 1 .. 6 : t[i] \in Nat /\ u[i] \in Nat /\ x[i] \in Nat
      BY DEF Numbers
<1>2. CASE Above(t, x, k + 1)
  <2>1. Above(t, x, 1)
        BY <1>2 DEF Above
  <2> QED BY <2>1
<1>3. CASE Same(x, t, k + 1)
  <2>1. t[k] > x[k]
        BY <1>1, <1>3
  <2>2. Above(t, x, 1)
        BY <1>3, <2>1 DEF Above, Same
  <2> QED BY <2>2
<1>4. CASE Above(x, t, k + 1)
  <2>1. ~Above(u, x, k + 1)
        BY <1>4 DEF NextFor
  <2>2. CASE Above(x, u, k + 1)
        BY <2>2, NotAboveBoth
  <2>3. CASE Same(u, x, k + 1)
        BY <2>3, NotAboveFloor
  <2> QED BY <2>1, <2>2, <2>3, AboveOrSame
<1> QED BY <1>2, <1>3, <1>4, AboveOrSame

-----------------------------------------------------------------------------
(* One component of a date is taken to its next possible value. *)

Digits(t) == [i \in 1 .. 6 |-> t[Units[i]]]

LEMMA AfterIs ==
  ASSUME NEW t, NEW u PROVE After(t, u) <=> Above(Digits(t), Digits(u), 1)
BY DEF After, Above, Digits

AreDigits(a, s, m, h, d, mo, y) ==
  a \in Numbers /\ a[1] = s /\ a[2] = m /\ a[3] = h /\ a[4] = d /\ a[5] = mo /\ a[6] = y

LEMMA DigitsOf ==
  ASSUME NEW s \in Nat, NEW m \in Nat, NEW h \in Nat, NEW d \in Nat, NEW mo \in Nat, NEW y \in Nat
  PROVE  AreDigits(Digits(Moment(s, m, h, d, mo, y)), s, m, h, d, mo, y)
<1> DEFINE t == Moment(s, m, h, d, mo, y)
           a == Digits(t)
<1>1. /\ t["second"] = s /\ t["minute"] = m /\ t["hour"] = h /\ t["day"] = d
      /\ t["month"] = mo /\ t["year"] = y
      BY DEF Moment
<1> HIDE DEF t
<1>2. /\ Units[1] = "second" /\ Units[2] = "minute" /\ Units[3] = "hour" /\ Units[4] = "day"
      /\ Units[5] = "month" /\ Units[6] = "year"
      BY DEF Units
<1>3. a[1] = s /\ a[2] = m /\ a[3] = h /\ a[4] = d /\ a[5] = mo /\ a[6] = y
      BY <1>1, <1>2 DEF Digits
<1>4. \A i \in 1 .. 6 : a[i] \in Nat
  <2>1. ASSUME NEW i \in 1 .. 6 PROVE i = 1 \/ i = 2 \/ i = 3 \/ i = 4 \/ i = 5 \/ i = 6
        OBVIOUS
  <2> HIDE DEF a
  <2> QED BY <1>3, <2>1
<1>5. a \in Numbers
      BY <1>4 DEF Digits, Numbers
<1> QED BY <1>3, <1>5 DEF t, AreDigits

\* The moments that are looked for
FitsIn(p, x) ==
  /\ x \in Moments
  /\ x.second \in p.second /\ x.minute \in p.minute /\ x.hour \in p.hour
  /\ x.day \in p.day /\ x.month \in p.month
  /\ x.day < DaysOfMonth(x.year, x.month)

\* From t to u nothing is lost.
Step(p, t, u) ==
  /\ u = t \/ After(u, t)
  /\ \A x : FitsIn(p, x) /\ ~After(t, x) => ~After(u, x)

LEMMA MomentNumbers ==
  ASSUME NEW t \in Moments PROVE Digits(t) \in Numbers
<1>1. PICK s \in 0 .. SecondMax, m \in 0 .. MinuteMax, h \in 0 .. HourMax, d \in 1 .. Longest,
          mo \in 1 .. MonthMax, y \in Nat :
        t = Moment(s, m, h, d, mo, y) /\ d <= DaysOfMonth(y, mo)
      BY MomentsAre
<1>2. /\ s \in Nat /\ m \in Nat /\ h \in Nat /\ d \in Nat /\ mo \in Nat
      OBVIOUS
<1>3. AreDigits(Digits(t), s, m, h, d, mo, y)
      BY <1>1, <1>2, DigitsOf
<1> QED BY <1>3 DEF AreDigits

\* The values of a fitting moment are not below the first possible ones.
LEMMA FitsAbove ==
  ASSUME NEW p \in Pattern, NEW x, FitsIn(p, x)
  PROVE  /\ Digits(x) \in Numbers
         /\ \A i \in 1 .. 5 : Digits(x)[i] \in p[Units[i]] /\ Min(p[Units[i]]) <= Digits(x)[i]
<1>1. Digits(x) \in Numbers
      BY MomentNumbers DEF FitsIn
<1>2. ASSUME NEW i \in 1 .. 5 PROVE Digits(x)[i] \in p[Units[i]] /\ Min(p[Units[i]]) <= Digits(x)[i]
  <2>1. Digits(x)[i] = x[Units[i]]
        BY DEF Digits
  <2>2. x[Units[i]] \in p[Units[i]] /\ p[Units[i]] \in SUBSET Nat
    <3>1. i = 1 \/ i = 2 \/ i = 3 \/ i = 4 \/ i = 5
          OBVIOUS
    <3>2. CASE i = 1
      <4>1. Units[i] = "second"
            BY <3>2 DEF Units
      <4> QED BY <4>1, PatternOf DEF FitsIn
    <3>3. CASE i = 2
      <4>1. Units[i] = "minute"
            BY <3>3 DEF Units
      <4> QED BY <4>1, PatternOf DEF FitsIn
    <3>4. CASE i = 3
      <4>1. Units[i] = "hour"
            BY <3>4 DEF Units
      <4> QED BY <4>1, PatternOf DEF FitsIn
    <3>5. CASE i = 4
      <4>1. Units[i] = "day"
            BY <3>5 DEF Units
      <4> QED BY <4>1, PatternOf, LongestOf DEF FitsIn
    <3>6. CASE i = 5
      <4>1. Units[i] = "month"
            BY <3>6 DEF Units
      <4> QED BY <4>1, PatternOf, Calendar DEF FitsIn
    <3> QED BY <3>1, <3>2, <3>3, <3>4, <3>5, <3>6
  <2>3. Min(p[Units[i]]) <= x[Units[i]]
        BY <2>2, MinOf
  <2> QED BY <2>1, <2>2, <2>3
<1> QED BY <1>1, <1>2

LEMMA StepsCompose ==
  ASSUME NEW p \in Pattern, NEW t, NEW u, NEW w, Step(p, t, u), Step(p, u, w),
         Digits(t) \in Numbers, Digits(u) \in Numbers, Digits(w) \in Numbers
  PROVE  Step(p, t, w)
<1>1. ASSUME After(u, t), After(w, u) PROVE After(w, t)
  <2>1. PICK k \in 1 .. 6 : k = 1
        OBVIOUS
  <2>2. Above(Digits(u), Digits(t), k) /\ Above(Digits(w), Digits(u), k)
        BY <1>1, <2>1, AfterIs
  <2>3. Above(Digits(w), Digits(t), k)
        BY <2>2, AboveTransitive
  <2> QED BY <2>1, <2>3, AfterIs
<1> QED BY <1>1, Zenon DEF Step

\* a is b with its first k components at the first possible values.
Reset(p, a, b, k) ==
  /\ a \in Numbers
  /\ \A i \in 1 .. k : a[i] = Min(p[Units[i]])
  /\ \A i \in k + 1 .. 6 : a[i] = b[i]

LEMMA FirstDigits ==
  ASSUME NEW p \in Pattern, NEW k \in 0 .. 4,
         NEW s \in Nat, NEW m \in Nat, NEW h \in Nat, NEW d \in Nat, NEW mo \in Nat, NEW y \in Nat
  PROVE  Reset(p, Digits(FirstPossibleValues(p, Moment(s, m, h, d, mo, y), k)),
               Digits(Moment(s, m, h, d, mo, y)), k)
<1> DEFINE t == Moment(s, m, h, d, mo, y)
           f == FirstPossibleValues(p, t, k)
           s1 == IF k >= 1 THEN Min(p.second) ELSE s
           m1 == IF k >= 2 THEN Min(p.minute) ELSE m
           h1 == IF k >= 3 THEN Min(p.hour) ELSE h
           d1 == IF k >= 4 THEN Min(p.day) ELSE d
<1>1. f = Moment(s1, m1, h1, d1, mo, y)
      BY FirstOf
<1>2. s1 \in Nat /\ m1 \in Nat /\ h1 \in Nat /\ d1 \in Nat
  <2>1. /\ p.second \in SUBSET Nat /\ p.second # {} /\ p.minute \in SUBSET Nat /\ p.minute # {}
        /\ p.hour \in SUBSET Nat /\ p.hour # {} /\ p.day \in SUBSET Nat /\ p.day # {}
        BY PatternOf, Calendar, LongestOf
  <2>2. Min(p.second) \in Nat /\ Min(p.minute) \in Nat /\ Min(p.hour) \in Nat /\ Min(p.day) \in Nat
        BY <2>1, MinOf
  <2> QED BY <2>2
<1> HIDE DEF f, s1, m1, h1, d1
<1>3. AreDigits(Digits(f), s1, m1, h1, d1, mo, y)
      BY <1>1, <1>2, DigitsOf
<1>4. AreDigits(Digits(t), s, m, h, d, mo, y)
      BY DigitsOf
<1> HIDE DEF t
<1> USE DEF s1, m1, h1, d1
<1>5. /\ Units[1] = "second" /\ Units[2] = "minute" /\ Units[3] = "hour" /\ Units[4] = "day"
      BY DEF Units
<1>6. ASSUME NEW i \in 1 .. 6
      PROVE  Digits(f)[i] = IF i <= k THEN Min(p[Units[i]]) ELSE Digits(t)[i]
  <2>1. i = 1 \/ i = 2 \/ i = 3 \/ i = 4 \/ i = 5 \/ i = 6
        OBVIOUS
  <2> QED BY <1>3, <1>4, <1>5, <2>1 DEF AreDigits
<1>7. \A i \in 1 .. k : Digits(f)[i] = Min(p[Units[i]])
      BY <1>6
<1>8. \A i \in k + 1 .. 6 : Digits(f)[i] = Digits(t)[i]
      BY <1>6
<1> QED BY <1>3, <1>7, <1>8 DEF f, t, AreDigits, Reset

\* Components that are numbers
Listed(t) == \E s, m, h, d, mo, y \in Nat : t = Moment(s, m, h, d, mo, y)

LEMMA MomentsListed == ASSUME NEW t \in Moments PROVE Listed(t)
<1>1. PICK s \in 0 .. SecondMax, m \in 0 .. MinuteMax, h \in 0 .. HourMax, d \in 1 .. Longest,
          mo \in 1 .. MonthMax, y \in Nat :
        t = Moment(s, m, h, d, mo, y) /\ d <= DaysOfMonth(y, mo)
      BY MomentsAre
<1> QED BY <1>1 DEF Listed

LEMMA FirstListed ==
  ASSUME NEW p \in Pattern, NEW k \in 0 .. 4, NEW t, Listed(t)
  PROVE  Reset(p, Digits(FirstPossibleValues(p, t, k)), Digits(t), k) /\ Digits(t) \in Numbers
<1>1. PICK s, m, h, d, mo, y \in Nat : t = Moment(s, m, h, d, mo, y)
      BY DEF Listed
<1>2. Reset(p, Digits(FirstPossibleValues(p, Moment(s, m, h, d, mo, y), k)),
            Digits(Moment(s, m, h, d, mo, y)), k)
      BY FirstDigits
<1>3. AreDigits(Digits(Moment(s, m, h, d, mo, y)), s, m, h, d, mo, y)
      BY DigitsOf
<1> QED BY <1>1, <1>2, <1>3 DEF AreDigits

\* One component advances from t: the next possible value is chosen, or above
\* the component is the next value of the ones above it.
Advancing(p, k, t, limit, chosen, carried, v, r) ==
  /\ Listed(chosen)
  /\ \A i \in 1 .. 6 : Digits(chosen)[i] = IF i = k THEN v ELSE Digits(t)[i]
  /\ v = t[Units[k]] => chosen = t
  /\ \A x : FitsIn(p, x) /\ Same(Digits(x), Digits(t), k + 1) => Digits(x)[k] < limit
  /\ r => /\ carried \in Moments /\ Above(Digits(carried), Digits(t), k + 1)
          /\ \A x : FitsIn(p, x) =>
               /\ NextFor(Digits(carried), Digits(t), Digits(x), k + 1)
               /\ Same(Digits(carried), Digits(x), k + 1) => Digits(carried)[k] <= Digits(x)[k]

LEMMA AdvancedStep ==
  ASSUME NEW p \in Pattern, NEW k \in 1 .. 5, NEW t \in Moments, NEW limit, NEW v, NEW r, NEW c,
         NEW chosen, NEW above,
         Possible(p[Units[k]], t[Units[k]], limit, v, r, c),
         Advancing(p, k, t, limit, chosen, Carry(above), v, r)
  PROVE  Step(p, t, Advanced(p, k, r, c, chosen, above))
<1>1. Digits(t)[k] = t[Units[k]] /\ Digits(t) \in Numbers
      BY MomentNumbers DEF Digits
<1>2. k - 1 \in 0 .. 4 /\ k + 1 \in 1 .. 6
      OBVIOUS
<1>3. PICK one \in 1 .. 6 : one = 1
      OBVIOUS
<1>4. CASE r
  <2> DEFINE w == Carry(above)
             u == FirstPossibleValues(p, w, k - 1)
  <2>1. /\ w \in Moments /\ Above(Digits(w), Digits(t), k + 1)
        /\ \A x : FitsIn(p, x) =>
             /\ NextFor(Digits(w), Digits(t), Digits(x), k + 1)
             /\ Same(Digits(w), Digits(x), k + 1) => Digits(w)[k] <= Digits(x)[k]
        BY <1>4 DEF Advancing
  <2>2. Advanced(p, k, r, c, chosen, above) = u
        BY <1>4 DEF Advanced
  <2> HIDE DEF w
  <2>3. Reset(p, Digits(u), Digits(w), k - 1)
        BY <1>2, <2>1, FirstListed, MomentsListed
  <2> HIDE DEF u
  <2>4. /\ Digits(u) \in Numbers /\ Digits(w) \in Numbers /\ Digits(u)[k] = Digits(w)[k]
        /\ Same(Digits(u), Digits(w), k + 1)
        /\ \A i \in 1 .. k - 1 : Digits(u)[i] = Min(p[Units[i]])
        BY <2>1, <2>3, MomentNumbers DEF Reset, Same
  <2>5. Above(Digits(u), Digits(t), k + 1)
        BY <2>1, <2>4 DEF Above, Same
  <2>6. Above(Digits(u), Digits(t), one)
        BY <1>2, <1>3, <2>5 DEF Above
  <2>7. ASSUME NEW x, FitsIn(p, x), ~After(t, x) PROVE ~After(u, x)
    <3>1. /\ NextFor(Digits(w), Digits(t), Digits(x), k + 1)
          /\ Same(Digits(w), Digits(x), k + 1) => Digits(w)[k] <= Digits(x)[k]
          BY <2>1, <2>7
    <3>2. NextFor(Digits(u), Digits(t), Digits(x), k + 1)
          BY <2>4, <3>1 DEF NextFor, Above, Same
    <3>3. /\ Digits(x) \in Numbers
          /\ \A i \in 1 .. 5 : Digits(x)[i] \in p[Units[i]] /\ Min(p[Units[i]]) <= Digits(x)[i]
          BY <2>7, FitsAbove
    <3>4. ASSUME Same(Digits(u), Digits(x), k + 1), NEW i \in 1 .. k PROVE Digits(u)[i] <= Digits(x)[i]
      <4>1. CASE i = k
        <5>1. Same(Digits(w), Digits(x), k + 1)
              BY <2>4, <3>4 DEF Same
        <5> QED BY <2>4, <3>1, <4>1, <5>1
      <4>2. CASE i # k
            BY <2>4, <3>3, <4>2
      <4> QED BY <4>1, <4>2
    <3>5. Same(Digits(x), Digits(t), k + 1) => ~(Digits(t)[k] <= Digits(x)[k])
      <4>1. Digits(x)[k] \in p[Units[k]]
            BY <3>3
      <4>2. ~(t[Units[k]] <= Digits(x)[k] /\ Digits(x)[k] < limit)
            BY <1>4, <4>1 DEF Possible
      <4>3. Same(Digits(x), Digits(t), k + 1) => Digits(x)[k] < limit
            BY <2>7 DEF Advancing
      <4> QED BY <1>1, <4>2, <4>3
    <3>6. ~Above(Digits(t), Digits(x), 1)
          BY <2>7, AfterIs
    <3>7. ~Above(Digits(u), Digits(x), 1)
          BY <1>1, <2>4, <3>2, <3>3, <3>4, <3>5, <3>6, RolledOver
    <3> QED BY <3>7, AfterIs
  <2> QED BY <1>3, <2>2, <2>6, <2>7, AfterIs DEF Step
<1>5. CASE ~r /\ c
  <2> DEFINE u == FirstPossibleValues(p, chosen, k - 1)
  <2>1. Advanced(p, k, r, c, chosen, above) = u
        BY <1>5 DEF Advanced
  <2>2. Reset(p, Digits(u), Digits(chosen), k - 1)
        BY <1>2, FirstListed DEF Advancing
  <2> HIDE DEF u
  <2>3. /\ Digits(u) \in Numbers /\ Digits(u)[k] = v
        /\ Same(Digits(u), Digits(t), k + 1)
        /\ \A i \in 1 .. k - 1 : Digits(u)[i] = Min(p[Units[i]])
        BY <2>2 DEF Reset, Same, Advancing
  <2>4. Digits(u)[k] > Digits(t)[k]
    <3>1. t[Units[k]] <= v /\ v # t[Units[k]]
          BY <1>5 DEF Possible
    <3>2. Digits(u)[k] \in Nat /\ Digits(t)[k] \in Nat
          BY <1>1, <2>3 DEF Numbers
    <3> QED BY <1>1, <2>3, <3>1, <3>2
  <2>5. Above(Digits(u), Digits(t), one)
        BY <1>2, <1>3, <2>3, <2>4 DEF Above, Same
  <2>6. ASSUME NEW x, FitsIn(p, x), ~After(t, x) PROVE ~After(u, x)
    <3>1. /\ Digits(x) \in Numbers
          /\ \A i \in 1 .. 5 : Digits(x)[i] \in p[Units[i]] /\ Min(p[Units[i]]) <= Digits(x)[i]
          BY <2>6, FitsAbove
    <3>2. \A i \in 1 .. k - 1 : Digits(u)[i] <= Digits(x)[i]
          BY <2>3, <3>1
    <3>3. Same(Digits(x), Digits(t), k + 1) /\ Digits(t)[k] <= Digits(x)[k] => Digits(u)[k] <= Digits(x)[k]
      <4>1. Digits(x)[k] \in p[Units[k]]
            BY <3>1
      <4>2. t[Units[k]] <= Digits(x)[k] /\ Digits(x)[k] < limit => v <= Digits(x)[k]
            BY <1>5, <4>1 DEF Possible
      <4>3. Same(Digits(x), Digits(t), k + 1) => Digits(x)[k] < limit
            BY <2>6 DEF Advancing
      <4> QED BY <1>1, <2>3, <4>2, <4>3
    <3>4. ~Above(Digits(t), Digits(x), 1)
          BY <2>6, AfterIs
    <3>5. ~Above(Digits(u), Digits(x), 1)
          BY <1>1, <2>3, <2>4, <3>1, <3>2, <3>3, <3>4, Raised
    <3> QED BY <3>5, AfterIs
  <2> QED BY <1>3, <2>1, <2>5, <2>6, AfterIs DEF Step
<1>6. CASE ~r /\ ~c
  <2>1. Advanced(p, k, r, c, chosen, above) = chosen
        BY <1>6 DEF Advanced
  <2>2. chosen = t
        BY <1>6 DEF Possible, Advancing
  <2> QED BY <2>1, <2>2 DEF Step
<1> QED BY <1>4, <1>5, <1>6

-----------------------------------------------------------------------------
(* Carrying yields the next value of the components above. *)

CarrySecond(t) == IF t.second > SecondMax THEN [t EXCEPT !.second = 0, !.minute = @ + 1] ELSE t
CarryMinute(t) == IF t.minute > MinuteMax THEN [t EXCEPT !.minute = 0, !.hour = @ + 1] ELSE t
CarryHour(t) == IF t.hour > HourMax THEN [t EXCEPT !.hour = 0, !.day = @ + 1] ELSE t
CarryDay(t) ==
  IF t.day > DaysOfMonth(t.year, t.month) THEN [t EXCEPT !.day = 1, !.month = @ + 1] ELSE t
CarryMonth(t) == IF t.month > MonthMax THEN [t EXCEPT !.month = 1, !.year = @ + 1] ELSE t

LEMMA CarryParts ==
  ASSUME NEW t
  PROVE  Carry(t) = CarryMonth(CarryDay(CarryHour(CarryMinute(CarrySecond(t)))))
BY DEF Carry, CarrySecond, CarryMinute, CarryHour, CarryDay, CarryMonth

LEMMA SecondInRange ==
  ASSUME NEW s, NEW m, NEW h, NEW d, NEW mo, NEW y, s \in Nat, s <= SecondMax
  PROVE  CarrySecond(Moment(s, m, h, d, mo, y)) = Moment(s, m, h, d, mo, y)
<1>1. Moment(s, m, h, d, mo, y).second = s
      BY DEF Moment
<1> QED BY <1>1, Calendar DEF CarrySecond

LEMMA MinuteInRange ==
  ASSUME NEW s, NEW m, NEW h, NEW d, NEW mo, NEW y, m \in Nat, m <= MinuteMax
  PROVE  CarryMinute(Moment(s, m, h, d, mo, y)) = Moment(s, m, h, d, mo, y)
<1>1. Moment(s, m, h, d, mo, y).minute = m
      BY DEF Moment
<1> QED BY <1>1, Calendar DEF CarryMinute

LEMMA HourInRange ==
  ASSUME NEW s, NEW m, NEW h, NEW d, NEW mo, NEW y, h \in Nat, h <= HourMax
  PROVE  CarryHour(Moment(s, m, h, d, mo, y)) = Moment(s, m, h, d, mo, y)
<1>1. Moment(s, m, h, d, mo, y).hour = h
      BY DEF Moment
<1> QED BY <1>1, Calendar DEF CarryHour

LEMMA MonthInRange ==
  ASSUME NEW s, NEW m, NEW h, NEW d, NEW mo, NEW y, mo \in Nat, mo <= MonthMax
  PROVE  CarryMonth(Moment(s, m, h, d, mo, y)) = Moment(s, m, h, d, mo, y)
<1>1. Moment(s, m, h, d, mo, y).month = mo
      BY DEF Moment
<1> QED BY <1>1, Calendar DEF CarryMonth

LEMMA SecondUp ==
  ASSUME NEW s, NEW m \in Nat, NEW h, NEW d, NEW mo, NEW y, s > SecondMax,
         NEW z, z = 0
  PROVE  Carry(Moment(s, m, h, d, mo, y)) = Carry(Moment(z, m + 1, h, d, mo, y))
<1>1. CarrySecond(Moment(s, m, h, d, mo, y)) = Moment(z, m + 1, h, d, mo, y)
      BY DEF CarrySecond, Moment
<1>2. PICK n \in Nat : n = m + 1
      OBVIOUS
<1>3. z \in Nat /\ z <= SecondMax
      BY Calendar
<1>4. CarrySecond(Moment(z, n, h, d, mo, y)) = Moment(z, n, h, d, mo, y)
      BY <1>3, SecondInRange
<1> QED BY <1>1, <1>2, <1>4, CarryParts

LEMMA MinuteUp ==
  ASSUME NEW s \in 0 .. SecondMax, NEW m \in Nat, NEW h \in Nat, NEW d \in Nat, NEW mo \in Nat,
         NEW y \in Nat, m > MinuteMax
  PROVE  Carry(Moment(s, m, h, d, mo, y)) = Carry(Moment(s, 0, h + 1, d, mo, y))
<1>1. CarryMinute(Moment(s, m, h, d, mo, y)) = Moment(s, 0, h + 1, d, mo, y)
      BY DEF CarryMinute, Moment
<1>2. PICK z \in Nat : z = 0
      OBVIOUS
<1>3. PICK n \in Nat : n = h + 1
      OBVIOUS
<1>4. z <= MinuteMax /\ s \in Nat /\ s <= SecondMax
      BY <1>2, Calendar
<1>5. /\ CarrySecond(Moment(s, m, h, d, mo, y)) = Moment(s, m, h, d, mo, y)
      /\ CarrySecond(Moment(s, z, n, d, mo, y)) = Moment(s, z, n, d, mo, y)
      /\ CarryMinute(Moment(s, z, n, d, mo, y)) = Moment(s, z, n, d, mo, y)
      BY <1>4, SecondInRange, MinuteInRange
<1> QED BY <1>1, <1>2, <1>3, <1>5, CarryParts

LEMMA HourUp ==
  ASSUME NEW s \in 0 .. SecondMax, NEW m \in 0 .. MinuteMax, NEW h \in Nat, NEW d \in Nat,
         NEW mo \in Nat, NEW y \in Nat, h > HourMax
  PROVE  Carry(Moment(s, m, h, d, mo, y)) = Carry(Moment(s, m, 0, d + 1, mo, y))
<1>1. CarryHour(Moment(s, m, h, d, mo, y)) = Moment(s, m, 0, d + 1, mo, y)
      BY DEF CarryHour, Moment
<1>2. PICK z \in Nat : z = 0
      OBVIOUS
<1>3. PICK n \in Nat : n = d + 1
      OBVIOUS
<1>4. z <= HourMax /\ s \in Nat /\ s <= SecondMax /\ m \in Nat /\ m <= MinuteMax
      BY <1>2, Calendar
<1>5. /\ CarrySecond(Moment(s, m, h, d, mo, y)) = Moment(s, m, h, d, mo, y)
      /\ CarryMinute(Moment(s, m, h, d, mo, y)) = Moment(s, m, h, d, mo, y)
      /\ CarrySecond(Moment(s, m, z, n, mo, y)) = Moment(s, m, z, n, mo, y)
      /\ CarryMinute(Moment(s, m, z, n, mo, y)) = Moment(s, m, z, n, mo, y)
      /\ CarryHour(Moment(s, m, z, n, mo, y)) = Moment(s, m, z, n, mo, y)
      BY <1>4, SecondInRange, MinuteInRange, HourInRange
<1> QED BY <1>1, <1>2, <1>3, <1>5, CarryParts

\* The first day of the month after the one mo of year y
MonthAfter(s, m, h, mo, y) ==
  IF mo < MonthMax THEN Moment(s, m, h, 1, mo + 1, y) ELSE Moment(s, m, h, 1, 1, y + 1)

LEMMA DayUp ==
  ASSUME NEW s \in 0 .. SecondMax, NEW m \in 0 .. MinuteMax, NEW h \in 0 .. HourMax,
         NEW d \in Nat, NEW mo \in 1 .. MonthMax, NEW y \in Nat, d > DaysOfMonth(y, mo)
  PROVE  Carry(Moment(s, m, h, d, mo, y)) = MonthAfter(s, m, h, mo, y)
<1> DEFINE t == Moment(s, m, h, d, mo, y)
<1>1. CarryDay(t) = Moment(s, m, h, 1, mo + 1, y)
      BY DEF CarryDay, Moment
<1>2. /\ s \in Nat /\ s <= SecondMax /\ m \in Nat /\ m <= MinuteMax /\ h \in Nat /\ h <= HourMax
      /\ mo \in Nat /\ mo + 1 \in Nat /\ mo <= MonthMax
      BY Calendar
<1>3. CarrySecond(t) = t /\ CarryMinute(t) = t /\ CarryHour(t) = t
      BY <1>2, SecondInRange, MinuteInRange, HourInRange
<1>4. Carry(t) = CarryMonth(Moment(s, m, h, 1, mo + 1, y))
      BY <1>1, <1>3, CarryParts
<1>5. CASE mo < MonthMax
  <2>1. PICK z \in Nat : z = 1
        OBVIOUS
  <2>2. PICK n \in Nat : n = mo + 1 /\ n <= MonthMax
        BY <1>2, <1>5, Calendar
  <2>3. CarryMonth(Moment(s, m, h, z, n, y)) = Moment(s, m, h, z, n, y)
        BY <1>2, <2>2, MonthInRange
  <2> QED BY <1>4, <1>5, <2>1, <2>2, <2>3 DEF MonthAfter
<1>6. CASE ~(mo < MonthMax)
  <2>1. mo + 1 > MonthMax
        BY <1>6, Calendar
  <2>2. CarryMonth(Moment(s, m, h, 1, mo + 1, y)) = Moment(s, m, h, 1, 1, y + 1)
        BY <2>1 DEF CarryMonth, Moment
  <2> QED BY <1>4, <1>6, <2>2 DEF MonthAfter
<1> QED BY <1>5, <1>6

\* No moment of the calendar lies between w and t, from component k on.
IsNext(w, t, k) ==
  /\ w \in Moments /\ Above(Digits(w), Digits(t), k)
  /\ \A x \in Moments : NextFor(Digits(w), Digits(t), Digits(x), k)

LEMMA InMoment ==
  ASSUME NEW x \in Moments
  PROVE  /\ Digits(x) \in Numbers
         /\ Digits(x)[1] \in 0 .. SecondMax /\ Digits(x)[2] \in 0 .. MinuteMax
         /\ Digits(x)[3] \in 0 .. HourMax /\ Digits(x)[4] \in Nat \ {0}
         /\ Digits(x)[5] \in 1 .. MonthMax /\ Digits(x)[6] \in Nat
         /\ Digits(x)[4] <= DaysOfMonth(Digits(x)[6], Digits(x)[5])
<1>1. PICK s \in 0 .. SecondMax, m \in 0 .. MinuteMax, h \in 0 .. HourMax, d \in 1 .. Longest,
          mo \in 1 .. MonthMax, y \in Nat :
        x = Moment(s, m, h, d, mo, y) /\ d <= DaysOfMonth(y, mo)
      BY MomentsAre
<1>2. s \in Nat /\ m \in Nat /\ h \in Nat /\ d \in Nat /\ mo \in Nat
      OBVIOUS
<1>3. AreDigits(Digits(x), s, m, h, d, mo, y)
      BY <1>1, <1>2, DigitsOf
<1> QED BY <1>1, <1>3 DEF AreDigits

LEMMA NextByOne ==
  ASSUME NEW w \in Moments, NEW t \in Moments, NEW k \in 1 .. 6,
         Digits(w)[k] = Digits(t)[k] + 1, Same(Digits(w), Digits(t), k + 1)
  PROVE  IsNext(w, t, k)
<1>1. ASSUME NEW x \in Moments PROVE NextFor(Digits(w), Digits(t), Digits(x), k)
      BY MomentNumbers, NextAt
<1>2. NextFor(Digits(w), Digits(t), Digits(w), k)
      BY <1>1
<1> QED BY <1>1, <1>2 DEF IsNext, NextFor

LEMMA NextFromAbove ==
  ASSUME NEW w, NEW t \in Moments, NEW k \in 1 .. 5, IsNext(w, t, k + 1),
         \A x \in Moments : Same(Digits(x), Digits(t), k + 1) => Digits(x)[k] <= Digits(t)[k],
         \A x \in Moments : Digits(w)[k] <= Digits(x)[k]
  PROVE  IsNext(w, t, k)
<1>1. w \in Moments
      BY DEF IsNext
<1>2. ASSUME NEW x \in Moments PROVE NextFor(Digits(w), Digits(t), Digits(x), k)
  <2>1. NextFor(Digits(w), Digits(t), Digits(x), k + 1)
        BY DEF IsNext
  <2> QED BY <1>1, <2>1, MomentNumbers, NextLifts
<1>3. NextFor(Digits(w), Digits(t), Digits(w), k)
      BY <1>1, <1>2
<1> QED BY <1>1, <1>2, <1>3 DEF IsNext, NextFor

LEMMA NextMonth ==
  ASSUME NEW s \in 0 .. SecondMax, NEW m \in 0 .. MinuteMax, NEW h \in 0 .. HourMax,
         NEW t \in Moments, NEW mo, NEW y, mo = t.month, y = t.year
  PROVE  IsNext(MonthAfter(s, m, h, mo, y), t, 5) /\ MonthAfter(s, m, h, mo, y).day = 1
<1> DEFINE w == MonthAfter(s, m, h, mo, y)
<1>1. PICK s0 \in 0 .. SecondMax, m0 \in 0 .. MinuteMax, h0 \in 0 .. HourMax, d \in 1 .. Longest :
        t = Moment(s0, m0, h0, d, mo, y) /\ mo \in 1 .. MonthMax /\ y \in Nat
  <2>1. PICK s0 \in 0 .. SecondMax, m0 \in 0 .. MinuteMax, h0 \in 0 .. HourMax, d \in 1 .. Longest,
             mo1 \in 1 .. MonthMax, y1 \in Nat :
          t = Moment(s0, m0, h0, d, mo1, y1) /\ d <= DaysOfMonth(y1, mo1)
        BY MomentsAre
  <2>2. mo1 = mo /\ y1 = y
        BY <2>1 DEF Moment
  <2> QED BY <2>1, <2>2
<1>2. PICK one \in Nat : one = 1
      OBVIOUS
<1>3. /\ mo \in Nat /\ s \in Nat /\ m \in Nat /\ h \in Nat
      /\ s0 \in Nat /\ m0 \in Nat /\ h0 \in Nat /\ d \in Nat /\ y \in Nat
      BY <1>1
<1>4. AreDigits(Digits(t), s0, m0, h0, d, mo, y)
      BY <1>1, <1>3, DigitsOf
<1>5. PICK five \in 1 .. 5, six \in 1 .. 6 : five = 5 /\ six = 6 /\ five + 1 = six
      OBVIOUS
<1>6. CASE mo < MonthMax
  <2>1. PICK mn \in 1 .. MonthMax : mn = mo + 1
        BY <1>3, <1>6, Calendar
  <2>2. w = Moment(s, m, h, one, mn, y)
        BY <1>2, <1>6, <2>1 DEF MonthAfter
  <2> HIDE DEF w
  <2>3. w \in Moments
    <3>1. one \in Nat \ {0} /\ one <= DaysOfMonth(y, mn)
          BY <1>2, <1>3, Calendar
    <3> QED BY <1>1, <2>2, <3>1, IsMoment
  <2>4. AreDigits(Digits(w), s, m, h, one, mn, y)
    <3>1. mn \in Nat
          OBVIOUS
    <3> QED BY <1>3, <2>2, <3>1, DigitsOf
  <2>5. Digits(w)[five] = Digits(t)[five] + 1 /\ Same(Digits(w), Digits(t), five + 1)
    <3>1. Digits(w)[five] = Digits(t)[five] + 1
          BY <1>4, <1>5, <2>1, <2>4 DEF AreDigits
    <3>2. ASSUME NEW i \in five + 1 .. 6 PROVE Digits(w)[i] = Digits(t)[i]
      <4>1. i = 6
            BY <1>5
      <4> QED BY <1>4, <2>4, <4>1 DEF AreDigits
    <3> QED BY <3>1, <3>2 DEF Same
  <2>6. IsNext(w, t, five)
        BY <2>3, <2>5, NextByOne
  <2>7. w.day = 1
        BY <1>2, <2>2 DEF Moment
  <2> QED BY <1>5, <2>6, <2>7 DEF w
<1>7. CASE ~(mo < MonthMax)
  <2>1. PICK yn \in Nat : yn = y + 1
        BY <1>1
  <2>2. w = Moment(s, m, h, one, one, yn)
        BY <1>2, <1>7, <2>1 DEF MonthAfter
  <2> HIDE DEF w
  <2>3. w \in Moments
    <3>1. one \in Nat \ {0} /\ one \in 1 .. MonthMax
          BY <1>2, Calendar
    <3>2. one <= DaysOfMonth(yn, one)
          BY <1>2, <3>1, Calendar
    <3> QED BY <2>2, <3>1, <3>2, IsMoment
  <2>4. AreDigits(Digits(w), s, m, h, one, one, yn)
        BY <1>3, <2>2, DigitsOf
  <2>5. Digits(w)[six] = Digits(t)[six] + 1 /\ Same(Digits(w), Digits(t), six + 1)
    <3>1. Digits(w)[six] = Digits(t)[six] + 1
          BY <1>4, <1>5, <2>1, <2>4 DEF AreDigits
    <3> QED BY <1>5, <3>1 DEF Same
  <2>6. IsNext(w, t, six)
        BY <2>3, <2>5, NextByOne
  <2>7. ASSUME NEW x \in Moments
        PROVE  Digits(x)[five] <= Digits(t)[five] /\ Digits(w)[five] <= Digits(x)[five]
    <3>1. Digits(x)[5] \in 1 .. MonthMax
          BY InMoment
    <3>2. Digits(t)[five] = mo /\ Digits(w)[five] = 1
          BY <1>2, <1>4, <1>5, <2>4 DEF AreDigits
    <3>3. mo = MonthMax
      <4>1. mo \in 1 .. MonthMax
            BY <1>1
      <4>2. mo \in Nat /\ MonthMax \in Nat /\ mo <= MonthMax
            BY <4>1, Calendar
      <4> QED BY <1>7, <4>2
    <3> QED BY <1>5, <3>1, <3>2, <3>3, Calendar
  <2>8. IsNext(w, t, five)
        BY <1>5, <2>6, <2>7, NextFromAbove
  <2>9. w.day = 1
        BY <1>2, <2>2 DEF Moment
  <2> QED BY <1>5, <2>8, <2>9 DEF w
<1> QED BY <1>6, <1>7

LEMMA NextDay ==
  ASSUME NEW s \in 0 .. SecondMax, NEW m \in 0 .. MinuteMax, NEW h \in 0 .. HourMax,
         NEW t \in Moments, NEW s0 \in Nat, NEW m0 \in Nat, NEW h0 \in Nat, NEW d \in Nat \ {0},
         NEW mo \in 1 .. MonthMax, NEW y \in Nat, t = Moment(s0, m0, h0, d, mo, y)
  PROVE  IsNext(Carry(Moment(s, m, h, d + 1, mo, y)), t, 4)
<1> DEFINE w == Carry(Moment(s, m, h, d + 1, mo, y))
<1>1. PICK n \in Nat \ {0} : n = d + 1
      OBVIOUS
<1>2. Carried(w, s, m, h, n, mo, y)
  <2>1. s \in 0 .. SecondMax + 1 /\ m \in 0 .. MinuteMax + 1 /\ h \in 0 .. HourMax + 1
        BY Calendar
  <2> QED BY <1>1, <2>1, CarryOK
<1>3. w \in Moments
      BY <1>2 DEF Carried
<1>4. mo \in Nat
      OBVIOUS
<1>5. AreDigits(Digits(t), s0, m0, h0, d, mo, y)
      BY <1>4, DigitsOf
<1>6. s \in Nat /\ m \in Nat /\ h \in Nat /\ DaysOfMonth(y, mo) \in Nat
      BY Calendar
<1>7. PICK four \in 1 .. 5, five \in 1 .. 6 : four = 4 /\ five = 5 /\ four + 1 = five
      OBVIOUS
<1>8. CASE n <= DaysOfMonth(y, mo)
  <2>1. w.second = s /\ w.minute = m /\ w.hour = h /\ w.day = n /\ w.month = mo /\ w.year = y
    <3>1. s <= SecondMax /\ m <= MinuteMax /\ h <= HourMax
          OBVIOUS
    <3> QED BY <1>2, <1>8, <3>1 DEF Carried
  <2> HIDE DEF w
  <2>2. w = Moment(s, m, h, n, mo, y)
        BY <1>3, <2>1, MomentOf DEF Moments
  <2>3. AreDigits(Digits(w), s, m, h, n, mo, y)
        BY <1>4, <1>6, <2>2, DigitsOf
  <2>4. Digits(w)[four] = Digits(t)[four] + 1 /\ Same(Digits(w), Digits(t), four + 1)
    <3>1. Digits(w)[four] = Digits(t)[four] + 1
          BY <1>1, <1>5, <1>7, <2>3 DEF AreDigits
    <3>2. ASSUME NEW i \in four + 1 .. 6 PROVE Digits(w)[i] = Digits(t)[i]
      <4>1. i = 5 \/ i = 6
            BY <1>7
      <4> QED BY <1>5, <2>3, <4>1 DEF AreDigits
    <3> QED BY <3>1, <3>2 DEF Same
  <2>5. IsNext(w, t, four)
        BY <1>3, <2>4, NextByOne
  <2> QED BY <1>7, <2>5 DEF w
<1>9. CASE ~(n <= DaysOfMonth(y, mo))
  <2>1. n \in Nat /\ n > DaysOfMonth(y, mo) /\ d = DaysOfMonth(y, mo)
    <3>1. d <= DaysOfMonth(y, mo)
      <4>1. Digits(t)[4] <= DaysOfMonth(Digits(t)[6], Digits(t)[5])
            BY InMoment
      <4> QED BY <1>5, <4>1 DEF AreDigits
    <3> QED BY <1>1, <1>6, <1>9, <3>1
  <2>2. w = MonthAfter(s, m, h, mo, y)
        BY <1>1, <2>1, DayUp
  <2>3. IsNext(MonthAfter(s, m, h, mo, y), t, 5) /\ MonthAfter(s, m, h, mo, y).day = 1
    <3>1. mo = t.month /\ y = t.year
          BY DEF Moment
    <3> QED BY <3>1, NextMonth
  <2> HIDE DEF w
  <2>4. Digits(w)[four] = w.day
        BY <1>7 DEF Digits, Units
  <2>5. IsNext(w, t, five) /\ Digits(w)[four] = 1
        BY <1>7, <2>2, <2>3, <2>4
  <2>6. ASSUME NEW x \in Moments, Same(Digits(x), Digits(t), five) PROVE Digits(x)[four] <= Digits(t)[four]
    <3>1. Digits(x)[4] <= DaysOfMonth(Digits(x)[6], Digits(x)[5])
          BY InMoment
    <3>2. Digits(x)[5] = mo /\ Digits(x)[6] = y
          BY <1>5, <1>7, <2>6 DEF Same, AreDigits
    <3> QED BY <1>5, <1>7, <2>1, <3>1, <3>2 DEF AreDigits
  <2>7. ASSUME NEW x \in Moments PROVE Digits(w)[four] <= Digits(x)[four]
    <3>1. Digits(x)[4] \in Nat \ {0}
          BY InMoment
    <3> QED BY <1>7, <2>5, <3>1
  <2>8. IsNext(w, t, four)
        BY <1>7, <2>5, <2>6, <2>7, NextFromAbove
  <2> QED BY <1>7, <2>8 DEF w
<1> QED BY <1>8, <1>9

LEMMA NextHour ==
  ASSUME NEW s \in 0 .. SecondMax, NEW m \in 0 .. MinuteMax, NEW h \in 0 .. HourMax,
         NEW t \in Moments, NEW s0 \in Nat, NEW m0 \in Nat, NEW d \in Nat \ {0},
         NEW mo \in 1 .. MonthMax, NEW y \in Nat, t = Moment(s0, m0, h, d, mo, y)
  PROVE  IsNext(Carry(Moment(s, m, h + 1, d, mo, y)), t, 3)
<1> DEFINE w == Carry(Moment(s, m, h + 1, d, mo, y))
<1>1. PICK n \in Nat : n = h + 1
      OBVIOUS
<1>2. PICK three \in 1 .. 5, four \in 1 .. 6 : three = 3 /\ four = 4 /\ four = three + 1
      OBVIOUS
<1>3. h \in Nat /\ mo \in Nat /\ HourMax \in Nat /\ d \in Nat
      BY Calendar
<1>4. AreDigits(Digits(t), s0, m0, h, d, mo, y)
      BY <1>3, DigitsOf
<1>5. d <= DaysOfMonth(y, mo)
  <2>1. Digits(t)[4] <= DaysOfMonth(Digits(t)[6], Digits(t)[5])
        BY InMoment
  <2> QED BY <1>4, <2>1 DEF AreDigits
<1>6. CASE n <= HourMax
  <2>1. Carried(Carry(Moment(s, m, n, d, mo, y)), s, m, n, d, mo, y)
    <3>1. s \in 0 .. SecondMax + 1 /\ m \in 0 .. MinuteMax + 1 /\ n \in 0 .. HourMax + 1
          BY <1>1, Calendar
    <3> QED BY <3>1, CarryOK
  <2>2. /\ w \in Moments /\ w.second = s /\ w.minute = m /\ w.hour = n
        /\ w.day = d /\ w.month = mo /\ w.year = y
    <3>1. s <= SecondMax /\ m <= MinuteMax
          OBVIOUS
    <3> QED BY <1>1, <1>5, <1>6, <2>1, <3>1 DEF Carried
  <2> HIDE DEF w
  <2>3. w = Moment(s, m, n, d, mo, y)
        BY <2>2, MomentOf DEF Moments
  <2>4. s \in Nat /\ m \in Nat
        OBVIOUS
  <2>5. AreDigits(Digits(w), s, m, n, d, mo, y)
        BY <1>3, <2>3, <2>4, DigitsOf
  <2>6. Digits(w)[three] = Digits(t)[three] + 1 /\ Same(Digits(w), Digits(t), three + 1)
    <3>1. Digits(w)[three] = Digits(t)[three] + 1
          BY <1>1, <1>2, <1>4, <2>5 DEF AreDigits
    <3>2. ASSUME NEW i \in three + 1 .. 6 PROVE Digits(w)[i] = Digits(t)[i]
      <4>1. i = 4 \/ i = 5 \/ i = 6
            BY <1>2
      <4> QED BY <1>4, <2>5, <4>1 DEF AreDigits
    <3> QED BY <3>1, <3>2 DEF Same
  <2>7. IsNext(w, t, three)
        BY <2>2, <2>6, NextByOne
  <2> QED BY <1>2, <2>7 DEF w
<1>7. CASE ~(n <= HourMax)
  <2>1. h = HourMax /\ n > HourMax
        BY <1>1, <1>3, <1>7
  <2>2. PICK z \in 0 .. HourMax : z = 0
        BY <1>3
  <2>3. w = Carry(Moment(s, m, z, d + 1, mo, y))
        BY <1>1, <1>3, <2>1, <2>2, HourUp
  <2>4. IsNext(Carry(Moment(s, m, z, d + 1, mo, y)), t, 4)
        BY <1>3, NextDay
  <2>5. Carried(w, s, m, z, d + 1, mo, y)
    <3>1. PICK dn \in Nat \ {0} : dn = d + 1
          BY <1>3
    <3>2. s \in 0 .. SecondMax + 1 /\ m \in 0 .. MinuteMax + 1 /\ z \in 0 .. HourMax + 1
          BY Calendar
    <3>3. Carried(Carry(Moment(s, m, z, dn, mo, y)), s, m, z, dn, mo, y)
          BY <3>2, CarryOK
    <3> QED BY <2>3, <3>1, <3>3
  <2> HIDE DEF w
  <2>6. w \in Moments /\ w.hour = z
    <3>1. s <= SecondMax /\ m <= MinuteMax /\ z <= HourMax
          OBVIOUS
    <3> QED BY <2>5, <3>1 DEF Carried
  <2>7. Digits(w)[three] = 0 /\ Digits(t)[three] = HourMax
    <3>1. Digits(w)[three] = w.hour
          BY <1>2 DEF Digits, Units
    <3> QED BY <1>2, <1>4, <2>1, <2>2, <2>6, <3>1 DEF AreDigits
  <2>8. ASSUME NEW x \in Moments
        PROVE  Digits(x)[three] <= Digits(t)[three] /\ Digits(w)[three] <= Digits(x)[three]
    <3>1. Digits(x)[3] \in 0 .. HourMax
          BY InMoment
    <3> QED BY <1>2, <1>3, <2>7, <3>1
  <2>9. IsNext(w, t, three)
        BY <1>2, <2>3, <2>4, <2>8, NextFromAbove
  <2> QED BY <1>2, <2>9 DEF w
<1> QED BY <1>6, <1>7

LEMMA NextMinute ==
  ASSUME NEW s \in 0 .. SecondMax, NEW m \in 0 .. MinuteMax, NEW h \in 0 .. HourMax,
         NEW t \in Moments, NEW s0 \in Nat, NEW d \in Nat \ {0},
         NEW mo \in 1 .. MonthMax, NEW y \in Nat, t = Moment(s0, m, h, d, mo, y)
  PROVE  IsNext(Carry(Moment(s, m + 1, h, d, mo, y)), t, 2)
<1> DEFINE w == Carry(Moment(s, m + 1, h, d, mo, y))
<1>1. PICK n \in Nat : n = m + 1
      OBVIOUS
<1>2. PICK two \in 1 .. 5, three \in 1 .. 6 : two = 2 /\ three = 3 /\ three = two + 1
      OBVIOUS
<1>3. m \in Nat /\ h \in Nat /\ mo \in Nat /\ MinuteMax \in Nat /\ d \in Nat
      BY Calendar
<1>4. AreDigits(Digits(t), s0, m, h, d, mo, y)
      BY <1>3, DigitsOf
<1>5. d <= DaysOfMonth(y, mo)
  <2>1. Digits(t)[4] <= DaysOfMonth(Digits(t)[6], Digits(t)[5])
        BY InMoment
  <2> QED BY <1>4, <2>1 DEF AreDigits
<1>6. CASE n <= MinuteMax
  <2>1. Carried(Carry(Moment(s, n, h, d, mo, y)), s, n, h, d, mo, y)
    <3>1. s \in 0 .. SecondMax + 1 /\ n \in 0 .. MinuteMax + 1 /\ h \in 0 .. HourMax + 1
          BY <1>1, Calendar
    <3> QED BY <3>1, CarryOK
  <2>2. /\ w \in Moments /\ w.second = s /\ w.minute = n /\ w.hour = h
        /\ w.day = d /\ w.month = mo /\ w.year = y
    <3>1. s <= SecondMax /\ h <= HourMax
          OBVIOUS
    <3> QED BY <1>1, <1>5, <1>6, <2>1, <3>1 DEF Carried
  <2> HIDE DEF w
  <2>3. w = Moment(s, n, h, d, mo, y)
        BY <2>2, MomentOf DEF Moments
  <2>4. s \in Nat
        OBVIOUS
  <2>5. AreDigits(Digits(w), s, n, h, d, mo, y)
        BY <1>3, <2>3, <2>4, DigitsOf
  <2>6. Digits(w)[two] = Digits(t)[two] + 1 /\ Same(Digits(w), Digits(t), two + 1)
    <3>1. Digits(w)[two] = Digits(t)[two] + 1
          BY <1>1, <1>2, <1>4, <2>5 DEF AreDigits
    <3>2. ASSUME NEW i \in two + 1 .. 6 PROVE Digits(w)[i] = Digits(t)[i]
      <4>1. i = 3 \/ i = 4 \/ i = 5 \/ i = 6
            BY <1>2
      <4> QED BY <1>4, <2>5, <4>1 DEF AreDigits
    <3> QED BY <3>1, <3>2 DEF Same
  <2>7. IsNext(w, t, two)
        BY <2>2, <2>6, NextByOne
  <2> QED BY <1>2, <2>7 DEF w
<1>7. CASE ~(n <= MinuteMax)
  <2>1. m = MinuteMax /\ n > MinuteMax
        BY <1>1, <1>3, <1>7
  <2>2. PICK z \in 0 .. MinuteMax : z = 0
        BY <1>3
  <2>3. w = Carry(Moment(s, z, h + 1, d, mo, y))
        BY <1>1, <1>3, <2>1, <2>2, MinuteUp
  <2>4. IsNext(Carry(Moment(s, z, h + 1, d, mo, y)), t, 3)
        BY <1>3, NextHour
  <2>5. Carried(w, s, z, h + 1, d, mo, y)
    <3>1. PICK hn \in 0 .. HourMax + 1 : hn = h + 1
          BY Calendar
    <3>2. s \in 0 .. SecondMax + 1 /\ z \in 0 .. MinuteMax + 1
          BY Calendar
    <3>3. Carried(Carry(Moment(s, z, hn, d, mo, y)), s, z, hn, d, mo, y)
          BY <3>2, CarryOK
    <3> QED BY <2>3, <3>1, <3>3
  <2> HIDE DEF w
  <2>6. w \in Moments /\ w.minute = z
    <3>1. s <= SecondMax /\ z <= MinuteMax
          OBVIOUS
    <3> QED BY <2>5, <3>1 DEF Carried
  <2>7. Digits(w)[two] = 0 /\ Digits(t)[two] = MinuteMax
    <3>1. Digits(w)[two] = w.minute
          BY <1>2 DEF Digits, Units
    <3> QED BY <1>2, <1>4, <2>1, <2>2, <2>6, <3>1 DEF AreDigits
  <2>8. ASSUME NEW x \in Moments
        PROVE  Digits(x)[two] <= Digits(t)[two] /\ Digits(w)[two] <= Digits(x)[two]
    <3>1. Digits(x)[2] \in 0 .. MinuteMax
          BY InMoment
    <3> QED BY <1>2, <1>3, <2>7, <3>1
  <2>9. IsNext(w, t, two)
        BY <1>2, <2>3, <2>4, <2>8, NextFromAbove
  <2> QED BY <1>2, <2>9 DEF w
<1> QED BY <1>6, <1>7

LEMMA NextSecond ==
  ASSUME NEW s \in 0 .. SecondMax, NEW m \in 0 .. MinuteMax, NEW h \in 0 .. HourMax,
         NEW t \in Moments, NEW d \in Nat \ {0},
         NEW mo \in 1 .. MonthMax, NEW y \in Nat, t = Moment(s, m, h, d, mo, y)
  PROVE  IsNext(Carry(Moment(s + 1, m, h, d, mo, y)), t, 1)
<1> DEFINE w == Carry(Moment(s + 1, m, h, d, mo, y))
<1>1. PICK n \in Nat : n = s + 1
      OBVIOUS
<1>2. PICK one \in 1 .. 5, two \in 1 .. 6 : one = 1 /\ two = 2 /\ two = one + 1
      OBVIOUS
<1>3. s \in Nat /\ m \in Nat /\ h \in Nat /\ mo \in Nat /\ SecondMax \in Nat /\ d \in Nat
      BY Calendar
<1>4. AreDigits(Digits(t), s, m, h, d, mo, y)
      BY <1>3, DigitsOf
<1>5. d <= DaysOfMonth(y, mo)
  <2>1. Digits(t)[4] <= DaysOfMonth(Digits(t)[6], Digits(t)[5])
        BY InMoment
  <2> QED BY <1>4, <2>1 DEF AreDigits
<1>6. CASE n <= SecondMax
  <2>1. Carried(Carry(Moment(n, m, h, d, mo, y)), n, m, h, d, mo, y)
    <3>1. n \in 0 .. SecondMax + 1 /\ m \in 0 .. MinuteMax + 1 /\ h \in 0 .. HourMax + 1
          BY <1>1, Calendar
    <3> QED BY <3>1, CarryOK
  <2>2. /\ w \in Moments /\ w.second = n /\ w.minute = m /\ w.hour = h
        /\ w.day = d /\ w.month = mo /\ w.year = y
    <3>1. m <= MinuteMax /\ h <= HourMax
          OBVIOUS
    <3> QED BY <1>1, <1>5, <1>6, <2>1, <3>1 DEF Carried
  <2> HIDE DEF w
  <2>3. w = Moment(n, m, h, d, mo, y)
        BY <2>2, MomentOf DEF Moments
  <2>4. AreDigits(Digits(w), n, m, h, d, mo, y)
        BY <1>3, <2>3, DigitsOf
  <2>5. Digits(w)[one] = Digits(t)[one] + 1 /\ Same(Digits(w), Digits(t), one + 1)
    <3>1. Digits(w)[one] = Digits(t)[one] + 1
          BY <1>1, <1>2, <1>4, <2>4 DEF AreDigits
    <3>2. ASSUME NEW i \in one + 1 .. 6 PROVE Digits(w)[i] = Digits(t)[i]
      <4>1. i = 2 \/ i = 3 \/ i = 4 \/ i = 5 \/ i = 6
            BY <1>2
      <4> QED BY <1>4, <2>4, <4>1 DEF AreDigits
    <3> QED BY <3>1, <3>2 DEF Same
  <2>6. IsNext(w, t, one)
        BY <2>2, <2>5, NextByOne
  <2> QED BY <1>2, <2>6 DEF w
<1>7. CASE ~(n <= SecondMax)
  <2>1. s = SecondMax /\ n > SecondMax
        BY <1>1, <1>3, <1>7
  <2>2. PICK z \in 0 .. SecondMax : z = 0
        BY <1>3
  <2>3. w = Carry(Moment(z, m + 1, h, d, mo, y))
    <3>1. n > SecondMax
          BY <2>1
    <3>2. Carry(Moment(n, m, h, d, mo, y)) = Carry(Moment(z, m + 1, h, d, mo, y))
          BY <2>2, <3>1, SecondUp
    <3> QED BY <1>1, <3>2
  <2>4. IsNext(Carry(Moment(z, m + 1, h, d, mo, y)), t, 2)
        BY <1>3, NextMinute
  <2>5. Carried(w, z, m + 1, h, d, mo, y)
    <3>1. PICK mn \in 0 .. MinuteMax + 1 : mn = m + 1
          BY Calendar
    <3>2. z \in 0 .. SecondMax + 1 /\ h \in 0 .. HourMax + 1
          BY Calendar
    <3>3. Carried(Carry(Moment(z, mn, h, d, mo, y)), z, mn, h, d, mo, y)
          BY <3>2, CarryOK
    <3> QED BY <2>3, <3>1, <3>3
  <2> HIDE DEF w
  <2>6. w \in Moments /\ w.second = z
    <3>1. z <= SecondMax
          OBVIOUS
    <3> QED BY <2>5, <3>1 DEF Carried
  <2>7. Digits(w)[one] = 0 /\ Digits(t)[one] = SecondMax
    <3>1. Digits(w)[one] = w.second
          BY <1>2 DEF Digits, Units
    <3> QED BY <1>2, <1>4, <2>1, <2>2, <2>6, <3>1 DEF AreDigits
  <2>8. ASSUME NEW x \in Moments
        PROVE  Digits(x)[one] <= Digits(t)[one] /\ Digits(w)[one] <= Digits(x)[one]
    <3>1. Digits(x)[1] \in 0 .. SecondMax
          BY InMoment
    <3> QED BY <1>2, <1>3, <2>7, <3>1
  <2>9. IsNext(w, t, one)
        BY <1>2, <2>3, <2>4, <2>8, NextFromAbove
  <2> QED BY <1>2, <2>9 DEF w
<1> QED BY <1>6, <1>7

LEMMA SameMoments ==
  ASSUME NEW t \in Moments, NEW u \in Moments, Same(Digits(t), Digits(u), 1) PROVE t = u
<1>1. ASSUME NEW x \in Moments
      PROVE  x = Moment(Digits(x)[1], Digits(x)[2], Digits(x)[3], Digits(x)[4], Digits(x)[5], Digits(x)[6])
  <2>1. x = Moment(x.second, x.minute, x.hour, x.day, x.month, x.year)
        BY MomentOf DEF Moments
  <2>2. /\ Digits(x)[1] = x.second /\ Digits(x)[2] = x.minute /\ Digits(x)[3] = x.hour
        /\ Digits(x)[4] = x.day /\ Digits(x)[5] = x.month /\ Digits(x)[6] = x.year
        BY DEF Digits, Units
  <2> QED BY <2>1, <2>2
<1>2. /\ Digits(t)[1] = Digits(u)[1] /\ Digits(t)[2] = Digits(u)[2] /\ Digits(t)[3] = Digits(u)[3]
      /\ Digits(t)[4] = Digits(u)[4] /\ Digits(t)[5] = Digits(u)[5] /\ Digits(t)[6] = Digits(u)[6]
      BY DEF Same
<1> QED BY <1>1, <1>2

LEMMA AdvancingClock ==
  ASSUME NEW p \in Pattern, NEW k \in 1 .. 3, NEW t \in Moments, NEW limit, NEW v, NEW r, NEW c,
         NEW chosen \in Moments, NEW carried,
         Possible(p[Units[k]], t[Units[k]], limit, v, r, c),
         \A i \in 1 .. 6 : Digits(chosen)[i] = IF i = k THEN v ELSE Digits(t)[i],
         \A i \in p[Units[k]] : i < limit,
         r => IsNext(carried, t, k + 1) /\ Digits(carried)[k] = v
  PROVE  Advancing(p, k, t, limit, chosen, carried, v, r)
<1>1. Listed(chosen)
      BY MomentsListed
<1>2. ASSUME v = t[Units[k]] PROVE chosen = t
  <2>1. Same(Digits(chosen), Digits(t), 1)
        BY <1>2 DEF Same, Digits
  <2> QED BY <2>1, SameMoments
<1>3. ASSUME NEW x, FitsIn(p, x) PROVE Digits(x)[k] < limit
      BY <1>3, FitsAbove
<1>4. ASSUME r
      PROVE  /\ carried \in Moments /\ Above(Digits(carried), Digits(t), k + 1)
             /\ \A x : FitsIn(p, x) =>
                  /\ NextFor(Digits(carried), Digits(t), Digits(x), k + 1)
                  /\ Same(Digits(carried), Digits(x), k + 1) => Digits(carried)[k] <= Digits(x)[k]
  <2>1. carried \in Moments /\ Above(Digits(carried), Digits(t), k + 1)
        BY <1>4 DEF IsNext
  <2>2. ASSUME NEW x, FitsIn(p, x)
        PROVE  /\ NextFor(Digits(carried), Digits(t), Digits(x), k + 1)
               /\ Digits(carried)[k] <= Digits(x)[k]
    <3>1. NextFor(Digits(carried), Digits(t), Digits(x), k + 1)
          BY <1>4, <2>2 DEF IsNext, FitsIn
    <3>2. Digits(carried)[k] = Min(p[Units[k]])
          BY <1>4 DEF Possible
    <3> QED BY <2>2, <3>1, <3>2, FitsAbove
  <2> QED BY <2>1, <2>2
<1> QED BY <1>1, <1>2, <1>3, <1>4 DEF Advancing

LEMMA FirstMoments ==
  ASSUME NEW p \in Pattern, NEW k \in 0 .. 3, NEW t \in Moments
  PROVE  /\ FirstPossibleValues(p, t, k) \in Moments
         /\ ClockFits(p, FirstPossibleValues(p, t, k), k)
         /\ k < 1 => FirstPossibleValues(p, t, k).second = t.second
         /\ k < 2 => FirstPossibleValues(p, t, k).minute = t.minute
         /\ k < 3 => FirstPossibleValues(p, t, k).hour = t.hour
         /\ FirstPossibleValues(p, t, k).day = t.day
         /\ FirstPossibleValues(p, t, k).month = t.month
         /\ FirstPossibleValues(p, t, k).year = t.year
<1>1. PICK s \in 0 .. SecondMax, m \in 0 .. MinuteMax, h \in 0 .. HourMax, d \in 1 .. Longest,
          mo \in 1 .. MonthMax, y \in Nat :
        t = Moment(s, m, h, d, mo, y) /\ d <= DaysOfMonth(y, mo)
      BY MomentsAre
<1> DEFINE f == FirstPossibleValues(p, t, k)
           s1 == IF k >= 1 THEN Min(p.second) ELSE s
           m1 == IF k >= 2 THEN Min(p.minute) ELSE m
           h1 == IF k >= 3 THEN Min(p.hour) ELSE h
<1>2. f = Moment(s1, m1, h1, d, mo, y)
  <2>1. k \in 0 .. 4 /\ ~(k >= 4)
        OBVIOUS
  <2> HIDE DEF s1, m1, h1
  <2>2. FirstPossibleValues(p, Moment(s, m, h, d, mo, y), k)
          = Moment(IF k >= 1 THEN Min(p.second) ELSE s, IF k >= 2 THEN Min(p.minute) ELSE m,
                   IF k >= 3 THEN Min(p.hour) ELSE h, IF k >= 4 THEN Min(p.day) ELSE d, mo, y)
        BY <2>1, FirstOf
  <2> QED BY <1>1, <2>1, <2>2 DEF s1, m1, h1
<1>3. Min(p.second) \in p.second /\ Min(p.minute) \in p.minute /\ Min(p.hour) \in p.hour
  <2>1. /\ p.second \in SUBSET Nat /\ p.second # {} /\ p.minute \in SUBSET Nat /\ p.minute # {}
        /\ p.hour \in SUBSET Nat /\ p.hour # {}
        BY PatternOf
  <2> QED BY <2>1, MinOf
<1>4. s1 \in 0 .. SecondMax /\ m1 \in 0 .. MinuteMax /\ h1 \in 0 .. HourMax
      BY <1>3, PatternOf
<1>5. d \in Nat \ {0}
      OBVIOUS
<1> HIDE DEF f, s1, m1, h1
<1>6. f \in Moments
      BY <1>1, <1>2, <1>4, <1>5, IsMoment
<1>7. /\ f.second = s1 /\ f.minute = m1 /\ f.hour = h1 /\ f.day = d /\ f.month = mo /\ f.year = y
      BY <1>2 DEF Moment
<1>8. /\ t.second = s /\ t.minute = m /\ t.hour = h /\ t.day = d /\ t.month = mo /\ t.year = y
      BY <1>1 DEF Moment
<1>9. ClockFits(p, f, k)
      BY <1>3, <1>7 DEF ClockFits, s1, m1, h1
<1>10. /\ k < 1 => f.second = t.second
       /\ k < 2 => f.minute = t.minute
       /\ k < 3 => f.hour = t.hour
      BY <1>7, <1>8 DEF s1, m1, h1
<1> QED BY <1>6, <1>7, <1>8, <1>9, <1>10 DEF f

SameDay(t, u) == t.day = u.day /\ t.month = u.month /\ t.year = u.year

LEMMA AdvancedMoment ==
  ASSUME NEW p \in Pattern, NEW k \in 1 .. 4, NEW r, NEW c, NEW chosen, NEW above, NEW w \in Moments,
         w = IF r THEN Carry(above) ELSE chosen,
         k = 1 => w.second \in p.second,
         k = 2 => w.minute \in p.minute,
         k = 3 => w.hour \in p.hour,
         ~r /\ ~c => ClockFits(p, w, k - 1)
  PROVE  /\ Advanced(p, k, r, c, chosen, above) \in Moments
         /\ ClockFits(p, Advanced(p, k, r, c, chosen, above), k)
         /\ SameDay(Advanced(p, k, r, c, chosen, above), w)
<1> DEFINE u == Advanced(p, k, r, c, chosen, above)
<1>1. CASE r \/ c
  <2>1. u = FirstPossibleValues(p, w, k - 1)
        BY <1>1 DEF Advanced
  <2>2. PICK j \in 0 .. 3 : j = k - 1
        OBVIOUS
  <2> HIDE DEF u
  <2>3. /\ u \in Moments /\ ClockFits(p, u, j)
        /\ j < 1 => u.second = w.second
        /\ j < 2 => u.minute = w.minute
        /\ j < 3 => u.hour = w.hour
        /\ u.day = w.day /\ u.month = w.month /\ u.year = w.year
        BY <2>1, <2>2, FirstMoments
  <2>4. ClockFits(p, u, k)
    <3>1. k >= 1 => u.second \in p.second
      <4>1. CASE k = 1
            BY <2>2, <2>3, <4>1
      <4>2. CASE k # 1
        <5>1. j >= 1
              BY <2>2, <4>2
        <5> QED BY <2>3, <5>1 DEF ClockFits
      <4> QED BY <4>1, <4>2
    <3>2. k >= 2 => u.minute \in p.minute
      <4>1. CASE k = 2
            BY <2>2, <2>3, <4>1
      <4>2. CASE k > 2
        <5>1. j >= 2
              BY <2>2, <4>2
        <5> QED BY <2>3, <5>1 DEF ClockFits
      <4> QED BY <4>1, <4>2
    <3>3. k >= 3 => u.hour \in p.hour
      <4>1. CASE k = 3
            BY <2>2, <2>3, <4>1
      <4>2. CASE k > 3
        <5>1. j >= 3
              BY <2>2, <4>2
        <5> QED BY <2>3, <5>1 DEF ClockFits
      <4> QED BY <4>1, <4>2
    <3> QED BY <3>1, <3>2, <3>3 DEF ClockFits
  <2> QED BY <2>3, <2>4 DEF SameDay, u
<1>2. CASE ~r /\ ~c
  <2>1. u = w
        BY <1>2 DEF Advanced
  <2>2. ClockFits(p, w, k - 1)
        BY <1>2
  <2>3. ClockFits(p, w, k)
    <3>1. /\ k >= 2 => w.second \in p.second
          /\ k >= 3 => w.minute \in p.minute
          /\ k >= 4 => w.hour \in p.hour
          BY <2>2 DEF ClockFits
    <3> QED BY <3>1 DEF ClockFits
  <2> QED BY <2>1, <2>3 DEF SameDay
<1> QED BY <1>1, <1>2

LEMMA AdvanceSecond ==
  ASSUME NEW p \in Pattern, NEW t \in Moments
  PROVE  /\ Advance(p, t, 1) \in Moments /\ ClockFits(p, Advance(p, t, 1), 1)
         /\ Step(p, t, Advance(p, t, 1))
<1>1. PICK s \in 0 .. SecondMax, m \in 0 .. MinuteMax, h \in 0 .. HourMax, d \in 1 .. Longest,
          mo \in 1 .. MonthMax, y \in Nat :
        t = Moment(s, m, h, d, mo, y) /\ d <= DaysOfMonth(y, mo)
      BY MomentsAre
<1>2. /\ p.second \in SUBSET Nat /\ p.second # {} /\ p.second \subseteq 0 .. SecondMax
      /\ s \in Nat /\ SecondMax + 1 \in Nat
      BY PatternOf, Calendar
<1>3. PICK v, r, c : Possible(p.second, s, SecondMax + 1, v, r, c)
      BY <1>2, NextPossible
<1>4. v \in p.second /\ v \in 0 .. SecondMax /\ v \in Nat
      BY <1>2, <1>3 DEF Possible
<1>5. PICK k \in 1 .. 3 : k = 1
      OBVIOUS
<1>6. Units[k] = "second" /\ Units[k + 1] = "minute"
      BY <1>5 DEF Units
<1>7. Possible(p[Units[k]], t[Units[k]], Limit(Units[k], t), v, r, c)
  <2>1. Limit(Units[k], t) = SecondMax + 1
        BY <1>6 DEF Limit
  <2>2. t[Units[k]] = s /\ p[Units[k]] = p.second
        BY <1>1, <1>6 DEF Moment
  <2> QED BY <1>3, <2>1, <2>2
<1> DEFINE chosen == Moment(v, m, h, d, mo, y)
           above == Moment(v, m + 1, h, d, mo, y)
<1>8. Advance(p, t, k) = Advanced(p, k, r, c, chosen, above)
  <2>1. /\ Changed(t, Units[k], v) = chosen
        /\ Increased(chosen, Units[k + 1]) = above
        BY <1>1, <1>6, ChangedIn, IncreasedIn
  <2> HIDE DEF chosen, above
  <2>2. Advance(p, t, k)
          = Advanced(p, k, r, c, Changed(t, Units[k], v),
                     Increased(Changed(t, Units[k], v), Units[k + 1]))
        BY <1>7, AdvanceBy
  <2> QED BY <2>1, <2>2
<1>9. d \in Nat \ {0} /\ s \in Nat /\ m \in Nat /\ h \in Nat /\ d \in Nat /\ mo \in Nat
      OBVIOUS
<1>10. chosen \in Moments
       BY <1>1, <1>4, <1>9, IsMoment
<1>11. AreDigits(Digits(chosen), v, m, h, d, mo, y) /\ AreDigits(Digits(t), s, m, h, d, mo, y)
       BY <1>1, <1>4, <1>9, DigitsOf
<1>12. Carried(Carry(above), v, m + 1, h, d, mo, y)
  <2>1. PICK n \in Nat : n = m + 1
        BY <1>9
  <2>2. v \in 0 .. SecondMax + 1 /\ n \in 0 .. MinuteMax + 1 /\ h \in 0 .. HourMax + 1
        BY <1>4, <2>1, Calendar
  <2>3. Carried(Carry(Moment(v, n, h, d, mo, y)), v, n, h, d, mo, y)
        BY <1>9, <2>2, CarryOK
  <2> QED BY <2>1, <2>3
<1>13. Carry(above) \in Moments /\ Carry(above).second = v
  <2>1. v <= SecondMax
        BY <1>4
  <2> QED BY <1>12, <2>1 DEF Carried
<1>14. IsNext(Carry(above), t, 2)
       BY <1>1, <1>4, <1>9, NextMinute
<1>15. chosen.second = v
       BY <1>1 DEF Moment
<1> HIDE DEF chosen, above
<1>16. Advancing(p, k, t, Limit(Units[k], t), chosen, Carry(above), v, r)
  <2>1. ASSUME NEW i \in 1 .. 6 PROVE Digits(chosen)[i] = IF i = k THEN v ELSE Digits(t)[i]
    <3>1. i = 1 \/ i = 2 \/ i = 3 \/ i = 4 \/ i = 5 \/ i = 6
          OBVIOUS
    <3> QED BY <1>5, <1>11, <3>1 DEF AreDigits
  <2>2. \A i \in p[Units[k]] : i < Limit(Units[k], t)
    <3>1. Limit(Units[k], t) = SecondMax + 1
          BY <1>6 DEF Limit
    <3>2. p[Units[k]] \subseteq 0 .. SecondMax
          BY <1>2, <1>6
    <3> QED BY <1>2, <3>1, <3>2, Calendar
  <2>3. Digits(Carry(above))[k] = v
        BY <1>6, <1>13 DEF Digits
  <2>4. IsNext(Carry(above), t, k + 1)
        BY <1>5, <1>14
  <2> QED BY <1>7, <1>10, <2>1, <2>2, <2>3, <2>4, AdvancingClock
<1>17. Step(p, t, Advanced(p, k, r, c, chosen, above))
  <2>1. k \in 1 .. 5
        OBVIOUS
  <2> QED BY <1>7, <1>16, <2>1, AdvancedStep
<1>18. /\ Advanced(p, k, r, c, chosen, above) \in Moments
       /\ ClockFits(p, Advanced(p, k, r, c, chosen, above), k)
  <2> DEFINE w == IF r THEN Carry(above) ELSE chosen
  <2>1. w \in Moments /\ w.second \in p.second
        BY <1>4, <1>10, <1>13, <1>15
  <2>2. ~r /\ ~c => ClockFits(p, w, k - 1)
    <3>1. ASSUME ~r PROVE w = chosen
          BY <3>1
    <3>2. ClockFits(p, chosen, k - 1)
          BY <1>5, <1>15 DEF ClockFits
    <3> QED BY <3>1, <3>2
  <2>3. k \in 1 .. 4 /\ w = IF r THEN Carry(above) ELSE chosen
        OBVIOUS
  <2>4. (k = 1 => w.second \in p.second) /\ (k = 2 => w.minute \in p.minute) /\ (k = 3 => w.hour \in p.hour)
        BY <1>5, <2>1
  <2> HIDE DEF w
  <2> QED BY <2>1, <2>2, <2>3, <2>4, AdvancedMoment
<1> QED BY <1>5, <1>8, <1>17, <1>18

LEMMA AdvanceMinute ==
  ASSUME NEW p \in Pattern, NEW t \in Moments, ClockFits(p, t, 1)
  PROVE  /\ Advance(p, t, 2) \in Moments /\ ClockFits(p, Advance(p, t, 2), 2)
         /\ Step(p, t, Advance(p, t, 2))
<1>1. PICK s \in 0 .. SecondMax, m \in 0 .. MinuteMax, h \in 0 .. HourMax, d \in 1 .. Longest,
          mo \in 1 .. MonthMax, y \in Nat :
        t = Moment(s, m, h, d, mo, y) /\ d <= DaysOfMonth(y, mo)
      BY MomentsAre
<1>2. /\ p.minute \in SUBSET Nat /\ p.minute # {} /\ p.minute \subseteq 0 .. MinuteMax
      /\ m \in Nat /\ MinuteMax + 1 \in Nat
      BY PatternOf, Calendar
<1>3. PICK v, r, c : Possible(p.minute, m, MinuteMax + 1, v, r, c)
      BY <1>2, NextPossible
<1>4. v \in p.minute /\ v \in 0 .. MinuteMax /\ v \in Nat
      BY <1>2, <1>3 DEF Possible
<1>5. PICK k \in 1 .. 3 : k = 2
      OBVIOUS
<1>6. Units[k] = "minute" /\ Units[k + 1] = "hour"
      BY <1>5 DEF Units
<1>7. Possible(p[Units[k]], t[Units[k]], Limit(Units[k], t), v, r, c)
  <2>1. Limit(Units[k], t) = MinuteMax + 1
        BY <1>6 DEF Limit
  <2>2. t[Units[k]] = m /\ p[Units[k]] = p.minute
        BY <1>1, <1>6 DEF Moment
  <2> QED BY <1>3, <2>1, <2>2
<1> DEFINE chosen == Moment(s, v, h, d, mo, y)
           above == Moment(s, v, h + 1, d, mo, y)
<1>8. Advance(p, t, k) = Advanced(p, k, r, c, chosen, above)
  <2>1. /\ Changed(t, Units[k], v) = chosen
        /\ Increased(chosen, Units[k + 1]) = above
        BY <1>1, <1>6, ChangedIn, IncreasedIn
  <2> HIDE DEF chosen, above
  <2>2. Advance(p, t, k)
          = Advanced(p, k, r, c, Changed(t, Units[k], v),
                     Increased(Changed(t, Units[k], v), Units[k + 1]))
        BY <1>7, AdvanceBy
  <2> QED BY <2>1, <2>2
<1>9. d \in Nat \ {0} /\ s \in Nat /\ m \in Nat /\ h \in Nat /\ d \in Nat /\ mo \in Nat
      OBVIOUS
<1>10. chosen \in Moments
       BY <1>1, <1>4, <1>9, IsMoment
<1>11. AreDigits(Digits(chosen), s, v, h, d, mo, y) /\ AreDigits(Digits(t), s, m, h, d, mo, y)
       BY <1>1, <1>4, <1>9, DigitsOf
<1>12. Carried(Carry(above), s, v, h + 1, d, mo, y)
  <2>1. PICK n \in Nat : n = h + 1
        BY <1>9
  <2>2. s \in 0 .. SecondMax + 1 /\ v \in 0 .. MinuteMax + 1 /\ n \in 0 .. HourMax + 1
        BY <1>4, <2>1, Calendar
  <2>3. Carried(Carry(Moment(s, v, n, d, mo, y)), s, v, n, d, mo, y)
        BY <1>9, <2>2, CarryOK
  <2> QED BY <2>1, <2>3
<1>13. Carry(above) \in Moments /\ Carry(above).minute = v
  <2>1. s <= SecondMax /\ v <= MinuteMax
        BY <1>4
  <2> QED BY <1>12, <2>1 DEF Carried
<1>14. IsNext(Carry(above), t, 3)
       BY <1>1, <1>4, <1>9, NextHour
<1>15. chosen.minute = v /\ chosen.second = s /\ t.second = s
       BY <1>1 DEF Moment
<1> HIDE DEF chosen, above
<1>16. Advancing(p, k, t, Limit(Units[k], t), chosen, Carry(above), v, r)
  <2>1. ASSUME NEW i \in 1 .. 6 PROVE Digits(chosen)[i] = IF i = k THEN v ELSE Digits(t)[i]
    <3>1. i = 1 \/ i = 2 \/ i = 3 \/ i = 4 \/ i = 5 \/ i = 6
          OBVIOUS
    <3> QED BY <1>5, <1>11, <3>1 DEF AreDigits
  <2>2. \A i \in p[Units[k]] : i < Limit(Units[k], t)
    <3>1. Limit(Units[k], t) = MinuteMax + 1
          BY <1>6 DEF Limit
    <3>2. p[Units[k]] \subseteq 0 .. MinuteMax
          BY <1>2, <1>6
    <3> QED BY <1>2, <3>1, <3>2, Calendar
  <2>3. Digits(Carry(above))[k] = v
        BY <1>6, <1>13 DEF Digits
  <2>4. IsNext(Carry(above), t, k + 1)
        BY <1>5, <1>14
  <2> QED BY <1>7, <1>10, <2>1, <2>2, <2>3, <2>4, AdvancingClock
<1>17. Step(p, t, Advanced(p, k, r, c, chosen, above))
  <2>1. k \in 1 .. 5
        OBVIOUS
  <2> QED BY <1>7, <1>16, <2>1, AdvancedStep
<1>18. /\ Advanced(p, k, r, c, chosen, above) \in Moments
       /\ ClockFits(p, Advanced(p, k, r, c, chosen, above), k)
  <2> DEFINE w == IF r THEN Carry(above) ELSE chosen
  <2>1. w \in Moments /\ w.minute \in p.minute
        BY <1>4, <1>10, <1>13, <1>15
  <2>2. ~r /\ ~c => ClockFits(p, w, k - 1)
    <3>1. ASSUME ~r PROVE w = chosen
          BY <3>1
    <3>2. ClockFits(p, chosen, k - 1)
          BY <1>5, <1>15 DEF ClockFits
    <3> QED BY <3>1, <3>2
  <2>3. k \in 1 .. 4 /\ w = IF r THEN Carry(above) ELSE chosen
        OBVIOUS
  <2>4. (k = 1 => w.second \in p.second) /\ (k = 2 => w.minute \in p.minute) /\ (k = 3 => w.hour \in p.hour)
        BY <1>5, <2>1
  <2> HIDE DEF w
  <2> QED BY <2>1, <2>2, <2>3, <2>4, AdvancedMoment
<1> QED BY <1>5, <1>8, <1>17, <1>18

LEMMA AdvanceHour ==
  ASSUME NEW p \in Pattern, NEW t \in Moments, ClockFits(p, t, 2)
  PROVE  /\ Advance(p, t, 3) \in Moments /\ ClockFits(p, Advance(p, t, 3), 3)
         /\ Step(p, t, Advance(p, t, 3))
<1>1. PICK s \in 0 .. SecondMax, m \in 0 .. MinuteMax, h \in 0 .. HourMax, d \in 1 .. Longest,
          mo \in 1 .. MonthMax, y \in Nat :
        t = Moment(s, m, h, d, mo, y) /\ d <= DaysOfMonth(y, mo)
      BY MomentsAre
<1>2. /\ p.hour \in SUBSET Nat /\ p.hour # {} /\ p.hour \subseteq 0 .. HourMax
      /\ h \in Nat /\ HourMax + 1 \in Nat
      BY PatternOf, Calendar
<1>3. PICK v, r, c : Possible(p.hour, h, HourMax + 1, v, r, c)
      BY <1>2, NextPossible
<1>4. v \in p.hour /\ v \in 0 .. HourMax /\ v \in Nat
      BY <1>2, <1>3 DEF Possible
<1>5. PICK k \in 1 .. 3 : k = 3
      OBVIOUS
<1>6. Units[k] = "hour" /\ Units[k + 1] = "day"
      BY <1>5 DEF Units
<1>7. Possible(p[Units[k]], t[Units[k]], Limit(Units[k], t), v, r, c)
  <2>1. Limit(Units[k], t) = HourMax + 1
        BY <1>6 DEF Limit
  <2>2. t[Units[k]] = h /\ p[Units[k]] = p.hour
        BY <1>1, <1>6 DEF Moment
  <2> QED BY <1>3, <2>1, <2>2
<1> DEFINE chosen == Moment(s, m, v, d, mo, y)
           above == Moment(s, m, v, d + 1, mo, y)
<1>8. Advance(p, t, k) = Advanced(p, k, r, c, chosen, above)
  <2>1. /\ Changed(t, Units[k], v) = chosen
        /\ Increased(chosen, Units[k + 1]) = above
        BY <1>1, <1>6, ChangedIn, IncreasedIn
  <2> HIDE DEF chosen, above
  <2>2. Advance(p, t, k)
          = Advanced(p, k, r, c, Changed(t, Units[k], v),
                     Increased(Changed(t, Units[k], v), Units[k + 1]))
        BY <1>7, AdvanceBy
  <2> QED BY <2>1, <2>2
<1>9. d \in Nat \ {0} /\ s \in Nat /\ m \in Nat /\ h \in Nat /\ d \in Nat /\ mo \in Nat
      OBVIOUS
<1>10. chosen \in Moments
       BY <1>1, <1>4, <1>9, IsMoment
<1>11. AreDigits(Digits(chosen), s, m, v, d, mo, y) /\ AreDigits(Digits(t), s, m, h, d, mo, y)
       BY <1>1, <1>4, <1>9, DigitsOf
<1>12. Carried(Carry(above), s, m, v, d + 1, mo, y)
  <2>1. PICK n \in Nat \ {0} : n = d + 1
        BY <1>9
  <2>2. s \in 0 .. SecondMax + 1 /\ m \in 0 .. MinuteMax + 1 /\ v \in 0 .. HourMax + 1
        BY <1>4, <2>1, Calendar
  <2>3. Carried(Carry(Moment(s, m, v, n, mo, y)), s, m, v, n, mo, y)
        BY <1>9, <2>2, CarryOK
  <2> QED BY <2>1, <2>3
<1>13. Carry(above) \in Moments /\ Carry(above).hour = v
  <2>1. s <= SecondMax /\ m <= MinuteMax /\ v <= HourMax
        BY <1>4
  <2> QED BY <1>12, <2>1 DEF Carried
<1>14. IsNext(Carry(above), t, 4)
       BY <1>1, <1>4, <1>9, NextDay
<1>15. chosen.hour = v /\ chosen.second = s /\ t.second = s /\ chosen.minute = m /\ t.minute = m
       BY <1>1 DEF Moment
<1> HIDE DEF chosen, above
<1>16. Advancing(p, k, t, Limit(Units[k], t), chosen, Carry(above), v, r)
  <2>1. ASSUME NEW i \in 1 .. 6 PROVE Digits(chosen)[i] = IF i = k THEN v ELSE Digits(t)[i]
    <3>1. i = 1 \/ i = 2 \/ i = 3 \/ i = 4 \/ i = 5 \/ i = 6
          OBVIOUS
    <3> QED BY <1>5, <1>11, <3>1 DEF AreDigits
  <2>2. \A i \in p[Units[k]] : i < Limit(Units[k], t)
    <3>1. Limit(Units[k], t) = HourMax + 1
          BY <1>6 DEF Limit
    <3>2. p[Units[k]] \subseteq 0 .. HourMax
          BY <1>2, <1>6
    <3> QED BY <1>2, <3>1, <3>2, Calendar
  <2>3. Digits(Carry(above))[k] = v
        BY <1>6, <1>13 DEF Digits
  <2>4. IsNext(Carry(above), t, k + 1)
        BY <1>5, <1>14
  <2> QED BY <1>7, <1>10, <2>1, <2>2, <2>3, <2>4, AdvancingClock
<1>17. Step(p, t, Advanced(p, k, r, c, chosen, above))
  <2>1. k \in 1 .. 5
        OBVIOUS
  <2> QED BY <1>7, <1>16, <2>1, AdvancedStep
<1>18. /\ Advanced(p, k, r, c, chosen, above) \in Moments
       /\ ClockFits(p, Advanced(p, k, r, c, chosen, above), k)
  <2> DEFINE w == IF r THEN Carry(above) ELSE chosen
  <2>1. w \in Moments /\ w.hour \in p.hour
        BY <1>4, <1>10, <1>13, <1>15
  <2>2. ~r /\ ~c => ClockFits(p, w, k - 1)
    <3>1. ASSUME ~r PROVE w = chosen
          BY <3>1
    <3>2. ClockFits(p, chosen, k - 1)
          BY <1>5, <1>15 DEF ClockFits
    <3> QED BY <3>1, <3>2
  <2>3. k \in 1 .. 4 /\ w = IF r THEN Carry(above) ELSE chosen
        OBVIOUS
  <2>4. (k = 1 => w.second \in p.second) /\ (k = 2 => w.minute \in p.minute) /\ (k = 3 => w.hour \in p.hour)
        BY <1>5, <2>1
  <2> HIDE DEF w
  <2> QED BY <2>1, <2>2, <2>3, <2>4, AdvancedMoment
<1> QED BY <1>5, <1>8, <1>17, <1>18

EveryMonth(p) == Min(p.day) <= Shortest
FirstMonth(p) ==
  \A d \in p.day, y \in 1 .. 2 : d < Longest => d <= DaysOfMonth(y, Min(p.month))

LEMMA ShortestOf ==
  /\ Shortest \in Nat
  /\ \A y \in Nat, m \in 1 .. MonthMax : Shortest <= DaysOfMonth(y, m)
<1> DEFINE D == {DaysOfMonth(y, m) : y \in 1 .. 2, m \in 1 .. MonthMax}
<1>1. \A d : d \in D <=> \E y \in 1 .. 2, m \in 1 .. MonthMax : d = DaysOfMonth(y, m)
      OBVIOUS
<1>2. Shortest = Min(D)
      BY DEF Shortest
<1> HIDE DEF D
<1>3. D \in SUBSET Nat /\ D # {}
  <2>1. DaysOfMonth(1, 1) \in D
        BY <1>1, Calendar
  <2> QED BY <1>1, <2>1, Calendar
<1>4. Shortest \in D /\ \A d \in D : Shortest <= d
      BY <1>2, <1>3, MinOf
<1>5. ASSUME NEW y \in Nat, NEW m \in 1 .. MonthMax PROVE DaysOfMonth(y, m) \in D
  <2>1. CASE y % 2 = 0
    <3>1. DaysOfMonth(y, m) = DaysOfMonth(2, m)
          BY <2>1 DEF DaysOfMonth
    <3> QED BY <1>1, <3>1
  <2>2. CASE y % 2 # 0
    <3>1. DaysOfMonth(y, m) = DaysOfMonth(1, m)
          BY <2>2 DEF DaysOfMonth
    <3> QED BY <1>1, <3>1
  <2> QED BY <2>1, <2>2
<1> QED BY <1>3, <1>4, <1>5

\* The day that is left, where a month follows that does not have the day
\* it was to be.
DayFits(p, u) ==
  /\ EveryMonth(p) => u.day \in p.day
  /\ u.day = 1 \/ u.day = Min(p.day) \/ (u.day \in p.day /\ u.day < DaysOfMonth(u.year, u.month))

\* The day of the next month, which may be the first of the one after it.
LEMMA DayRollsOver ==
  ASSUME NEW p \in Pattern, NEW t \in Moments,
         NEW s \in 0 .. SecondMax, NEW m \in 0 .. MinuteMax, NEW h \in 0 .. HourMax,
         NEW d \in Nat \ {0}, NEW mo \in 1 .. MonthMax, NEW y \in Nat,
         t = Moment(s, m, h, d, mo, y), mo + 1 <= MonthMax,
         NEW v, v = Min(p.day), NEW w, w = Carry(Moment(s, m, h, v, mo + 1, y))
  PROVE  /\ w \in Moments /\ Above(Digits(w), Digits(t), 5)
         /\ w.day = v \/ (w.day = 1 /\ ~EveryMonth(p))
         /\ \A x : FitsIn(p, x) => NextFor(Digits(w), Digits(t), Digits(x), 5) /\ Digits(w)[4] <= Digits(x)[4]
<1>1. PICK n \in 1 .. MonthMax : n = mo + 1
      BY Calendar
<1>2. v \in p.day /\ v \in Nat \ {0}
  <2>1. p.day \in SUBSET Nat /\ p.day # {} /\ p.day \subseteq 1 .. Longest
        BY PatternOf, LongestOf
  <2>2. Min(p.day) \in p.day
        BY <2>1, MinOf
  <2> QED BY <2>1, <2>2, LongestOf
<1>3. PICK one \in Nat \ {0} : one = 1
      OBVIOUS
<1>4. DaysOfMonth(y, n) \in Nat /\ one <= DaysOfMonth(y, n)
      BY <1>3, Calendar
<1> DEFINE b == Moment(s, m, h, one, n, y)
<1>5. b \in Moments
      BY <1>4, IsMoment
<1>6. s \in Nat /\ m \in Nat /\ h \in Nat /\ d \in Nat /\ v \in Nat /\ mo \in Nat /\ n \in Nat
      BY <1>2
<1>7. AreDigits(Digits(t), s, m, h, d, mo, y) /\ AreDigits(Digits(b), s, m, h, one, n, y)
      BY <1>6, DigitsOf
<1>8. PICK four \in 1 .. 5, five \in 1 .. 5 : four = 4 /\ five = 5 /\ four + 1 = five
      OBVIOUS
<1> HIDE DEF b
<1>9. Digits(b)[five] = Digits(t)[five] + 1 /\ Same(Digits(b), Digits(t), five + 1)
  <2>1. Digits(b)[five] = Digits(t)[five] + 1
        BY <1>1, <1>7, <1>8 DEF AreDigits
  <2>2. ASSUME NEW i \in five + 1 .. 6 PROVE Digits(b)[i] = Digits(t)[i]
    <3>1. i = 6
          BY <1>8
    <3> QED BY <1>7, <3>1 DEF AreDigits
  <2> QED BY <2>1, <2>2 DEF Same
<1>10. IsNext(b, t, five)
       BY <1>5, <1>9, NextByOne
<1>11. w = Carry(Moment(s, m, h, v, n, y))
       BY <1>1
<1>12. Digits(w)[four] = w.day
       BY <1>8 DEF Digits, Units
<1>13. ASSUME NEW x, FitsIn(p, x) PROVE x \in Moments /\ v <= Digits(x)[four] /\ one <= Digits(x)[four]
  <2>1. Min(p[Units[four]]) <= Digits(x)[four]
        BY <1>13, FitsAbove
  <2>2. Units[four] = "day"
        BY <1>8 DEF Units
  <2>3. x \in Moments
        BY <1>13 DEF FitsIn
  <2>4. Digits(x)[4] \in Nat \ {0}
        BY <2>3, InMoment
  <2> QED BY <1>3, <1>8, <2>1, <2>2, <2>3, <2>4
<1>14. CASE v <= DaysOfMonth(y, n)
  <2>1. Carried(Carry(Moment(s, m, h, v, n, y)), s, m, h, v, n, y)
    <3>1. s \in 0 .. SecondMax + 1 /\ m \in 0 .. MinuteMax + 1 /\ h \in 0 .. HourMax + 1
          BY Calendar
    <3> QED BY <1>2, <3>1, CarryOK
  <2>2. /\ w \in Moments /\ w.second = s /\ w.minute = m /\ w.hour = h
        /\ w.day = v /\ w.month = n /\ w.year = y
    <3>1. s <= SecondMax /\ m <= MinuteMax /\ h <= HourMax
          OBVIOUS
    <3> QED BY <1>11, <1>14, <2>1, <3>1 DEF Carried
  <2>3. w = Moment(s, m, h, v, n, y)
        BY <2>2, MomentOf DEF Moments
  <2>4. AreDigits(Digits(w), s, m, h, v, n, y)
        BY <1>6, <2>3, DigitsOf
  <2>5. Digits(w)[five] = Digits(t)[five] + 1 /\ Same(Digits(w), Digits(t), five + 1)
    <3>1. Digits(w)[five] = Digits(t)[five] + 1
          BY <1>1, <1>7, <1>8, <2>4 DEF AreDigits
    <3>2. ASSUME NEW i \in five + 1 .. 6 PROVE Digits(w)[i] = Digits(t)[i]
      <4>1. i = 6
            BY <1>8
      <4> QED BY <1>7, <2>4, <4>1 DEF AreDigits
    <3> QED BY <3>1, <3>2 DEF Same
  <2>6. IsNext(w, t, five)
        BY <2>2, <2>5, NextByOne
  <2>7. ASSUME NEW x, FitsIn(p, x)
        PROVE  NextFor(Digits(w), Digits(t), Digits(x), five) /\ Digits(w)[four] <= Digits(x)[four]
        BY <1>12, <1>13, <2>2, <2>6, <2>7 DEF IsNext
  <2> QED BY <1>8, <2>2, <2>6, <2>7 DEF IsNext
<1>15. CASE ~(v <= DaysOfMonth(y, n))
  <2>1. v > DaysOfMonth(y, n)
        BY <1>4, <1>6, <1>15
  <2>2. w = MonthAfter(s, m, h, n, y)
        BY <1>6, <1>11, <2>1, DayUp
  <2>3. IsNext(w, b, 5) /\ w.day = 1
    <3>1. n = b.month /\ y = b.year
          BY DEF b, Moment
    <3>2. IsNext(MonthAfter(s, m, h, n, y), b, 5) /\ MonthAfter(s, m, h, n, y).day = 1
          BY <1>5, <3>1, NextMonth
    <3> QED BY <2>2, <3>2
  <2>4. IsNext(w, b, five) /\ Digits(w)[four] = one
        BY <1>3, <1>8, <1>12, <2>3
  <2>5. ~EveryMonth(p)
    <3>1. Shortest <= DaysOfMonth(y, n) /\ Shortest \in Nat
          BY ShortestOf
    <3> QED BY <1>4, <1>6, <2>1, <3>1 DEF EveryMonth
  <2>6. w \in Moments /\ Digits(w) \in Numbers /\ Digits(b) \in Numbers /\ Digits(t) \in Numbers
        BY <1>5, <2>4, MomentNumbers DEF IsNext
  <2>7. Above(Digits(w), Digits(t), five)
        BY <1>10, <2>4, <2>6, AboveTransitive DEF IsNext
  <2>8. ASSUME NEW x, FitsIn(p, x) PROVE NextFor(Digits(w), Digits(t), Digits(x), five)
    <3>1. x \in Moments /\ v <= Digits(x)[four] /\ Digits(x) \in Numbers
          BY <1>13, <2>8, MomentNumbers
    <3>2. SUFFICES ASSUME Above(Digits(x), Digits(t), five) PROVE ~Above(Digits(w), Digits(x), five)
          BY <2>7 DEF NextFor
    <3>3. ~Above(Digits(b), Digits(x), five)
          BY <1>10, <3>1, <3>2 DEF IsNext, NextFor
    <3>4. ~Same(Digits(x), Digits(b), five)
      <4>1. SUFFICES ASSUME Same(Digits(x), Digits(b), five) PROVE FALSE
            OBVIOUS
      <4>2. Digits(x)[5] = n /\ Digits(x)[6] = y
            BY <1>7, <1>8, <4>1 DEF Same, AreDigits
      <4>3. Digits(x)[4] <= DaysOfMonth(Digits(x)[6], Digits(x)[5]) /\ Digits(x)[4] \in Nat
            BY <3>1, InMoment
      <4> QED BY <1>4, <1>6, <1>8, <2>1, <3>1, <4>2, <4>3
    <3>5. Above(Digits(x), Digits(b), five)
      <4>1. five \in 1 .. 7
            OBVIOUS
      <4> QED BY <2>6, <3>1, <3>3, <3>4, <4>1, AboveOrSame
    <3> QED BY <2>4, <3>1, <3>5 DEF IsNext, NextFor
  <2>9. \A x : FitsIn(p, x) => Digits(w)[four] <= Digits(x)[four]
        BY <1>13, <2>4
  <2> QED BY <1>8, <2>3, <2>5, <2>6, <2>7, <2>8, <2>9
<1> QED BY <1>14, <1>15

LEMMA AdvanceDay ==
  ASSUME NEW p \in Pattern, NEW t \in Moments, ~BeyondYear(p, t)
  PROVE  /\ Advance(p, t, 4) \in Moments /\ DayFits(p, Advance(p, t, 4))
         /\ ClockFits(p, t, 3) => ClockFits(p, Advance(p, t, 4), 3)
         /\ Step(p, t, Advance(p, t, 4))
<1>1. PICK s \in 0 .. SecondMax, m \in 0 .. MinuteMax, h \in 0 .. HourMax, d \in 1 .. Longest,
          mo \in 1 .. MonthMax, y \in Nat :
        t = Moment(s, m, h, d, mo, y) /\ d <= DaysOfMonth(y, mo)
      BY MomentsAre
<1>2. /\ p.day \in SUBSET Nat /\ p.day # {} /\ p.day \subseteq 1 .. Longest
      /\ d \in Nat /\ DaysOfMonth(y, mo) \in Nat
      BY PatternOf, Calendar, LongestOf
<1>3. PICK v, r, c : Possible(p.day, d, DaysOfMonth(y, mo), v, r, c)
      BY <1>2, NextPossible
<1>4. v \in p.day /\ v \in 1 .. Longest /\ v \in Nat \ {0} /\ r \in BOOLEAN /\ c \in BOOLEAN
      BY <1>2, <1>3, LongestOf DEF Possible
<1>5. PICK k \in 1 .. 4 : k = 4
      OBVIOUS
<1>6. Units[k] = "day" /\ Units[k + 1] = "month" /\ k - 1 = 3 /\ k + 1 = 5
      BY <1>5 DEF Units
<1>7. t.day = d /\ t.month = mo /\ t.year = y /\ t.second = s /\ t.minute = m /\ t.hour = h
      BY <1>1 DEF Moment
<1>8. Limit(Units[k], t) = DaysOfMonth(y, mo)
      BY <1>6, <1>7 DEF Limit
<1>9. Possible(p[Units[k]], t[Units[k]], Limit(Units[k], t), v, r, c)
  <2>1. t[Units[k]] = d /\ p[Units[k]] = p.day
        BY <1>6, <1>7
  <2> QED BY <1>3, <1>8, <2>1
<1> DEFINE chosen == Moment(s, m, h, v, mo, y)
           above == Moment(s, m, h, v, mo + 1, y)
<1>10. Advance(p, t, k) = Advanced(p, k, r, c, chosen, above)
  <2>1. /\ Changed(t, Units[k], v) = chosen
        /\ Increased(chosen, Units[k + 1]) = above
        BY <1>1, <1>6, ChangedIn, IncreasedIn
  <2> HIDE DEF chosen, above
  <2>2. Advance(p, t, k)
          = Advanced(p, k, r, c, Changed(t, Units[k], v),
                     Increased(Changed(t, Units[k], v), Units[k + 1]))
        BY <1>9, AdvanceBy
  <2> QED BY <2>1, <2>2
<1>11. r => mo + 1 <= MonthMax
  <2>1. ASSUME r PROVE mo # MonthMax
    <3>1. NextPossibleValue(p.day, t.day, Limit("day", t)).rollover
          BY <1>3, <1>6, <1>7, <1>8, <2>1 DEF Possible
    <3> QED BY <1>7, <3>1 DEF BeyondYear
  <2> QED BY <2>1, Calendar
<1>12. d \in Nat \ {0} /\ s \in Nat /\ m \in Nat /\ h \in Nat /\ mo \in Nat /\ v \in Nat
       BY <1>4
<1>13. ~r => d <= v /\ v < DaysOfMonth(y, mo)
       BY <1>3 DEF Possible
<1>14. ~r => chosen \in Moments
  <2>1. ~r => v <= DaysOfMonth(y, mo)
        BY <1>2, <1>12, <1>13
  <2> QED BY <1>4, <2>1, IsMoment
<1>15. r => v = Min(p.day)
       BY <1>3 DEF Possible
<1> DEFINE carried == Carry(above)
<1>16. ASSUME r
       PROVE  /\ carried \in Moments /\ Above(Digits(carried), Digits(t), 5)
              /\ carried.day = v \/ (carried.day = 1 /\ ~EveryMonth(p))
              /\ \A x : FitsIn(p, x) =>
                   NextFor(Digits(carried), Digits(t), Digits(x), 5) /\ Digits(carried)[4] <= Digits(x)[4]
       BY <1>1, <1>11, <1>12, <1>15, <1>16, DayRollsOver
<1>17. AreDigits(Digits(chosen), s, m, h, v, mo, y) /\ AreDigits(Digits(t), s, m, h, d, mo, y)
       BY <1>1, <1>12, DigitsOf
<1>18. Listed(chosen)
       BY <1>12 DEF Listed
<1>19. /\ chosen.second = s /\ chosen.minute = m /\ chosen.hour = h /\ chosen.day = v
       /\ chosen.month = mo /\ chosen.year = y
       BY DEF Moment
<1>20. v = t[Units[k]] => chosen = t
       BY <1>1, <1>6, <1>7
<1> HIDE DEF chosen, above, carried
<1>21. Advancing(p, k, t, Limit(Units[k], t), chosen, carried, v, r)
  <2>1. ASSUME NEW i \in 1 .. 6 PROVE Digits(chosen)[i] = IF i = k THEN v ELSE Digits(t)[i]
    <3>1. i = 1 \/ i = 2 \/ i = 3 \/ i = 4 \/ i = 5 \/ i = 6
          OBVIOUS
    <3> QED BY <1>5, <1>17, <3>1 DEF AreDigits
  <2>2. ASSUME NEW x, FitsIn(p, x), Same(Digits(x), Digits(t), k + 1) PROVE Digits(x)[k] < Limit(Units[k], t)
    <3>1. Digits(x)[4] = x.day /\ Digits(x)[5] = x.month /\ Digits(x)[6] = x.year
          BY DEF Digits, Units
    <3>2. Digits(x)[5] = mo /\ Digits(x)[6] = y
          BY <1>6, <1>17, <2>2 DEF Same, AreDigits
    <3>3. x.day < DaysOfMonth(x.year, x.month)
          BY <2>2 DEF FitsIn
    <3> QED BY <1>5, <1>8, <3>1, <3>2, <3>3
  <2>3. ASSUME r
        PROVE  /\ carried \in Moments /\ Above(Digits(carried), Digits(t), k + 1)
               /\ \A x : FitsIn(p, x) =>
                    /\ NextFor(Digits(carried), Digits(t), Digits(x), k + 1)
                    /\ Same(Digits(carried), Digits(x), k + 1) => Digits(carried)[k] <= Digits(x)[k]
        BY <1>5, <1>6, <1>16, <2>3
  <2> QED BY <1>18, <1>20, <2>1, <2>2, <2>3 DEF Advancing
<1> DEFINE u == Advanced(p, k, r, c, chosen, above)
<1>22. Step(p, t, u)
  <2>1. k \in 1 .. 5 /\ Advancing(p, k, t, Limit(Units[k], t), chosen, Carry(above), v, r)
        BY <1>21 DEF carried
  <2> QED BY <1>9, <2>1, AdvancedStep
<1> DEFINE w == IF r THEN Carry(above) ELSE chosen
<1>23. w \in Moments
       BY <1>14, <1>16 DEF carried
<1>24. k # 1 /\ k # 2 /\ k # 3
       BY <1>5
<1>25. u \in Moments /\ SameDay(u, w)
  <2> HIDE DEF w, u
  <2>1. CASE r \/ c
    <3>1. u = FirstPossibleValues(p, w, k - 1)
          BY <2>1 DEF Advanced, u, w
    <3>2. PICK j \in 0 .. 3 : j = k - 1
          BY <1>6
    <3>3. u \in Moments /\ u.day = w.day /\ u.month = w.month /\ u.year = w.year
          BY <1>23, <3>1, <3>2, FirstMoments
    <3> QED BY <3>3 DEF SameDay
  <2>2. CASE ~r /\ ~c
    <3>1. u = w
          BY <2>2 DEF Advanced, u, w
    <3> QED BY <1>23, <3>1 DEF SameDay
  <2> QED BY <2>1, <2>2
<1>26. ASSUME ClockFits(p, t, 3) PROVE ClockFits(p, u, 3)
  <2>1. ~r /\ ~c => ClockFits(p, w, k - 1)
    <3>1. ASSUME ~r /\ ~c PROVE w = chosen
          BY <3>1
    <3>2. ClockFits(p, chosen, 3)
          BY <1>7, <1>19, <1>26 DEF ClockFits
    <3> QED BY <1>6, <3>1, <3>2
  <2>2. w = IF r THEN Carry(above) ELSE chosen
        OBVIOUS
  <2>3. (k = 1 => w.second \in p.second) /\ (k = 2 => w.minute \in p.minute) /\ (k = 3 => w.hour \in p.hour)
        BY <1>24
  <2> HIDE DEF w
  <2>4. ClockFits(p, Advanced(p, k, r, c, chosen, above), k)
        BY <1>23, <2>1, <2>2, <2>3, AdvancedMoment
  <2> QED BY <1>5, <2>4 DEF ClockFits
<1>27. DayFits(p, w)
  <2>1. CASE r
    <3>1. w.day = v \/ (w.day = 1 /\ ~EveryMonth(p))
          BY <1>16, <2>1 DEF carried
    <3> QED BY <1>4, <1>15, <2>1, <3>1 DEF DayFits
  <2>2. CASE ~r
    <3>1. w = chosen
          BY <2>2
    <3> QED BY <1>4, <1>13, <1>19, <2>2, <3>1 DEF DayFits
  <2> QED BY <2>1, <2>2
<1>28. DayFits(p, u)
       BY <1>25, <1>27 DEF DayFits, SameDay
<1> HIDE DEF u
<1>29. Advance(p, t, 4) = u
       BY <1>5, <1>10 DEF u
<1> QED BY <1>22, <1>25, <1>26, <1>28, <1>29

\* The first possible time of the first possible day of a month
LEMMA FirstDate ==
  ASSUME NEW p \in Pattern, NEW w, Listed(w), w.month \in 1 .. MonthMax
  PROVE  /\ FirstPossibleValues(p, w, 4) \in DateTimes(Nat)
         /\ ClockFits(p, FirstPossibleValues(p, w, 4), 3)
         /\ FirstPossibleValues(p, w, 4).day = Min(p.day) /\ Min(p.day) \in p.day
         /\ FirstPossibleValues(p, w, 4).month = w.month
<1>1. PICK s, m, h, d, mo, y \in Nat : w = Moment(s, m, h, d, mo, y)
      BY DEF Listed
<1>2. PICK k \in 0 .. 4 : k = 4
      OBVIOUS
<1> DEFINE f == FirstPossibleValues(p, w, k)
           s1 == Min(p.second)
           m1 == Min(p.minute)
           h1 == Min(p.hour)
           d1 == Min(p.day)
<1>3. f = Moment(s1, m1, h1, d1, mo, y)
  <2>1. FirstPossibleValues(p, Moment(s, m, h, d, mo, y), k)
          = Moment(IF k >= 1 THEN Min(p.second) ELSE s, IF k >= 2 THEN Min(p.minute) ELSE m,
                   IF k >= 3 THEN Min(p.hour) ELSE h, IF k >= 4 THEN Min(p.day) ELSE d, mo, y)
        BY FirstOf
  <2> QED BY <1>1, <1>2, <2>1
<1>4. s1 \in p.second /\ m1 \in p.minute /\ h1 \in p.hour /\ d1 \in p.day
  <2>1. /\ p.second \in SUBSET Nat /\ p.second # {} /\ p.minute \in SUBSET Nat /\ p.minute # {}
        /\ p.hour \in SUBSET Nat /\ p.hour # {} /\ p.day \in SUBSET Nat /\ p.day # {}
        BY PatternOf, LongestOf
  <2> QED BY <2>1, MinOf
<1>5. s1 \in 0 .. SecondMax /\ m1 \in 0 .. MinuteMax /\ h1 \in 0 .. HourMax /\ d1 \in 1 .. Longest
      BY <1>4, PatternOf
<1> HIDE DEF f, s1, m1, h1, d1
<1>6. f.second = s1 /\ f.minute = m1 /\ f.hour = h1 /\ f.day = d1 /\ f.month = mo /\ f.year = y
      BY <1>3 DEF Moment
<1>7. w.month = mo
      BY <1>1 DEF Moment
<1>8. f \in DateTimes(Nat)
      BY <1>3, <1>5, <1>7 DEF DateTimes, Moment
<1>9. ClockFits(p, f, 3)
      BY <1>4, <1>6 DEF ClockFits
<1> QED BY <1>2, <1>4, <1>6, <1>7, <1>8, <1>9 DEF f, d1

\* The first allowed month has the day, where every month has the first one
\* or some moment fits.
LEMMA FirstMonthHas ==
  ASSUME NEW p \in Pattern, FirstMonth(p), NEW t \in Moments, DayFits(p, t), NEW y \in Nat,
         EveryMonth(p) \/ \E x : FitsIn(p, x)
  PROVE  t.day <= DaysOfMonth(y, Min(p.month))
<1>1. Min(p.month) \in 1 .. MonthMax
  <2>1. p.month \in SUBSET Nat /\ p.month # {} /\ p.month \subseteq 1 .. MonthMax
        BY PatternOf, Calendar
  <2> QED BY <2>1, MinOf
<1>2. Min(p.day) \in p.day /\ Min(p.day) \in Nat /\ \A i \in p.day : i \in Nat /\ Min(p.day) <= i
  <2>1. p.day \in SUBSET Nat /\ p.day # {}
        BY PatternOf, LongestOf
  <2> QED BY <2>1, MinOf
<1> DEFINE days == DaysOfMonth(y, Min(p.month))
<1>3. days \in Nat \ {0} /\ Shortest <= days /\ Shortest \in Nat /\ Longest \in Nat
      BY <1>1, Calendar, ShortestOf, LongestOf
<1>4. \A i \in p.day : i < Longest => i <= days
  <2>1. PICK z \in 1 .. 2 : days = DaysOfMonth(z, Min(p.month))
    <3>1. CASE y % 2 = 0
      <4>1. DaysOfMonth(y, Min(p.month)) = DaysOfMonth(2, Min(p.month))
            BY <3>1 DEF DaysOfMonth
      <4> QED BY <4>1
    <3>2. CASE y % 2 # 0
      <4>1. DaysOfMonth(y, Min(p.month)) = DaysOfMonth(1, Min(p.month))
            BY <3>2 DEF DaysOfMonth
      <4> QED BY <4>1
    <3> QED BY <3>1, <3>2
  <2> QED BY <2>1 DEF FirstMonth
<1> HIDE DEF days
<1>5. CASE t.day = 1
      BY <1>3, <1>5 DEF days
<1>6. CASE t.day = Min(p.day)
  <2>1. CASE EveryMonth(p)
        BY <1>2, <1>3, <1>6, <2>1 DEF EveryMonth, days
  <2>2. CASE \E x : FitsIn(p, x)
    <3>1. PICK x : FitsIn(p, x)
          BY <2>2
    <3>2. x \in Moments /\ x.day \in p.day /\ x.day < DaysOfMonth(x.year, x.month)
          BY <3>1 DEF FitsIn
    <3>3. DaysOfMonth(x.year, x.month) <= Longest /\ DaysOfMonth(x.year, x.month) \in Nat
      <4>1. x.year \in Nat /\ x.month \in 1 .. MonthMax
            BY <3>2 DEF Moments, DateTimes
      <4> QED BY <4>1, LongestOf, Calendar
    <3>4. Min(p.day) < Longest
          BY <1>2, <1>3, <3>2, <3>3
    <3> QED BY <1>2, <1>4, <1>6, <3>4 DEF days
  <2> QED BY <2>1, <2>2
<1>7. CASE t.day \in p.day /\ t.day < DaysOfMonth(t.year, t.month)
  <2>1. DaysOfMonth(t.year, t.month) <= Longest /\ DaysOfMonth(t.year, t.month) \in Nat
    <3>1. t.year \in Nat /\ t.month \in 1 .. MonthMax
          BY DEF Moments, DateTimes
    <3> QED BY <3>1, LongestOf, Calendar
  <2>2. t.day < Longest
        BY <1>2, <1>3, <1>7, <2>1
  <2> QED BY <1>4, <1>7, <2>2 DEF days
<1> QED BY <1>5, <1>6, <1>7 DEF DayFits

LEMMA MonthRollsOver ==
  ASSUME NEW s \in 0 .. SecondMax, NEW m \in 0 .. MinuteMax, NEW h \in 0 .. HourMax,
         NEW d \in Nat \ {0}, NEW mo \in 1 .. MonthMax, NEW y \in Nat,
         NEW t \in Moments, t = Moment(s, m, h, d, mo, y),
         NEW v \in 1 .. MonthMax, NEW w, w = Carry(Moment(s, m, h, d, v, y + 1))
  PROVE  /\ w \in Moments /\ Above(Digits(w), Digits(t), 6)
         /\ d <= DaysOfMonth(y + 1, v) => w.month = v /\ IsNext(w, t, 6)
<1>1. PICK n \in Nat : n = y + 1
      OBVIOUS
<1>2. w = Carry(Moment(s, m, h, d, v, n))
      BY <1>1
<1>3. Carried(Carry(Moment(s, m, h, d, v, n)), s, m, h, d, v, n)
  <2>1. s \in 0 .. SecondMax + 1 /\ m \in 0 .. MinuteMax + 1 /\ h \in 0 .. HourMax + 1
        BY Calendar
  <2> QED BY <2>1, CarryOK
<1>4. w \in Moments /\ w.year \in Nat
      BY <1>2, <1>3 DEF Carried, Moments, DateTimes
<1>5. s \in Nat /\ m \in Nat /\ h \in Nat /\ d \in Nat /\ mo \in Nat /\ v \in Nat
      OBVIOUS
<1>6. AreDigits(Digits(t), s, m, h, d, mo, y)
      BY <1>5, DigitsOf
<1>7. PICK six \in 1 .. 6 : six = 6
      OBVIOUS
<1>8. Digits(w)[six] = w.year /\ Digits(t)[six] = y
      BY <1>6, <1>7 DEF Digits, Units, AreDigits
<1>9. DaysOfMonth(n, v) \in Nat
      BY Calendar
<1>10. CASE d <= DaysOfMonth(n, v)
  <2>1. w.month = v /\ w.year = n
    <3>1. s <= SecondMax /\ m <= MinuteMax /\ h <= HourMax
          OBVIOUS
    <3> QED BY <1>2, <1>3, <1>10, <3>1 DEF Carried
  <2>2. Digits(w)[six] = Digits(t)[six] + 1 /\ Same(Digits(w), Digits(t), six + 1)
        BY <1>1, <1>7, <1>8, <2>1 DEF Same
  <2>3. IsNext(w, t, six)
        BY <1>4, <2>2, NextByOne
  <2> QED BY <1>4, <1>7, <2>1, <2>3 DEF IsNext
<1>11. CASE ~(d <= DaysOfMonth(n, v))
  <2>1. d > DaysOfMonth(n, v)
        BY <1>5, <1>9, <1>11
  <2>2. w = MonthAfter(s, m, h, v, n)
        BY <1>2, <1>5, <2>1, DayUp
  <2>3. w.year = n \/ w.year = n + 1
        BY <2>2 DEF MonthAfter, Moment
  <2>4. Digits(w)[six] > Digits(t)[six]
        BY <1>1, <1>8, <2>3
  <2>5. Above(Digits(w), Digits(t), six)
        BY <1>7, <2>4 DEF Above
  <2> QED BY <1>1, <1>4, <1>7, <1>11, <2>5
<1> QED BY <1>10, <1>11

LEMMA AdvanceMonth ==
  ASSUME NEW p \in Pattern, NEW t \in Moments, DayFits(p, t)
  PROVE  /\ Advance(p, t, 5) \in DateTimes(Nat)
         /\ ClockFits(p, t, 3) => ClockFits(p, Advance(p, t, 5), 3)
         /\ EveryMonth(p) => Advance(p, t, 5).day \in p.day /\ Exists(Advance(p, t, 5))
         /\ EveryMonth(p) /\ FirstMonth(p) => Advance(p, t, 5).month \in p.month
         /\ FirstMonth(p) => Step(p, t, Advance(p, t, 5))
<1>1. PICK s \in 0 .. SecondMax, m \in 0 .. MinuteMax, h \in 0 .. HourMax, d \in 1 .. Longest,
          mo \in 1 .. MonthMax, y \in Nat :
        t = Moment(s, m, h, d, mo, y) /\ d <= DaysOfMonth(y, mo)
      BY MomentsAre
<1>2. /\ p.month \in SUBSET Nat /\ p.month # {} /\ p.month \subseteq 1 .. MonthMax
      /\ mo \in Nat /\ MonthMax + 1 \in Nat
      BY PatternOf, Calendar
<1>3. PICK v, r, c : Possible(p.month, mo, MonthMax + 1, v, r, c)
      BY <1>2, NextPossible
<1>4. v \in p.month /\ v \in 1 .. MonthMax /\ v \in Nat /\ r \in BOOLEAN /\ c \in BOOLEAN
      BY <1>2, <1>3 DEF Possible
<1>5. PICK k \in 1 .. 5 : k = 5
      OBVIOUS
<1>6. Units[k] = "month" /\ Units[k + 1] = "year" /\ k - 1 = 4 /\ k + 1 = 6
      BY <1>5 DEF Units
<1>7. t.day = d /\ t.month = mo /\ t.year = y /\ t.second = s /\ t.minute = m /\ t.hour = h
      BY <1>1 DEF Moment
<1>8. Limit(Units[k], t) = MonthMax + 1
      BY <1>6 DEF Limit
<1>9. Possible(p[Units[k]], t[Units[k]], Limit(Units[k], t), v, r, c)
  <2>1. t[Units[k]] = mo /\ p[Units[k]] = p.month
        BY <1>6, <1>7
  <2> QED BY <1>3, <1>8, <2>1
<1> DEFINE chosen == Moment(s, m, h, d, v, y)
           above == Moment(s, m, h, d, v, y + 1)
<1>10. Advance(p, t, k) = Advanced(p, k, r, c, chosen, above)
  <2>1. /\ Changed(t, Units[k], v) = chosen
        /\ Increased(chosen, Units[k + 1]) = above
        BY <1>1, <1>6, ChangedIn, IncreasedIn
  <2> HIDE DEF chosen, above
  <2>2. Advance(p, t, k)
          = Advanced(p, k, r, c, Changed(t, Units[k], v),
                     Increased(Changed(t, Units[k], v), Units[k + 1]))
        BY <1>9, AdvanceBy
  <2> QED BY <2>1, <2>2
<1>11. d \in Nat \ {0} /\ s \in Nat /\ m \in Nat /\ h \in Nat /\ d \in Nat
       OBVIOUS
<1> DEFINE carried == Carry(above)
<1>12. /\ carried \in Moments /\ Above(Digits(carried), Digits(t), 6)
       /\ d <= DaysOfMonth(y + 1, v) => carried.month = v /\ IsNext(carried, t, 6)
       BY <1>1, <1>4, <1>11, MonthRollsOver
<1>13. r => v = Min(p.month)
       BY <1>3 DEF Possible
<1>14. ASSUME r, FirstMonth(p), EveryMonth(p) \/ \E x : FitsIn(p, x)
       PROVE  carried.month = v /\ IsNext(carried, t, 6)
  <2>1. PICK n \in Nat : n = y + 1
        OBVIOUS
  <2>2. t.day <= DaysOfMonth(n, Min(p.month))
        BY <1>14, FirstMonthHas
  <2> QED BY <1>7, <1>12, <1>13, <1>14, <2>1, <2>2
<1>15. AreDigits(Digits(chosen), s, m, h, d, v, y) /\ AreDigits(Digits(t), s, m, h, d, mo, y)
       BY <1>1, <1>2, <1>4, <1>11, DigitsOf
<1>16. Listed(chosen) /\ chosen.month = v
       BY <1>4, <1>11 DEF Listed, Moment
<1>17. v = mo => chosen = t
       BY <1>1
<1> HIDE DEF chosen, above, carried
<1>18. ASSUME FirstMonth(p) PROVE Advancing(p, k, t, Limit(Units[k], t), chosen, carried, v, r)
  <2>1. ASSUME NEW i \in 1 .. 6 PROVE Digits(chosen)[i] = IF i = k THEN v ELSE Digits(t)[i]
    <3>1. i = 1 \/ i = 2 \/ i = 3 \/ i = 4 \/ i = 5 \/ i = 6
          OBVIOUS
    <3> QED BY <1>5, <1>15, <3>1 DEF AreDigits
  <2>2. ASSUME NEW x, FitsIn(p, x)
        PROVE  Digits(x)[k] < Limit(Units[k], t) /\ Min(p.month) <= Digits(x)[k] /\ x \in Moments
    <3>1. x \in Moments
          BY <2>2 DEF FitsIn
    <3>2. Digits(x)[5] \in 1 .. MonthMax
          BY <3>1, InMoment
    <3>3. Min(p[Units[k]]) <= Digits(x)[k]
          BY <2>2, FitsAbove
    <3>4. Digits(x)[5] < MonthMax + 1
          BY <3>2, Calendar
    <3> QED BY <1>5, <1>6, <1>8, <3>1, <3>3, <3>4
  <2>3. ASSUME r
        PROVE  /\ carried \in Moments /\ Above(Digits(carried), Digits(t), k + 1)
               /\ \A x : FitsIn(p, x) =>
                    /\ NextFor(Digits(carried), Digits(t), Digits(x), k + 1)
                    /\ Same(Digits(carried), Digits(x), k + 1) => Digits(carried)[k] <= Digits(x)[k]
    <3>1. ASSUME NEW x, FitsIn(p, x)
          PROVE  /\ NextFor(Digits(carried), Digits(t), Digits(x), k + 1)
                 /\ Digits(carried)[k] <= Digits(x)[k]
      <4>1. carried.month = v /\ IsNext(carried, t, 6)
            BY <1>14, <1>18, <2>3, <3>1
      <4>2. Digits(carried)[k] = carried.month
            BY <1>5, <1>6 DEF Digits
      <4>3. NextFor(Digits(carried), Digits(t), Digits(x), 6)
            BY <2>2, <3>1, <4>1 DEF IsNext
      <4> QED BY <1>6, <1>13, <2>2, <2>3, <3>1, <4>1, <4>2, <4>3
    <3> QED BY <1>6, <1>12, <3>1
  <2>4. v = t[Units[k]] => chosen = t
        BY <1>6, <1>7, <1>17
  <2> QED BY <1>16, <2>1, <2>2, <2>3, <2>4 DEF Advancing
<1> DEFINE u == Advanced(p, k, r, c, chosen, above)
<1>19. ASSUME FirstMonth(p) PROVE Step(p, t, u)
  <2>1. Advancing(p, k, t, Limit(Units[k], t), chosen, Carry(above), v, r)
        BY <1>18, <1>19 DEF carried
  <2> QED BY <1>9, <2>1, AdvancedStep
<1> DEFINE w == IF r THEN Carry(above) ELSE chosen
<1>20. Listed(w) /\ w.month \in 1 .. MonthMax
  <2>1. CASE r
    <3>1. w = carried
          BY <2>1 DEF carried
    <3>2. carried.month \in 1 .. MonthMax
          BY <1>12 DEF Moments, DateTimes
    <3> HIDE DEF w
    <3> QED BY <1>12, <3>1, <3>2, MomentsListed
  <2>2. CASE ~r
        BY <1>4, <1>16, <2>2
  <2> QED BY <2>1, <2>2
<1>21. EveryMonth(p) /\ FirstMonth(p) => w.month \in p.month
  <2>1. CASE r
        BY <1>4, <1>14, <2>1 DEF carried
  <2>2. CASE ~r
        BY <1>4, <1>16, <2>2
  <2> QED BY <2>1, <2>2
<1>22. Shortest \in Nat /\ Shortest <= Longest /\ Longest \in Nat
  <2>1. PICK z \in Nat : z = 1
        OBVIOUS
  <2>2. z \in 1 .. MonthMax
        BY <2>1, Calendar
  <2>3. DaysOfMonth(z, z) \in Nat
        BY <2>2, Calendar
  <2>4. DaysOfMonth(z, z) <= Longest /\ Longest \in Nat
        BY <2>2, LongestOf
  <2>5. Shortest <= DaysOfMonth(z, z) /\ Shortest \in Nat
        BY <2>2, ShortestOf
  <2> QED BY <2>3, <2>4, <2>5
<1>23. CASE r \/ c
  <2>1. u = FirstPossibleValues(p, w, k - 1)
        BY <1>23 DEF Advanced
  <2> HIDE DEF w, u
  <2>2. /\ u \in DateTimes(Nat) /\ ClockFits(p, u, 3) /\ u.month = w.month
        /\ u.day = Min(p.day) /\ Min(p.day) \in p.day
        BY <1>6, <1>20, <2>1, FirstDate
  <2>3. ASSUME EveryMonth(p) PROVE Exists(u)
    <3>1. u.year \in Nat /\ u.month \in 1 .. MonthMax /\ u.day \in Nat
          BY <2>2, <1>22 DEF DateTimes
    <3>2. Shortest <= DaysOfMonth(u.year, u.month) /\ DaysOfMonth(u.year, u.month) \in Nat
          BY <3>1, ShortestOf, Calendar
    <3> QED BY <1>22, <2>2, <2>3, <3>1, <3>2 DEF Exists, EveryMonth
  <2>4. Advance(p, t, 5) = u
        BY <1>5, <1>10 DEF u
  <2> QED BY <1>19, <1>21, <2>2, <2>3, <2>4
<1>24. CASE ~r /\ ~c
  <2>1. u = w /\ w = chosen
        BY <1>24 DEF Advanced
  <2>2. u = t
    <3>1. v = mo
          BY <1>3, <1>24 DEF Possible
    <3> QED BY <1>17, <2>1, <3>1
  <2> HIDE DEF w, u
  <2>3. Advance(p, t, 5) = u
        BY <1>5, <1>10 DEF u
  <2>4. u \in DateTimes(Nat) /\ Exists(u)
        BY <2>2 DEF Moments
  <2>5. EveryMonth(p) => u.day \in p.day
        BY <2>2 DEF DayFits
  <2> QED BY <1>19, <1>21, <2>1, <2>2, <2>3, <2>4, <2>5
<1> QED BY <1>4, <1>23, <1>24

-----------------------------------------------------------------------------
(* The search for a date. *)

LEMMA DateOK ==
  ASSUME NEW p \in Pattern, NEW t \in Moments, ~BeyondYear(p, t), NEW reached, reached = DateFrom(p, t)
  PROVE  /\ reached \in DateTimes(Nat)
         /\ ClockFits(p, t, 3) => ClockFits(p, reached, 3)
         /\ EveryMonth(p) => reached.day \in p.day /\ Exists(reached)
         /\ EveryMonth(p) /\ FirstMonth(p) => reached.month \in p.month
         /\ FirstMonth(p) /\ Exists(reached) => Step(p, t, reached)
<1> DEFINE day == Advance(p, t, 4)
<1>1. /\ day \in Moments /\ DayFits(p, day) /\ Step(p, t, day)
      /\ ClockFits(p, t, 3) => ClockFits(p, day, 3)
      BY AdvanceDay
<1>2. reached = Advance(p, day, 5)
      BY DEF DateFrom
<1> HIDE DEF day
<1>3. /\ reached \in DateTimes(Nat)
      /\ ClockFits(p, day, 3) => ClockFits(p, reached, 3)
      /\ EveryMonth(p) => reached.day \in p.day /\ Exists(reached)
      /\ EveryMonth(p) /\ FirstMonth(p) => reached.month \in p.month
      /\ FirstMonth(p) => Step(p, day, reached)
      BY <1>1, <1>2, AdvanceMonth
<1>4. ASSUME FirstMonth(p), Exists(reached) PROVE Step(p, t, reached)
  <2>1. reached \in Moments
        BY <1>3, <1>4 DEF Moments
  <2>2. Digits(t) \in Numbers /\ Digits(day) \in Numbers /\ Digits(reached) \in Numbers
        BY <1>1, <2>1, MomentNumbers
  <2> QED BY <1>1, <1>3, <1>4, <2>2, StepsCompose
<1> QED BY <1>1, <1>3, <1>4

\* The search goes on with the first possible time of the next day.
LEMMA AfterDateOK ==
  ASSUME NEW p \in Pattern, NEW reached \in Moments, NEW next1, next1 = AfterDate(p, reached)
  PROVE  /\ next1 \in Moments /\ ClockFits(p, next1, 3) /\ After(next1, reached)
         /\ \A x : FitsIn(p, x) /\ ~SameDay(x, reached) /\ ~After(reached, x) => ~After(next1, x)
         /\ next1.month # reached.month => next1.day = 1
<1>1. PICK s \in 0 .. SecondMax, m \in 0 .. MinuteMax, h \in 0 .. HourMax, d \in 1 .. Longest,
          mo \in 1 .. MonthMax, y \in Nat :
        reached = Moment(s, m, h, d, mo, y) /\ d <= DaysOfMonth(y, mo)
      BY MomentsAre
<1> DEFINE w == Carry(Moment(s, m, h, d + 1, mo, y))
<1>2. next1 = FirstPossibleValues(p, w, 3)
  <2>1. [reached EXCEPT !.day = @ + 1] = Moment(s, m, h, d + 1, mo, y)
        BY <1>1 DEF Moment
  <2> QED BY <2>1 DEF AfterDate
<1>3. d \in Nat \ {0} /\ s \in Nat /\ m \in Nat /\ h \in Nat /\ mo \in Nat /\ DaysOfMonth(y, mo) \in Nat
      BY Calendar
<1>4. IsNext(w, reached, 4)
      BY <1>1, <1>3, NextDay
<1>5. w.month = mo \/ w.day = 1
  <2>1. PICK n \in Nat \ {0} : n = d + 1
        BY <1>3
  <2>2. CASE n <= DaysOfMonth(y, mo)
    <3>1. Carried(Carry(Moment(s, m, h, n, mo, y)), s, m, h, n, mo, y)
      <4>1. s \in 0 .. SecondMax + 1 /\ m \in 0 .. MinuteMax + 1 /\ h \in 0 .. HourMax + 1
            BY Calendar
      <4> QED BY <4>1, CarryOK
    <3>2. s <= SecondMax /\ m <= MinuteMax /\ h <= HourMax
          OBVIOUS
    <3> QED BY <2>1, <2>2, <3>1, <3>2 DEF Carried
  <2>3. CASE ~(n <= DaysOfMonth(y, mo))
    <3>1. n > DaysOfMonth(y, mo) /\ n \in Nat
          BY <1>3, <2>3
    <3>2. Carry(Moment(s, m, h, n, mo, y)) = MonthAfter(s, m, h, mo, y)
          BY <3>1, DayUp
    <3>3. MonthAfter(s, m, h, mo, y).day = 1
          BY DEF MonthAfter, Moment
    <3> QED BY <2>1, <3>2, <3>3
  <2> QED BY <2>2, <2>3
<1> HIDE DEF w
<1>6. w \in Moments
      BY <1>4 DEF IsNext
<1>7. PICK three \in 0 .. 3 : three = 3
      OBVIOUS
<1>8. /\ next1 \in Moments /\ ClockFits(p, next1, 3)
      /\ next1.day = w.day /\ next1.month = w.month /\ next1.year = w.year
      BY <1>2, <1>6, <1>7, FirstMoments
<1>9. Digits(next1) \in Numbers /\ Digits(w) \in Numbers /\ Digits(reached) \in Numbers
      BY <1>6, <1>8, MomentNumbers
<1>10. Same(Digits(next1), Digits(w), 4) /\ \A i \in 1 .. 3 : Digits(next1)[i] = Min(p[Units[i]])
  <2>1. Reset(p, Digits(FirstPossibleValues(p, w, three)), Digits(w), three)
    <3>1. three \in 0 .. 4
          OBVIOUS
    <3> QED BY <1>6, <3>1, FirstListed, MomentsListed
  <2> QED BY <1>2, <1>7, <2>1 DEF Reset, Same
<1>11. Above(Digits(next1), Digits(reached), 4)
       BY <1>4, <1>10 DEF IsNext, Above, Same
<1>12. After(next1, reached)
  <2>1. Above(Digits(next1), Digits(reached), 1)
        BY <1>11 DEF Above
  <2> QED BY <2>1, AfterIs
<1>13. ASSUME NEW x, FitsIn(p, x), ~SameDay(x, reached), ~After(reached, x) PROVE ~After(next1, x)
  <2>1. x \in Moments /\ Digits(x) \in Numbers
        BY <1>13, MomentNumbers DEF FitsIn
  <2>2. NextFor(Digits(next1), Digits(reached), Digits(x), 4)
    <3>1. NextFor(Digits(w), Digits(reached), Digits(x), 4)
          BY <1>4, <2>1 DEF IsNext
    <3> QED BY <1>10, <3>1 DEF NextFor, Above, Same
  <2>3. \A i \in 1 .. 3 : Digits(next1)[i] <= Digits(x)[i]
        BY <1>10, <1>13, FitsAbove
  <2>4. ~Same(Digits(x), Digits(reached), 4)
    <3>1. \A z : Digits(z)[4] = z.day /\ Digits(z)[5] = z.month /\ Digits(z)[6] = z.year
          BY DEF Digits, Units
    <3> QED BY <1>13, <3>1 DEF Same, SameDay
  <2>5. PICK k \in 1 .. 5 : k = 3 /\ k + 1 = 4
        OBVIOUS
  <2>6. ~Above(Digits(reached), Digits(x), 1)
        BY <1>13, AfterIs
  <2>7. ~Above(Digits(next1), Digits(x), 1)
    <3>1. NextFor(Digits(next1), Digits(reached), Digits(x), k + 1) /\ \A i \in 1 .. k : Digits(next1)[i] <= Digits(x)[i]
          BY <2>2, <2>3, <2>5
    <3>2. ~Same(Digits(x), Digits(reached), k + 1)
          BY <2>4, <2>5
    <3> QED BY <1>9, <2>1, <2>6, <3>1, <3>2, RolledOver
  <2> QED BY <2>7, AfterIs
<1>14. next1.month # reached.month => next1.day = 1
  <2>1. reached.month = mo
        BY <1>1 DEF Moment
  <2> QED BY <1>5, <1>8, <2>1
<1> QED BY <1>8, <1>12, <1>13, <1>14

\* What the loop does with an iteration more than those of f.
Searched(p, f, t) ==
  IF BeyondYear(p, t) \/ ~Exists(DateFrom(p, t)) THEN NoDate
  ELSE IF Weekday(DateFrom(p, t)) \in p.weekday THEN Found(DateFrom(p, t))
  ELSE f[AfterDate(p, DateFrom(p, t))]

Results == {None, NoDate} \cup {Found(t) : t \in Moments}

LEMMA SearchedType ==
  ASSUME NEW p \in Pattern, NEW f \in [Moments -> Results], NEW t \in Moments
  PROVE  Searched(p, f, t) \in Results
<1>1. CASE BeyondYear(p, t) \/ ~Exists(DateFrom(p, t))
      BY <1>1 DEF Searched, Results
<1>2. CASE ~(BeyondYear(p, t) \/ ~Exists(DateFrom(p, t)))
  <2>1. DateFrom(p, t) \in Moments
        BY <1>2, DateOK DEF Moments
  <2>2. AfterDate(p, DateFrom(p, t)) \in Moments
        BY <2>1, AfterDateOK
  <2> QED BY <1>2, <2>1, <2>2 DEF Searched, Results
<1> QED BY <1>1, <1>2

LEMMA SearchIs ==
  ASSUME NEW p \in Pattern
  PROVE  \A left \in 0 .. MaxIter, t \in Moments :
           SearchDate(p)[left][t] = IF left = 0 THEN None ELSE Searched(p, SearchDate(p)[left - 1], t)
<1> DEFINE V == [Moments -> Results]
           first == [t \in Moments |-> None]
           step == [a \in (1 .. MaxIter) \X V |-> [t \in Moments |-> Searched(p, a[2], t)]]
           Is(f) == f = [left \in 0 .. MaxIter |->
                           [t \in Moments |->
                              IF left = 0 THEN None ELSE Searched(p, f[left - 1], t)]]
<1>1. first \in V
      BY DEF Results
<1>2. step \in [(1 .. MaxIter) \X V -> V]
      BY SearchedType
<1> HIDE DEF first, step
<1>3. PICK f : Iterates(f, V, first, MaxIter, step)
      BY <1>1, <1>2, Calendar, Recursion
<1>4. f \in [0 .. MaxIter -> V] /\ f[0] = first /\ \A n \in 1 .. MaxIter : f[n] = step[<<n, f[n - 1]>>]
      BY <1>3 DEF Iterates
<1>5. ASSUME NEW left \in 0 .. MaxIter
      PROVE  f[left] = [t \in Moments |-> IF left = 0 THEN None ELSE Searched(p, f[left - 1], t)]
  <2>1. CASE left = 0
        BY <1>4, <2>1 DEF first
  <2>2. CASE left # 0
    <3>1. left \in 1 .. MaxIter /\ left - 1 \in 0 .. MaxIter
          BY <2>2, Calendar
    <3>2. <<left, f[left - 1]>> \in (1 .. MaxIter) \X V
          BY <1>4, <3>1
    <3>3. step[<<left, f[left - 1]>>] = [t \in Moments |-> Searched(p, f[left - 1], t)]
          BY <3>2 DEF step
    <3> QED BY <1>4, <2>2, <3>1, <3>3
  <2> QED BY <2>1, <2>2
<1>6. Is(f)
  <2> DEFINE g == [left \in 0 .. MaxIter |->
                     [t \in Moments |-> IF left = 0 THEN None ELSE Searched(p, f[left - 1], t)]]
  <2>1. \A left \in 0 .. MaxIter : f[left] = g[left]
        BY <1>5
  <2>2. DOMAIN f = 0 .. MaxIter /\ DOMAIN g = 0 .. MaxIter /\ f = [left \in DOMAIN f |-> f[left]]
        BY <1>4
  <2> QED BY <2>1, <2>2
<1>7. SearchDate(p) = CHOOSE g : Is(g)
      BY DEF SearchDate, Searched
<1>8. Is(SearchDate(p))
      BY <1>6, <1>7, Zenon
<1>9. ASSUME NEW left \in 0 .. MaxIter
      PROVE  SearchDate(p)[left] =
               [t \in Moments |-> IF left = 0 THEN None ELSE Searched(p, SearchDate(p)[left - 1], t)]
  <2>1. PICK g : g = SearchDate(p)
        OBVIOUS
  <2>2. Is(g)
        BY <1>8, <2>1
  <2>3. g[left] = [t \in Moments |-> IF left = 0 THEN None ELSE Searched(p, g[left - 1], t)]
        BY <2>2
  <2> QED BY <2>1, <2>3
<1> QED BY <1>9

-----------------------------------------------------------------------------
(* What the search promises. *)

LEMMA WeekdayOfDay ==
  ASSUME NEW t, NEW u, SameDay(t, u) PROVE Weekday(t) = Weekday(u)
BY DEF SameDay, Weekday, DayNumber

Wanted(p, x) == FitsIn(p, x) /\ Weekday(x) \in p.weekday

\* From t to u nothing is lost that also fits the weekday.
WideStep(p, t, u) ==
  /\ u = t \/ After(u, t)
  /\ \A x : Wanted(p, x) /\ ~After(t, x) => ~After(u, x)

LEMMA WideStepsCompose ==
  ASSUME NEW p \in Pattern, NEW t \in Moments, NEW u \in Moments, NEW w \in Moments,
         WideStep(p, t, u), WideStep(p, u, w)
  PROVE  WideStep(p, t, w)
<1>1. Digits(t) \in Numbers /\ Digits(u) \in Numbers /\ Digits(w) \in Numbers
      BY MomentNumbers
<1>2. ASSUME After(u, t), After(w, u) PROVE After(w, t)
  <2>1. PICK one \in 1 .. 6 : one = 1
        OBVIOUS
  <2>2. Above(Digits(w), Digits(u), one) /\ Above(Digits(u), Digits(t), one)
        BY <1>2, <2>1, AfterIs
  <2>3. Above(Digits(w), Digits(t), one)
        BY <1>1, <2>2, AboveTransitive
  <2> QED BY <2>1, <2>3, AfterIs
<1>3. w = t \/ After(w, t)
      BY <1>2 DEF WideStep
<1>4. ASSUME NEW x, Wanted(p, x), ~After(t, x) PROVE ~After(w, x)
      BY <1>4 DEF WideStep
<1> QED BY <1>3, <1>4 DEF WideStep

\* A date is found for t
FoundFor(p, t, reached) ==
  /\ reached \in Moments /\ Weekday(reached) \in p.weekday /\ ClockFits(p, reached, 3)
  /\ EveryMonth(p) => reached.day \in p.day
  /\ EveryMonth(p) /\ FirstMonth(p) => reached.month \in p.month
  /\ FirstMonth(p) => WideStep(p, t, reached)

ResultFor(p, t, r) == r \in {None, NoDate} \/ \E reached : r = Found(reached) /\ FoundFor(p, t, reached)

\* An iteration goes on with the day after its date.
LEMMA DayPasses ==
  ASSUME NEW p \in Pattern, NEW t \in Moments, ~BeyondYear(p, t), NEW reached, reached = DateFrom(p, t),
         Exists(reached), Weekday(reached) \notin p.weekday, FirstMonth(p)
  PROVE  WideStep(p, t, AfterDate(p, reached))
<1>1. reached \in Moments /\ Step(p, t, reached)
      BY DateOK DEF Moments
<1> DEFINE next1 == AfterDate(p, reached)
<1>2. /\ next1 \in Moments /\ After(next1, reached)
      /\ \A x : FitsIn(p, x) /\ ~SameDay(x, reached) /\ ~After(reached, x) => ~After(next1, x)
      BY <1>1, AfterDateOK
<1> HIDE DEF next1
<1>3. WideStep(p, t, reached)
      BY <1>1 DEF Step, WideStep, Wanted
<1>4. ASSUME NEW x, Wanted(p, x), ~After(reached, x) PROVE ~After(next1, x)
  <2>1. ~SameDay(x, reached)
        BY <1>4, WeekdayOfDay DEF Wanted
  <2> QED BY <1>2, <1>4, <2>1 DEF Wanted
<1>5. WideStep(p, reached, next1)
      BY <1>2, <1>4 DEF WideStep
<1>6. WideStep(p, t, next1)
      BY <1>1, <1>2, <1>3, <1>5, WideStepsCompose
<1> QED BY <1>6 DEF next1

LEMMA SearchedFor ==
  ASSUME NEW p \in Pattern, NEW f, NEW t \in Moments, ClockFits(p, t, 3),
         \A u \in Moments : ClockFits(p, u, 3) => ResultFor(p, u, f[u])
  PROVE  ResultFor(p, t, Searched(p, f, t))
<1> DEFINE reached == DateFrom(p, t)
           next1 == AfterDate(p, reached)
<1>1. CASE BeyondYear(p, t) \/ ~Exists(reached)
      BY <1>1 DEF Searched, ResultFor
<1>2. CASE ~BeyondYear(p, t) /\ Exists(reached)
  <2>1. /\ reached \in Moments /\ ClockFits(p, reached, 3)
        /\ EveryMonth(p) => reached.day \in p.day
        /\ EveryMonth(p) /\ FirstMonth(p) => reached.month \in p.month
        /\ FirstMonth(p) => Step(p, t, reached)
        BY <1>2, DateOK DEF Moments
  <2>2. next1 \in Moments /\ ClockFits(p, next1, 3)
        BY <2>1, AfterDateOK
  <2>3. CASE Weekday(reached) \in p.weekday
    <3>1. Searched(p, f, t) = Found(reached)
          BY <1>2, <2>3 DEF Searched
    <3>2. FirstMonth(p) => WideStep(p, t, reached)
          BY <2>1 DEF Step, WideStep, Wanted
    <3>3. FoundFor(p, t, reached)
          BY <2>1, <2>3, <3>2 DEF FoundFor
    <3> QED BY <3>1, <3>3 DEF ResultFor
  <2>4. CASE Weekday(reached) \notin p.weekday
    <3>1. Searched(p, f, t) = f[next1]
          BY <1>2, <2>4 DEF Searched
    <3>2. FirstMonth(p) => WideStep(p, t, next1)
          BY <1>2, <2>4, DayPasses
    <3> HIDE DEF next1, reached
    <3>3. ResultFor(p, next1, f[next1])
          BY <2>2
    <3>4. ASSUME NEW found, FoundFor(p, next1, found) PROVE FoundFor(p, t, found)
      <4>1. FirstMonth(p) => WideStep(p, t, found)
            BY <2>2, <3>2, <3>4, WideStepsCompose DEF FoundFor
      <4> QED BY <3>4, <4>1 DEF FoundFor
    <3> QED BY <3>1, <3>3, <3>4 DEF ResultFor
  <2> QED BY <2>3, <2>4
<1> QED BY <1>1, <1>2

LEMMA SearchFor ==
  ASSUME NEW p \in Pattern, NEW t \in Moments, ClockFits(p, t, 3)
  PROVE  ResultFor(p, t, SearchDate(p)[MaxIter][t])
<1> DEFINE Good(left) == \A u \in Moments : ClockFits(p, u, 3) => ResultFor(p, u, SearchDate(p)[left][u])
           T == {left \in Nat : left <= MaxIter => Good(left)}
<1>1. 0 \in T
  <2>1. ASSUME NEW u \in Moments PROVE ResultFor(p, u, SearchDate(p)[0][u])
    <3>1. PICK zero \in 0 .. MaxIter : zero = 0
          BY Calendar
    <3>2. SearchDate(p)[zero][u] = None
          BY <3>1, SearchIs
    <3> QED BY <3>1, <3>2 DEF ResultFor
  <2> QED BY <2>1
<1>2. ASSUME NEW n \in Nat, n \in T PROVE n + 1 \in T
  <2> SUFFICES ASSUME n + 1 <= MaxIter, NEW u \in Moments, ClockFits(p, u, 3)
               PROVE  ResultFor(p, u, SearchDate(p)[n + 1][u])
      OBVIOUS
  <2>1. PICK left \in 0 .. MaxIter : left = n + 1
        BY Calendar
  <2>2. left # 0 /\ left - 1 = n /\ n <= MaxIter
        BY <2>1, Calendar
  <2>3. SearchDate(p)[left][u] = Searched(p, SearchDate(p)[left - 1], u)
        BY <2>2, SearchIs
  <2>4. Good(n)
        BY <1>2, <2>2
  <2> DEFINE f == SearchDate(p)[n]
  <2>5. \A z \in Moments : ClockFits(p, z, 3) => ResultFor(p, z, f[z])
        BY <2>4
  <2> HIDE DEF f, T
  <2>6. ResultFor(p, u, Searched(p, f, u))
        BY <2>5, SearchedFor
  <2> QED BY <2>1, <2>2, <2>3, <2>6 DEF f
<1>3. MaxIter \in Nat
      BY Calendar
<1> HIDE DEF T
<1>4. MaxIter \in T
      BY <1>1, <1>2, <1>3, Induction
<1> QED BY <1>3, <1>4 DEF T

-----------------------------------------------------------------------------
(* What a calculation promises. *)

\* The clock part of a calculation: from the second after now.
LEMMA ClockStep ==
  ASSUME NEW p \in Pattern, NEW t \in Moments,
         NEW start, start = Carry([t EXCEPT !.second = @ + 1]),
         NEW time, time = Advance(p, Advance(p, Advance(p, start, 1), 2), 3)
  PROVE  /\ IsNext(start, t, 1) /\ start \in Moments
         /\ time \in Moments /\ ClockFits(p, time, 3) /\ Step(p, start, time)
<1>1. IsNext(start, t, 1)
  <2>1. PICK s \in 0 .. SecondMax, m \in 0 .. MinuteMax, h \in 0 .. HourMax, d \in 1 .. Longest,
            mo \in 1 .. MonthMax, y \in Nat :
          t = Moment(s, m, h, d, mo, y) /\ d <= DaysOfMonth(y, mo)
        BY MomentsAre
  <2>2. d \in Nat \ {0}
        BY LongestOf
  <2>3. [t EXCEPT !.second = @ + 1] = Moment(s + 1, m, h, d, mo, y)
        BY <2>1 DEF Moment
  <2> QED BY <2>1, <2>2, <2>3, NextSecond
<1>2. start \in Moments
      BY <1>1 DEF IsNext
<1> DEFINE second == Advance(p, start, 1)
           minute == Advance(p, second, 2)
<1>3. second \in Moments /\ ClockFits(p, second, 1) /\ Step(p, start, second)
      BY <1>2, AdvanceSecond
<1> HIDE DEF second
<1>4. minute \in Moments /\ ClockFits(p, minute, 2) /\ Step(p, second, minute)
      BY <1>3, AdvanceMinute
<1>5. time = Advance(p, minute, 3)
      BY DEF second
<1> HIDE DEF minute
<1>6. time \in Moments /\ ClockFits(p, time, 3) /\ Step(p, minute, time)
      BY <1>4, <1>5, AdvanceHour
<1>7. /\ Digits(start) \in Numbers /\ Digits(second) \in Numbers
      /\ Digits(minute) \in Numbers /\ Digits(time) \in Numbers
      BY <1>2, <1>3, <1>4, <1>6, MomentNumbers
<1>8. Step(p, start, minute)
      BY <1>3, <1>4, <1>7, StepsCompose
<1>9. Step(p, start, time)
      BY <1>6, <1>7, <1>8, StepsCompose
<1> QED BY <1>1, <1>2, <1>6, <1>9

\* date is the first wanted moment after t.
FirstAfter(p, t, reached) ==
  /\ After(reached, t)
  /\ \A x : Wanted(p, x) /\ After(x, t) => ~After(reached, x)

LEMMA NextOccurrenceFor ==
  ASSUME NEW p \in Pattern, NEW t \in Moments, NEW r, r = NextOccurrence(p, t)
  PROVE  \/ r \in {None, NoDate}
         \/ \E reached \in Moments :
              /\ r = Found(reached) /\ Weekday(reached) \in p.weekday /\ ClockFits(p, reached, 3)
              /\ EveryMonth(p) => reached.day \in p.day
              /\ EveryMonth(p) /\ FirstMonth(p) => reached.month \in p.month
              /\ FirstMonth(p) => FirstAfter(p, t, reached)
<1> DEFINE start == Carry([t EXCEPT !.second = @ + 1])
           time == Advance(p, Advance(p, Advance(p, start, 1), 2), 3)
<1>1. /\ IsNext(start, t, 1) /\ start \in Moments
      /\ time \in Moments /\ ClockFits(p, time, 3) /\ Step(p, start, time)
      BY ClockStep
<1>2. r = SearchDate(p)[MaxIter][time]
      BY DEF NextOccurrence
<1> HIDE DEF start, time
<1>3. ResultFor(p, time, r)
      BY <1>1, <1>2, SearchFor
<1>4. ASSUME NEW reached, FoundFor(p, time, reached), FirstMonth(p) PROVE FirstAfter(p, t, reached)
  <2>1. WideStep(p, start, time)
        BY <1>1 DEF Step, WideStep, Wanted
  <2>2. reached \in Moments /\ WideStep(p, time, reached)
        BY <1>4 DEF FoundFor
  <2>3. WideStep(p, start, reached)
        BY <1>1, <2>1, <2>2, WideStepsCompose
  <2>4. Digits(start) \in Numbers /\ Digits(t) \in Numbers /\ Digits(reached) \in Numbers
        BY <1>1, <2>2, MomentNumbers
  <2>5. PICK one \in 1 .. 6 : one = 1
        OBVIOUS
  <2>6. Above(Digits(start), Digits(t), one) /\ \A x \in Moments : NextFor(Digits(start), Digits(t), Digits(x), one)
        BY <1>1, <2>5 DEF IsNext
  <2>7. After(reached, t)
    <3>1. CASE reached = start
          BY <2>5, <2>6, <3>1, AfterIs
    <3>2. CASE After(reached, start)
      <4>1. Above(Digits(reached), Digits(start), one)
            BY <2>5, <3>2, AfterIs
      <4>2. Above(Digits(reached), Digits(t), one)
            BY <2>4, <2>6, <4>1, AboveTransitive
      <4> QED BY <2>5, <4>2, AfterIs
    <3> QED BY <2>3, <3>1, <3>2 DEF WideStep
  <2>8. ASSUME NEW x, Wanted(p, x), After(x, t) PROVE ~After(reached, x)
    <3>1. x \in Moments
          BY <2>8 DEF Wanted, FitsIn
    <3>2. ~Above(Digits(start), Digits(x), one)
      <4>1. Above(Digits(x), Digits(t), one)
            BY <2>5, <2>8, AfterIs
      <4> QED BY <2>6, <3>1, <4>1 DEF NextFor
    <3>3. ~After(start, x)
          BY <2>5, <3>2, AfterIs
    <3> QED BY <2>3, <2>8, <3>3 DEF WideStep
  <2> QED BY <2>7, <2>8 DEF FirstAfter
<1> QED BY <1>3, <1>4 DEF ResultFor, FoundFor

\* The definitions of PeriodicSchedule, for the pattern of a state
LEMMA PatternDomain ==
  ASSUME NEW p \in Pattern
  PROVE  (DOMAIN p) \ {"weekday"} = {"second", "minute", "hour", "day", "month"}
BY DEF Pattern

LEMMA FittingWanted ==
  ASSUME NEW p \in Pattern, NEW years \in SUBSET Nat, NEW x \in Fitting(p, years)
  PROVE  Wanted(p, x)
<1>1. /\ x \in [second : p.second, minute : p.minute, hour : p.hour,
                day : p.day, month : p.month, year : years]
      /\ Matches(p, x) /\ x.day < DaysOfMonth(x.year, x.month)
      BY DEF Fitting
<1>2. /\ x.second \in p.second /\ x.minute \in p.minute /\ x.hour \in p.hour
      /\ x.day \in p.day /\ x.month \in p.month /\ x.year \in Nat
      BY <1>1
<1>3. x \in DateTimes(Nat)
  <2>1. /\ x.second \in 0 .. SecondMax /\ x.minute \in 0 .. MinuteMax /\ x.hour \in 0 .. HourMax
        /\ x.day \in 1 .. Longest /\ x.month \in 1 .. MonthMax
        BY <1>2, PatternOf
  <2> QED BY <1>1, <1>2, <2>1 DEF DateTimes
<1> QED BY <1>1, <1>2, <1>3 DEF Matches, Wanted, FitsIn, Moments

LEMMA FoundMatches ==
  ASSUME NEW p \in Pattern, NEW t \in Moments, Weekday(t) \in p.weekday, ClockFits(p, t, 3),
         t.day \in p.day, t.month \in p.month
  PROVE  Matches(p, t)
<1>1. t.second \in p.second /\ t.minute \in p.minute /\ t.hour \in p.hour
      BY DEF ClockFits
<1> QED BY <1>1, PatternDomain DEF Matches, Moments

-----------------------------------------------------------------------------
(* When a date is refused. *)

\* A date is only refused in the last month, or after it.
NotAtTheEnd(p) ==
  Min(p.day) < Shortest /\ FirstMonth(p) /\ MonthMax \notin p.month

LEMMA FirstDayOf ==
  ASSUME NEW p \in Pattern, Min(p.day) < Shortest
  PROVE  /\ EveryMonth(p) /\ Shortest \in Nat /\ 1 < Shortest
         /\ Min(p.day) \in p.day /\ Min(p.day) \in Nat /\ 1 <= Min(p.day)
<1>1. p.day \in SUBSET Nat /\ p.day # {} /\ \A d \in p.day : 1 <= d
      BY PatternOf, LongestOf
<1>2. Min(p.day) \in p.day
      BY <1>1, MinOf
<1>3. Shortest \in Nat
      BY ShortestOf
<1> QED BY <1>1, <1>2, <1>3 DEF EveryMonth

\* The date of a moment
DateIn(t) == t.day \in Nat \ {0} /\ t.month \in 1 .. MonthMax /\ t.year \in Nat

LEMMA MomentIn == ASSUME NEW t \in Moments PROVE DateIn(t)
<1>1. PICK s \in 0 .. SecondMax, m \in 0 .. MinuteMax, h \in 0 .. HourMax, d \in 1 .. Longest,
          mo \in 1 .. MonthMax, y \in Nat :
        t = Moment(s, m, h, d, mo, y) /\ d <= DaysOfMonth(y, mo)
      BY MomentsAre
<1> QED BY <1>1, LongestOf DEF Moment, DateIn

\* On the first day of the last month, the day needs no rollover.
LEMMA FirstDayStays ==
  ASSUME NEW p \in Pattern, Min(p.day) < Shortest, NEW t \in Moments, t.month = MonthMax => t.day = 1
  PROVE  ~BeyondYear(p, t)
<1> SUFFICES ASSUME BeyondYear(p, t) PROVE FALSE
    OBVIOUS
<1>1. t.month = MonthMax /\ NextPossibleValue(p.day, t.day, Limit("day", t)).rollover
      BY DEF BeyondYear
<1>2. t.year \in Nat /\ t.month \in 1 .. MonthMax /\ t.day \in Nat
      BY MomentIn DEF DateIn
<1> DEFINE days == DaysOfMonth(t.year, t.month)
<1>3. Limit("day", t) = days
      BY DEF Limit
<1>4. days \in Nat /\ Shortest <= days
      BY <1>2, Calendar, ShortestOf
<1> HIDE DEF days
<1>5. p.day \in SUBSET Nat /\ p.day # {}
      BY PatternOf, LongestOf
<1>6. PICK v, r, c : Possible(p.day, t.day, days, v, r, c)
      BY <1>2, <1>4, <1>5, NextPossible
<1>7. /\ NextPossibleValue(p.day, t.day, days) = [value |-> v, rollover |-> r, changed |-> c]
      /\ r => \A i \in p.day : ~(t.day <= i /\ i < days)
      BY <1>6 DEF Possible
<1>8. r
      BY <1>1, <1>3, <1>7
<1>9. /\ Min(p.day) \in p.day /\ Min(p.day) \in Nat /\ 1 <= Min(p.day)
      /\ Shortest \in Nat
      BY FirstDayOf
<1> QED BY <1>1, <1>2, <1>4, <1>7, <1>8, <1>9

LEMMA ClockOnly ==
  ASSUME NEW p, NEW q, NEW t, NEW k \in 1 .. 3,
         p.second = q.second, p.minute = q.minute, p.hour = q.hour
  PROVE  Advance(p, t, k) = Advance(q, t, k)
<1>1. p[Units[k]] = q[Units[k]]
      BY DEF Units
<1>2. ASSUME NEW x PROVE FirstPossibleValues(p, x, k - 1) = FirstPossibleValues(q, x, k - 1)
  <2>1. \A i \in 1 .. k - 1 : p[Units[i]] = q[Units[i]]
        BY DEF Units
  <2>2. \A u \in DOMAIN x :
          (IF \E i \in 1 .. k - 1 : Units[i] = u THEN Min(p[u]) ELSE x[u])
            = IF \E i \in 1 .. k - 1 : Units[i] = u THEN Min(q[u]) ELSE x[u]
        BY <2>1
  <2> QED BY <2>2 DEF FirstPossibleValues
<1> QED BY <1>1, <1>2 DEF Advance

\* The first moment after t lies on the first day, where it lies in the last
\* month and t does not.
LEMMA StartsOnFirstDay ==
  ASSUME NEW p \in Pattern, Min(p.day) < Shortest, NEW t \in Moments, t.month # MonthMax,
         NEW start, start = Carry([t EXCEPT !.second = @ + 1]),
         NEW time, time = Advance(p, Advance(p, Advance(p, start, 1), 2), 3),
         time.month = MonthMax
  PROVE  time.day = 1
<1> DEFINE q == [p EXCEPT !.month = p.month \cup {MonthMax}, !.day = {1}]
<1>1. /\ q.second = p.second /\ q.minute = p.minute /\ q.hour = p.hour
      /\ q.day = {1} /\ MonthMax \in q.month
      BY DEF Pattern
<1>2. q \in Pattern
  <2>1. {1} \in (SUBSET (1 .. Longest)) \ {{}}
        BY LongestOf
  <2>2. p.month \cup {MonthMax} \in (SUBSET (1 .. MonthMax)) \ {{}}
        BY PatternOf, Calendar
  <2> QED BY <2>1, <2>2 DEF Pattern
<1> HIDE DEF q
<1>3. time = Advance(q, Advance(q, Advance(q, start, 1), 2), 3)
  <2>1. ASSUME NEW k \in 1 .. 3, NEW u PROVE Advance(q, u, k) = Advance(p, u, k)
        BY <1>1, ClockOnly
  <2> QED BY <2>1
<1>4. /\ IsNext(start, t, 1) /\ start \in Moments /\ time \in Moments
      /\ ClockFits(q, time, 3) /\ Step(q, start, time)
      BY <1>2, <1>3, ClockStep
<1>5. PICK s \in q.second, m \in q.minute, h \in q.hour : TRUE
      BY <1>2, PatternOf
<1>6. s \in 0 .. SecondMax /\ m \in 0 .. MinuteMax /\ h \in 0 .. HourMax
      BY <1>2, PatternOf
<1>7. DateIn(t) /\ DateIn(time)
      BY <1>4, MomentIn
<1> DEFINE y == t.year
           x == Moment(s, m, h, 1, MonthMax, y)
<1>8. 1 < DaysOfMonth(y, MonthMax) /\ MonthMax \in 1 .. MonthMax /\ y \in Nat
  <2>1. MonthMax \in 1 .. MonthMax /\ y \in Nat
        BY <1>7, Calendar DEF DateIn
  <2>2. Shortest <= DaysOfMonth(y, MonthMax) /\ DaysOfMonth(y, MonthMax) \in Nat
        BY <2>1, Calendar, ShortestOf
  <2> QED BY <2>1, <2>2, FirstDayOf
<1>9. /\ x.second = s /\ x.minute = m /\ x.hour = h /\ x.day = 1 /\ x.month = MonthMax /\ x.year = y
      BY DEF Moment
<1>10. x \in Moments
  <2>1. PICK d \in Nat \ {0} : d = 1
        OBVIOUS
  <2>2. DaysOfMonth(y, MonthMax) \in Nat
        BY <1>8, Calendar
  <2>3. d <= DaysOfMonth(y, MonthMax)
        BY <1>8, <2>1, <2>2
  <2>4. Moment(s, m, h, d, MonthMax, y) \in Moments
        BY <1>6, <1>8, <2>3, IsMoment
  <2> QED BY <2>1, <2>4
<1> HIDE DEF x
<1>11. FitsIn(q, x)
  <2>1. x.second \in q.second /\ x.minute \in q.minute /\ x.hour \in q.hour
        BY <1>9
  <2>2. x.day \in q.day /\ x.month \in q.month
        BY <1>1, <1>9
  <2>3. x.day < DaysOfMonth(x.year, x.month)
        BY <1>8, <1>9
  <2> QED BY <1>10, <2>1, <2>2, <2>3 DEF FitsIn
<1>12. PICK one \in 1 .. 6 : one = 1
       OBVIOUS
<1>13. /\ Digits(t) \in Numbers /\ Digits(start) \in Numbers
       /\ Digits(time) \in Numbers /\ Digits(x) \in Numbers
       BY <1>4, <1>10, MomentNumbers
<1>14. \A z : Digits(z)[4] = z.day /\ Digits(z)[5] = z.month /\ Digits(z)[6] = z.year
       BY DEF Digits, Units
<1>15. PICK five \in 1 .. 6 : five = 5
       OBVIOUS
<1>16. Above(Digits(x), Digits(t), one)
  <2>1. Digits(x)[five] > Digits(t)[five] /\ Same(Digits(x), Digits(t), five + 1)
    <3>1. t.month < MonthMax
      <4>1. t.month \in 1 .. MonthMax
            BY <1>7 DEF DateIn
      <4>2. MonthMax \in Nat
            BY Calendar
      <4> QED BY <4>1, <4>2
    <3> QED BY <1>9, <1>14, <1>15, <3>1 DEF Same
  <2>2. Above(Digits(x), Digits(t), five) /\ one \in 1 .. five
        BY <1>12, <1>13, <1>15, <2>1, AboveAt
  <2> QED BY <1>13, <2>2, AboveLower
<1>17. /\ Above(Digits(start), Digits(t), one)
       /\ NextFor(Digits(start), Digits(t), Digits(x), one)
       BY <1>4, <1>10, <1>12 DEF IsNext
<1>18. ~Above(Digits(time), Digits(x), one)
  <2>1. ~Above(Digits(start), Digits(x), one)
        BY <1>16, <1>17 DEF NextFor
  <2>2. ~After(start, x)
        BY <1>12, <2>1, AfterIs
  <2>3. ~After(time, x)
        BY <1>4, <1>11, <2>2 DEF Step
  <2> QED BY <1>12, <2>3, AfterIs
<1>19. Above(Digits(time), Digits(t), one)
  <2>1. CASE time = start
        BY <1>17, <2>1
  <2>2. CASE After(time, start)
    <3>1. Above(Digits(time), Digits(start), one)
          BY <1>12, <2>2, AfterIs
    <3> QED BY <1>13, <1>17, <3>1, AboveTransitive
  <2> QED BY <1>4, <2>1, <2>2 DEF Step
<1>20. time.year >= t.year
  <2>1. Digits(time)[6] >= Digits(t)[6]
        BY <1>12, <1>13, <1>19 DEF Above, Numbers
  <2> QED BY <1>14, <2>1
<1>21. PICK six \in 1 .. 6 : six = 6
       OBVIOUS
<1>22. time.year = t.year
  <2>1. ASSUME time.year > t.year PROVE FALSE
    <3>1. Digits(time)[six] > Digits(x)[six] /\ Same(Digits(time), Digits(x), six + 1)
          BY <1>9, <1>14, <1>21, <2>1 DEF Same
    <3>2. Above(Digits(time), Digits(x), six) /\ one \in 1 .. six
          BY <1>12, <1>13, <1>21, <3>1, AboveAt
    <3> QED BY <1>13, <1>18, <3>2, AboveLower
  <2> QED BY <1>7, <1>20, <2>1 DEF DateIn
<1>23. PICK four \in 1 .. 6 : four = 4
       OBVIOUS
<1> SUFFICES ASSUME time.day > 1 PROVE FALSE
    BY <1>7 DEF DateIn
<1>24. Digits(time)[four] > Digits(x)[four] /\ Same(Digits(time), Digits(x), four + 1)
       BY <1>9, <1>14, <1>22, <1>23 DEF Same
<1>25. Above(Digits(time), Digits(x), four) /\ one \in 1 .. four
       BY <1>12, <1>13, <1>23, <1>24, AboveAt
<1> QED BY <1>13, <1>18, <1>25, AboveLower

LEMMA NeverRefused ==
  ASSUME NEW p \in Pattern, NotAtTheEnd(p), NEW t \in Moments, t.month = MonthMax => t.day = 1
  PROVE  SearchDate(p)[MaxIter][t] # NoDate
<1> DEFINE Good(left) ==
             \A u \in Moments : (u.month = MonthMax => u.day = 1) => SearchDate(p)[left][u] # NoDate
           T == {left \in Nat : left <= MaxIter => Good(left)}
<1>1. 0 \in T
  <2>1. ASSUME NEW u \in Moments PROVE SearchDate(p)[0][u] # NoDate
    <3>1. PICK zero \in 0 .. MaxIter : zero = 0
          BY Calendar
    <3>2. SearchDate(p)[zero][u] = None
          BY <3>1, SearchIs
    <3>3. None # NoDate
          BY DEF None, NoDate
    <3> QED BY <3>1, <3>2, <3>3
  <2> QED BY <2>1
<1>2. ASSUME NEW n \in Nat, n \in T PROVE n + 1 \in T
  <2> SUFFICES ASSUME n + 1 <= MaxIter, NEW u \in Moments, u.month = MonthMax => u.day = 1
               PROVE  SearchDate(p)[n + 1][u] # NoDate
      OBVIOUS
  <2>1. PICK left \in 0 .. MaxIter : left = n + 1
        BY Calendar
  <2>2. left # 0 /\ left - 1 = n /\ n <= MaxIter
        BY <2>1, Calendar
  <2>3. SearchDate(p)[left][u] = Searched(p, SearchDate(p)[left - 1], u)
        BY <2>2, SearchIs
  <2>4. Good(n)
        BY <1>2, <2>2
  <2>5. ~BeyondYear(p, u)
        BY FirstDayStays DEF NotAtTheEnd
  <2> DEFINE f == SearchDate(p)[n]
             reached == DateFrom(p, u)
             next1 == AfterDate(p, reached)
  <2>6. Exists(reached) /\ reached \in Moments /\ reached.month \in p.month
    <3>1. EveryMonth(p) /\ FirstMonth(p)
          BY FirstDayOf DEF NotAtTheEnd
    <3> QED BY <2>5, <3>1, DateOK DEF Moments
  <2>7. next1 \in Moments /\ (next1.month # reached.month => next1.day = 1)
        BY <2>6, AfterDateOK
  <2>8. next1.month = MonthMax => next1.day = 1
        BY <2>6, <2>7 DEF NotAtTheEnd
  <2> HIDE DEF T
  <2>9. f[next1] # NoDate
        BY <2>4, <2>7, <2>8
  <2>10. Found(reached) # NoDate
    <3>1. Found(reached).kind = "found" /\ NoDate.kind = "refused"
          BY DEF Found, NoDate
    <3> QED BY <3>1
  <2> HIDE DEF f
  <2>11. Searched(p, f, u) # NoDate
         BY <2>5, <2>6, <2>9, <2>10 DEF Searched
  <2> QED BY <2>1, <2>2, <2>3, <2>11 DEF f
<1>3. MaxIter \in Nat
      BY Calendar
<1> HIDE DEF T
<1>4. MaxIter \in T
      BY <1>1, <1>2, <1>3, Induction
<1> QED BY <1>3, <1>4 DEF T

LEMMA NextNotRefused ==
  ASSUME NEW p \in Pattern, NotAtTheEnd(p), NEW t \in Moments, t.month # MonthMax
  PROVE  NextOccurrence(p, t) # NoDate
<1> DEFINE start == Carry([t EXCEPT !.second = @ + 1])
           time == Advance(p, Advance(p, Advance(p, start, 1), 2), 3)
<1>1. time \in Moments
      BY ClockStep
<1>2. time.month = MonthMax => time.day = 1
      BY StartsOnFirstDay DEF NotAtTheEnd
<1>3. NextOccurrence(p, t) = SearchDate(p)[MaxIter][time]
      BY DEF NextOccurrence
<1> HIDE DEF start, time
<1> QED BY <1>1, <1>2, <1>3, NeverRefused

-----------------------------------------------------------------------------
(* The chain of triggers. *)

CalendarInv == pattern \in Patterns /\ now \in Moments /\ next = NextOccurrence(pattern, now)

LEMMA FirstYearHasMoments ==
  /\ \E t \in DateTimes({FirstYear}) : Exists(t)
  /\ \A t \in DateTimes({FirstYear}) : Exists(t) => t \in Moments
<1> DEFINE t == Moment(0, 0, 0, 1, 1, FirstYear)
<1>1. /\ t.second = 0 /\ t.minute = 0 /\ t.hour = 0
      /\ t.day = 1 /\ t.month = 1 /\ t.year = FirstYear
      BY DEF Moment
<1>2. FirstYear \in Nat /\ 1 \in 1 .. MonthMax /\ 1 \in 1 .. Longest
      BY Calendar, LongestOf
<1>3. 0 \in 0 .. SecondMax /\ 0 \in 0 .. MinuteMax /\ 0 \in 0 .. HourMax
      BY Calendar
<1>4. t \in DateTimes({FirstYear})
      BY <1>2, <1>3 DEF DateTimes, Moment
<1>5. DaysOfMonth(FirstYear, 1) \in Nat \ {0}
      BY <1>2, Calendar
<1>6. 1 <= DaysOfMonth(FirstYear, 1)
      BY <1>5
<1>7. Exists(t)
      BY <1>1, <1>6 DEF Exists
<1>8. ASSUME NEW u \in DateTimes({FirstYear}), Exists(u) PROVE u \in Moments
  <2>1. u \in DateTimes(Nat)
        BY <1>2, <1>8 DEF DateTimes
  <2> QED BY <1>8, <2>1 DEF Moments
<1> HIDE DEF t
<1> QED BY <1>4, <1>7, <1>8

LEMMA InitCalendar == TimersInit => CalendarInv
<1> SUFFICES ASSUME TimersInit PROVE CalendarInv
    OBVIOUS
<1>1. pattern \in Patterns
  <2>1. (CHOOSE p \in Patterns : TRUE) \in Patterns
        BY PatternAssumption
  <2> QED BY <2>1 DEF TimersInit
<1>2. now \in DateTimes({FirstYear}) /\ Exists(now)
  <2>1. /\ (CHOOSE t \in DateTimes({FirstYear}) : Exists(t)) \in DateTimes({FirstYear})
        /\ Exists(CHOOSE t \in DateTimes({FirstYear}) : Exists(t))
        BY FirstYearHasMoments
  <2> QED BY <2>1 DEF TimersInit
<1> QED BY <1>1, <1>2, FirstYearHasMoments DEF TimersInit, CalendarInv

LEMMA SecondLater ==
  ASSUME NEW t \in Moments
  PROVE  Carry([t EXCEPT !.second = @ + 1]) \in Moments
<1>1. PICK p \in Pattern : TRUE
      BY PatternAssumption
<1> QED BY <1>1, ClockStep

LEMMA NextCalendar == CalendarInv /\ [TimersNext]_<<which, vars, scheduleVars>> => CalendarInv'
<1> SUFFICES ASSUME CalendarInv, [TimersNext]_<<which, vars, scheduleVars>> PROVE CalendarInv'
    OBVIOUS
<1>1. CASE UNCHANGED scheduleVars
      BY <1>1 DEF CalendarInv, scheduleVars
<1>2. ASSUME NEW late \in BOOLEAN, Trigger(late) PROVE CalendarInv'
  <2>1. pattern \in Pattern
        BY PatternAssumption DEF CalendarInv
  <2>2. next.kind = "found" /\ None.kind = "none" /\ NoDate.kind = "refused"
        BY <1>2 DEF Trigger, None, NoDate
  <2>3. PICK t \in Moments : next = Found(t)
        BY <2>1, <2>2, NextOccurrenceFor DEF CalendarInv
  <2>4. next.time = t
        BY <2>3 DEF Found
  <2>5. now' \in Moments
        BY <1>2, <2>4, SecondLater DEF Trigger
  <2>6. pattern' = pattern /\ next' = NextOccurrence(pattern, now')
        BY <1>2 DEF Trigger
  <2> QED BY <2>5, <2>6 DEF CalendarInv
<1> QED BY <1>1, <1>2 DEF TimersNext, ScheduleNext, ChainEnds

LEMMA CalendarFollows == CalendarInv => ScheduleTypeOK /\ FindsTheFirst
<1> SUFFICES ASSUME CalendarInv PROVE ScheduleTypeOK /\ FindsTheFirst
    OBVIOUS
<1>1. pattern \in Patterns /\ pattern \in Pattern /\ now \in Moments
      BY PatternAssumption DEF CalendarInv
<1>2. (InEveryMonth <=> EveryMonth(pattern)) /\ (InFirstMonth <=> FirstMonth(pattern))
      BY DEF InEveryMonth, EveryMonth, InFirstMonth, FirstMonth
<1>3. None.kind = "none" /\ NoDate.kind = "refused"
      BY DEF None, NoDate
<1>4. \/ next \in {None, NoDate}
      \/ \E t \in Moments :
           /\ next = Found(t) /\ Weekday(t) \in pattern.weekday /\ ClockFits(pattern, t, 3)
           /\ EveryMonth(pattern) => t.day \in pattern.day
           /\ EveryMonth(pattern) /\ FirstMonth(pattern) => t.month \in pattern.month
           /\ FirstMonth(pattern) => FirstAfter(pattern, now, t)
      BY <1>1, NextOccurrenceFor DEF CalendarInv
<1>5. FailsOnlyAtTheEnd
  <2> SUFFICES ASSUME next.kind = "refused", FirstMonth(pattern), ~(Min(pattern.day) >= Shortest),
                      now.month # MonthMax, MonthMax \notin pattern.month
               PROVE  FALSE
      BY <1>2 DEF FailsOnlyAtTheEnd
  <2>1. Min(pattern.day) < Shortest
    <3>1. pattern.day \in SUBSET Nat /\ pattern.day # {}
          BY <1>1, PatternOf, LongestOf
    <3>2. Min(pattern.day) \in Nat
          BY <3>1, MinOf
    <3> QED BY <3>2, ShortestOf
  <2>2. NextOccurrence(pattern, now) # NoDate
        BY <1>1, <2>1, NextNotRefused DEF NotAtTheEnd
  <2>3. \A t : Found(t).kind = "found"
        BY DEF Found
  <2>4. next = NoDate
        BY <1>3, <1>4, <2>3
  <2> QED BY <2>2, <2>4 DEF CalendarInv
<1>6. CASE next \in {None, NoDate}
      BY <1>1, <1>3, <1>5, <1>6 DEF ScheduleTypeOK, FindsTheFirst, FoundFits, NoneSkipped
<1>7. CASE next \notin {None, NoDate}
  <2>1. PICK t \in Moments :
           /\ next = Found(t) /\ Weekday(t) \in pattern.weekday /\ ClockFits(pattern, t, 3)
           /\ EveryMonth(pattern) => t.day \in pattern.day
           /\ EveryMonth(pattern) /\ FirstMonth(pattern) => t.month \in pattern.month
           /\ FirstMonth(pattern) => FirstAfter(pattern, now, t)
        BY <1>4, <1>7
  <2>2. next.kind = "found" /\ next.time = t
        BY <2>1 DEF Found
  <2>3. FoundFits
    <3> SUFFICES ASSUME EveryMonth(pattern), FirstMonth(pattern)
                 PROVE  Matches(pattern, t) /\ After(t, now)
        BY <1>2, <2>2 DEF FoundFits
    <3>1. Matches(pattern, t)
          BY <1>1, <2>1, FoundMatches
    <3>2. After(t, now)
          BY <2>1 DEF FirstAfter
    <3> QED BY <3>1, <3>2
  <2>4. NoneSkipped
    <3> SUFFICES ASSUME FirstMonth(pattern),
                        NEW x \in Fitting(pattern, now.year .. t.year), After(x, now), After(t, x)
                 PROVE  FALSE
        BY <1>2, <2>2 DEF NoneSkipped
    <3>1. now.year .. t.year \in SUBSET Nat
          BY <1>1, <2>1, MomentIn DEF DateIn
    <3>2. Wanted(pattern, x)
          BY <1>1, <3>1, FittingWanted
    <3> QED BY <2>1, <3>2 DEF FirstAfter
  <2> QED BY <1>1, <1>5, <2>1, <2>2, <2>3, <2>4 DEF ScheduleTypeOK, FindsTheFirst
<1> QED BY <1>6, <1>7

-----------------------------------------------------------------------------
(* The theorems. *)

LEMMA TimersStep ==
  TimerInv /\ [TimersNext]_<<which, vars, scheduleVars>> => TimerInv'
<1>1. [TimersNext]_<<which, vars, scheduleVars>> => [Next]_vars
      BY DEF TimersNext, vars
<1> QED BY <1>1, NextTimerInv

LEMMA TimersInvariant == TimersSpec => [](TimerInv /\ CalendarInv)
<1>1. TimersInit => TimerInv /\ CalendarInv
      BY InitTimerInv, InitCalendar DEF TimersInit
<1>2. TimerInv /\ CalendarInv /\ [TimersNext]_<<which, vars, scheduleVars>>
        => TimerInv' /\ CalendarInv'
      BY TimersStep, NextCalendar
<1> QED BY <1>1, <1>2, PTL DEF TimersSpec

\* The types, and the activations of an enabled timer: no schedule has two in
\* the queue, and a recurring one before the first whose calculation may throw
\* never loses the one it has.
THEOREM TimersInvariantHolds == TimersSpec => []TimersInv
<1>1. TimerInv /\ CalendarInv => TimersInv
      BY PendingFollows, CalendarFollows DEF TimersInv, TimerInv, TimerIInv
<1> QED BY <1>1, TimersInvariant, PTL

\* An output that is High has a deactivation coming, where schedules set High
\* for a while, unless deactivations have been cleared since the outputs were
\* set, as the user does with a new date or by disabling the timer.
THEOREM NeverStuckHighHolds ==
  ASSUME HighForAWhile PROVE TimersSpec => []NeverStuckHigh
<1>1. TimerInv /\ CalendarInv => NeverStuckHigh
      BY NeverStuckHighFollows
<1> QED BY <1>1, TimersInvariant, PTL

\* On every calendar and for every pattern: a moment that is found fits the
\* pattern and lies in the future, none that fits lies before it, and a date is
\* refused only at the end of the year or of the months.
THEOREM FindsTheFirstHolds == TimersSpec => []FindsTheFirst
<1>1. TimerInv /\ CalendarInv => FindsTheFirst
      BY CalendarFollows
<1> QED BY <1>1, TimersInvariant, PTL
=============================================================================

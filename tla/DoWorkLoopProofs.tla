-------------------------- MODULE DoWorkLoopProofs --------------------------
(* Proofs about the main loop, for every number of ports, every priority   *)
(* table and every bound.                                                  *)
EXTENDS DoWorkLoop, TLAPS

-----------------------------------------------------------------------------
(* Lemmas about the arithmetic of relative time *)

\* Letting time pass keeps the types, never moves a scheduled start further
\* than the time that passed, and never below the floor.
LEMMA LaterType ==
  ASSUME NEW w \in [Ports -> Int], NEW d \in Nat
  PROVE  /\ Later(w, d) \in [Ports -> Int]
         /\ \A p \in Ports : Later(w, d)[p] >= w[p] - d
         /\ \A p \in Ports : Later(w, d)[p] >= -MaxLate
  BY BoundAssumption DEF Later, AtLeast

\* Ages grow by the time that passed, up to the cap.
LEMMA OlderType ==
  ASSUME NEW s \in [Ports -> Nat], NEW d \in Nat
  PROVE  /\ Older(s, d) \in [Ports -> Nat]
         /\ \A p \in Ports : Older(s, d)[p] >= s[p] + d \/ Older(s, d)[p] = SinceCap
  BY BoundAssumption DEF Older, AtMost

\* The cast to uint8_t yields a byte.
LEMMA U8Type == \A x \in Int : U8(x) \in 0 .. 255
  BY DEF U8

-----------------------------------------------------------------------------
(* Type correctness *)

LEMMA TypeInit == Init => TypeOK
<1> SUFFICES ASSUME Init PROVE TypeOK
  OBVIOUS
<1> USE DEF Init
<1>1. wait \in [Ports -> Int]
  OBVIOUS
<1>2. pos \in [Ports -> Ports]
  OBVIOUS
<1>3. since \in [Ports -> Nat]
  BY BoundAssumption
<1>4. spent \in Nat /\ sleepMs \in 0 .. 255
  OBVIOUS
<1>5. /\ phase \in {"call", "ports", "sleep", "closing", "exited"}
      /\ result \in {"running", "shutdown", "error"}
      /\ built \in BOOLEAN /\ aborted \in BOOLEAN /\ shutdownRequested \in BOOLEAN
      /\ todo \subseteq Ports /\ closed \subseteq Ports
  OBVIOUS
<1>6. QED
  BY <1>1, <1>2, <1>3, <1>4, <1>5 DEF TypeOK

LEMMA TypeStep == TypeOK /\ [Next]_vars => TypeOK'
<1> SUFFICES ASSUME TypeOK, [Next]_vars PROVE TypeOK'
  OBVIOUS
<1> USE DEF TypeOK, schedule
<1>1. CASE BeginIteration
  <2>1. CASE built
    BY <1>1, <2>1 DEF BeginIteration
  <2>2. CASE ~built
    <3>1. PICK offset \in [Ports -> UNION {0 .. Priority[p] : p \in Ports}] :
            /\ wait' = offset
            /\ pos' \in Sorted(offset)
      BY <1>1, <2>2 DEF BeginIteration
    <3>2. offset \in [Ports -> Int]
      BY PriorityAssumption
    <3>3. pos' \in [Ports -> Ports]
      BY <3>1 DEF Sorted
    <3>4. QED BY <1>1, <3>1, <3>2, <3>3 DEF BeginIteration
  <2>3. QED BY <2>1, <2>2
<1>2. ASSUME NEW p \in Ports, SkipPort(p) PROVE TypeOK'
  BY <1>2 DEF SkipPort
<1>3. ASSUME NEW p \in Ports, RunPort(p) PROVE TypeOK'
  <2>1. PICK cost \in 0 .. MaxCost :
          /\ wait' = [Later(wait, cost) EXCEPT ![p] = Priority[p]]
          /\ since' = [Older(since, cost) EXCEPT ![p] = 0]
          /\ spent' = spent + cost
    BY <1>3 DEF RunPort, Work
  <2>2. cost \in Nat
    BY CostAssumption
  <2>a. Later(wait, cost) \in [Ports -> Int] /\ Older(since, cost) \in [Ports -> Nat]
    BY <2>2, LaterType, OlderType
  <2>b. Priority[p] \in Int
    BY PriorityAssumption
  <2>3. wait' \in [Ports -> Int] /\ since' \in [Ports -> Nat] /\ spent' \in Nat
    BY <2>1, <2>2, <2>a, <2>b
  <2>4. QED BY <1>3, <2>3 DEF RunPort, Work
<1>4. ASSUME NEW p \in Ports, PortThrows(p) PROVE TypeOK'
  <2>1. PICK cost \in 0 .. MaxCost :
          /\ wait' = Later(wait, cost)
          /\ since' = Older(since, cost)
          /\ spent' = spent + cost
    BY <1>4 DEF PortThrows
  <2>2. cost \in Nat
    BY CostAssumption
  <2>a. Later(wait, cost) \in [Ports -> Int] /\ Older(since, cost) \in [Ports -> Nat]
    BY <2>2, LaterType, OlderType
  <2>3. wait' \in [Ports -> Int] /\ since' \in [Ports -> Nat] /\ spent' \in Nat
    BY <2>1, <2>2, <2>a
  <2>4. QED BY <1>4, <2>3 DEF PortThrows
<1>5. ASSUME NEW p \in Ports, PortFails(p) PROVE TypeOK'
  BY <1>5 DEF PortFails
<1>6. CASE EndIteration
  <2>1. pos' \in [Ports -> Ports]
    BY <1>6 DEF EndIteration, Sorted
  <2>2. PICK first \in Ports : sleepMs' = U8(wait[first])
    BY <1>6 DEF EndIteration
  <2>3. wait[first] \in Int
    OBVIOUS
  <2>4. sleepMs' \in 0 .. 255
    BY <2>2, <2>3, U8Type
  <2>5. /\ phase' = "sleep" /\ aborted' = FALSE
        /\ UNCHANGED <<built, wait, todo, spent, since, shutdownRequested,
                       result, closed>>
    BY <1>6 DEF EndIteration
  <2>6. aborted' \in BOOLEAN /\ phase' \in {"call", "ports", "sleep", "closing", "exited"}
    BY <2>5
  <2>7. /\ built' \in BOOLEAN /\ wait' \in [Ports -> Int] /\ todo' \subseteq Ports
        /\ spent' \in Nat /\ since' \in [Ports -> Nat] /\ shutdownRequested' \in BOOLEAN
        /\ result' \in {"running", "shutdown", "error"} /\ closed' \subseteq Ports
    BY <2>5
  <2>8. QED BY <2>1, <2>4, <2>6, <2>7
<1>7. CASE Sleep
  <2>1. AtLeast(sleepMs, 1) \in Nat
    BY DEF AtLeast
  <2>2. wait' \in [Ports -> Int] /\ since' \in [Ports -> Nat]
    BY <1>7, <2>1, LaterType, OlderType DEF Sleep
  <2>3. QED BY <1>7, <2>2 DEF Sleep
<1>8. CASE BeginShutdown
  BY <1>8 DEF BeginShutdown
<1>9. ASSUME NEW p \in Ports, ClosePort(p) PROVE TypeOK'
  BY <1>9 DEF ClosePort
<1>10. CASE EndShutdown
  BY <1>10 DEF EndShutdown
<1>11. CASE SleepInterrupted
  BY <1>11 DEF SleepInterrupted
<1>12. CASE RequestShutdown
  BY <1>12 DEF RequestShutdown
<1>13. CASE UNCHANGED vars
  BY <1>13 DEF vars
<1>14. QED
  BY <1>1, <1>2, <1>3, <1>4, <1>5, <1>6, <1>7, <1>8, <1>9, <1>10, <1>11,
     <1>12, <1>13 DEF Next, MainThread

\* The loop keeps its types.
THEOREM TypeCorrect == Spec => []TypeOK
  BY TypeInit, TypeStep, PTL DEF Spec

-----------------------------------------------------------------------------
(* Spacing: a due port has rested for its period *)

\* The age of a port's last run and the time to its next start together
\* always reach its period; before the first call all ages are at the cap.
Rested ==
  /\ \A p \in Ports : since[p] >= Priority[p] - wait[p]
  /\ ~built => /\ \A p \in Ports : since[p] = SinceCap
               /\ phase \notin {"ports", "sleep"}

LEMMA RestedInit == Init => Rested
  BY BoundAssumption, PriorityAssumption DEF Init, Rested

\* Letting time pass preserves the first part of the invariant.
LEMMA RestedLater ==
  ASSUME NEW w \in [Ports -> Int], NEW s \in [Ports -> Nat], NEW d \in Nat,
         \A p \in Ports : s[p] >= Priority[p] - w[p]
  PROVE  \A p \in Ports : Older(s, d)[p] >= Priority[p] - Later(w, d)[p]
<1> SUFFICES ASSUME NEW p \in Ports
             PROVE Older(s, d)[p] >= Priority[p] - Later(w, d)[p]
  OBVIOUS
<1>1. Later(w, d)[p] \in Int /\ Later(w, d)[p] >= w[p] - d /\ Later(w, d)[p] >= -MaxLate
  BY LaterType
<1>2. Older(s, d)[p] \in Nat /\ (Older(s, d)[p] >= s[p] + d \/ Older(s, d)[p] = SinceCap)
  BY OlderType
<1>3. Priority[p] \in Nat /\ Priority[p] + MaxLate <= SinceCap
      /\ MaxLate \in Nat /\ SinceCap \in Nat
  BY PriorityAssumption, BoundAssumption
<1>4. w[p] \in Int /\ s[p] \in Nat /\ s[p] >= Priority[p] - w[p]
  OBVIOUS
<1>5. QED BY <1>1, <1>2, <1>3, <1>4

LEMMA RestedStep == TypeOK /\ Rested /\ [Next]_vars => Rested'
<1> SUFFICES ASSUME TypeOK, Rested, [Next]_vars PROVE Rested'
  OBVIOUS
<1> USE DEF Rested, schedule
<1>t. wait \in [Ports -> Int] /\ since \in [Ports -> Nat] /\ sleepMs \in Nat
  BY DEF TypeOK
<1>1. CASE BeginIteration
  <2>1. CASE built
    BY <1>1, <2>1 DEF BeginIteration
  <2>2. CASE ~built
    <3>1. PICK offset \in [Ports -> UNION {0 .. Priority[p] : p \in Ports}] :
            wait' = offset
      BY <1>1, <2>2 DEF BeginIteration
    <3>2. \A p \in Ports : offset[p] \in Nat
      BY PriorityAssumption
    <3>3. \A p \in Ports : Priority[p] \in Nat /\ SinceCap \in Nat
                           /\ MaxLate \in Nat /\ Priority[p] + MaxLate <= SinceCap
      BY PriorityAssumption, BoundAssumption
    <3>4. \A p \in Ports : SinceCap >= Priority[p] - offset[p]
      BY <3>2, <3>3
    <3>5. QED BY <1>1, <2>2, <3>1, <3>4 DEF BeginIteration
  <2>3. QED BY <2>1, <2>2
<1>2. ASSUME NEW p \in Ports, SkipPort(p) PROVE Rested'
  BY <1>2 DEF SkipPort
<1>3. ASSUME NEW p \in Ports, RunPort(p) PROVE Rested'
  <2>1. PICK cost \in 0 .. MaxCost :
          /\ wait' = [Later(wait, cost) EXCEPT ![p] = Priority[p]]
          /\ since' = [Older(since, cost) EXCEPT ![p] = 0]
    BY <1>3 DEF RunPort, Work
  <2>2. cost \in Nat
    BY CostAssumption
  <2>3. \A q \in Ports : Older(since, cost)[q] >= Priority[q] - Later(wait, cost)[q]
    BY <1>t, <2>2, RestedLater
  <2>4. DOMAIN Later(wait, cost) = Ports /\ DOMAIN Older(since, cost) = Ports
    BY DEF Later, Older
  <2>5. ASSUME NEW q \in Ports PROVE since'[q] >= Priority[q] - wait'[q]
    <3>1. CASE q = p
      <4>1. since'[q] = 0 /\ wait'[q] = Priority[q] /\ Priority[q] \in Int
        BY <2>1, <2>4, <3>1, PriorityAssumption
      <4>2. QED BY <4>1
    <3>2. CASE q # p
      <4>1. since'[q] = Older(since, cost)[q] /\ wait'[q] = Later(wait, cost)[q]
        BY <2>1, <2>4, <3>2
      <4>2. QED BY <2>3, <4>1
    <3>3. QED BY <3>1, <3>2
  <2>6. built'
    BY <1>3 DEF RunPort, Work
  <2>7. QED BY <2>5, <2>6
<1>4. ASSUME NEW p \in Ports, PortThrows(p) PROVE Rested'
  <2>1. PICK cost \in 0 .. MaxCost :
          wait' = Later(wait, cost) /\ since' = Older(since, cost)
    BY <1>4 DEF PortThrows
  <2>2. cost \in Nat
    BY CostAssumption
  <2>3. built'
    BY <1>4 DEF PortThrows
  <2>4. QED BY <1>t, <2>1, <2>2, <2>3, RestedLater
<1>5. ASSUME NEW p \in Ports, PortFails(p) PROVE Rested'
  BY <1>5 DEF PortFails
<1>6. CASE EndIteration
  BY <1>6 DEF EndIteration
<1>7. CASE Sleep
  <2>1. AtLeast(sleepMs, 1) \in Nat
    BY <1>t DEF AtLeast
  <2>2. built'
    BY <1>7 DEF Sleep
  <2>3. QED BY <1>7, <1>t, <2>1, <2>2, RestedLater DEF Sleep
<1>8. CASE BeginShutdown
  BY <1>8 DEF BeginShutdown
<1>9. ASSUME NEW p \in Ports, ClosePort(p) PROVE Rested'
  BY <1>9 DEF ClosePort
<1>10. CASE EndShutdown
  BY <1>10 DEF EndShutdown
<1>11. CASE SleepInterrupted
  BY <1>11 DEF SleepInterrupted
<1>12. CASE RequestShutdown
  BY <1>12 DEF RequestShutdown
<1>13. CASE UNCHANGED vars
  BY <1>13 DEF vars
<1>14. QED
  BY <1>1, <1>2, <1>3, <1>4, <1>5, <1>6, <1>7, <1>8, <1>9, <1>10, <1>11,
     <1>12, <1>13 DEF Next, MainThread

\* OPDI::doWork never starts a port earlier than its period after the end of
\* its last run.
THEOREM Spacing == Spec => []SpacingInv
<1>1. TypeOK /\ Rested => SpacingInv
  <2> SUFFICES ASSUME TypeOK, Rested, NEW p \in Ports, wait[p] <= 0
               PROVE since[p] >= Priority[p]
    BY DEF SpacingInv, Due
  <2>1. wait[p] \in Int /\ since[p] \in Nat /\ Priority[p] \in Nat
    BY PriorityAssumption DEF TypeOK
  <2>2. since[p] >= Priority[p] - wait[p]
    BY DEF Rested
  <2>3. QED BY <2>1, <2>2
<1>2. QED
  BY <1>1, TypeCorrect, RestedInit, RestedStep, PTL DEF Spec

-----------------------------------------------------------------------------
(* Lateness: a completed iteration leaves nobody behind *)

\* The ports the iteration has looked at are late by at most the time it has
\* taken so far.
Visited ==
  /\ phase = "ports" => \A p \in Ports \ todo : -wait[p] <= spent
  /\ LatenessInv

LEMMA VisitedStep == TypeOK /\ Visited /\ [Next]_vars => Visited'
<1> SUFFICES ASSUME TypeOK, Visited, [Next]_vars PROVE Visited'
  OBVIOUS
<1> USE DEF Visited, LatenessInv, schedule
<1>t. wait \in [Ports -> Int] /\ since \in [Ports -> Nat] /\ spent \in Nat
  BY DEF TypeOK
<1>1. CASE BeginIteration
  BY <1>1 DEF BeginIteration
<1>2. ASSUME NEW p \in Ports, SkipPort(p) PROVE Visited'
  <2>1. wait[p] \in Int /\ ~(wait[p] <= 0)
    BY <1>2, <1>t DEF SkipPort, Due
  <2>2. -wait[p] <= spent
    BY <1>t, <2>1
  <2>3. QED BY <1>2, <2>2 DEF SkipPort
<1>3. ASSUME NEW p \in Ports, RunPort(p) PROVE Visited'
  <2>1. PICK cost \in 0 .. MaxCost :
          /\ wait' = [Later(wait, cost) EXCEPT ![p] = Priority[p]]
          /\ spent' = spent + cost
    BY <1>3 DEF RunPort, Work
  <2>2. cost \in Nat
    BY CostAssumption
  <2>3. Later(wait, cost) \in [Ports -> Int]
        /\ \A q \in Ports : Later(wait, cost)[q] >= wait[q] - cost
    BY <1>t, <2>2, LaterType
  <2>4. ASSUME NEW q \in Ports \ todo' PROVE -wait'[q] <= spent'
    <3>1. CASE q = p
      <4>1. wait'[q] = Priority[q] /\ Priority[q] \in Nat
        BY <2>1, <2>3, <3>1, PriorityAssumption
      <4>2. QED BY <1>t, <2>1, <2>2, <4>1
    <3>2. CASE q # p
      <4>1. wait'[q] = Later(wait, cost)[q] /\ wait'[q] \in Int
        BY <2>1, <2>3, <3>2
      <4>2. q \in Ports \ todo /\ wait[q] \in Int
        BY <1>3, <1>t, <3>2 DEF RunPort, Work
      <4>3. -wait[q] <= spent
        BY <1>3, <4>2 DEF RunPort, Work
      <4>4. wait'[q] >= wait[q] - cost
        BY <2>3, <4>1
      <4>5. QED BY <1>t, <2>1, <2>2, <4>1, <4>2, <4>3, <4>4
    <3>3. QED BY <3>1, <3>2
  <2>5. phase' = "ports"
    BY <1>3 DEF RunPort, Work
  <2>6. QED BY <2>4, <2>5
<1>4. ASSUME NEW p \in Ports, PortThrows(p) PROVE Visited'
  BY <1>4 DEF PortThrows
<1>5. ASSUME NEW p \in Ports, PortFails(p) PROVE Visited'
  BY <1>5 DEF PortFails
<1>6. CASE EndIteration
  BY <1>6 DEF EndIteration
<1>7. CASE Sleep
  BY <1>7 DEF Sleep
<1>8. CASE BeginShutdown
  BY <1>8 DEF BeginShutdown
<1>9. ASSUME NEW p \in Ports, ClosePort(p) PROVE Visited'
  BY <1>9 DEF ClosePort
<1>10. CASE EndShutdown
  BY <1>10 DEF EndShutdown
<1>11. CASE SleepInterrupted
  BY <1>11 DEF SleepInterrupted
<1>12. CASE RequestShutdown
  BY <1>12 DEF RequestShutdown
<1>13. CASE UNCHANGED vars
  BY <1>13 DEF vars
<1>14. QED
  BY <1>1, <1>2, <1>3, <1>4, <1>5, <1>6, <1>7, <1>8, <1>9, <1>10, <1>11,
     <1>12, <1>13 DEF Next, MainThread

\* After an iteration of OPDI::doWork without an exception, no port is late
\* by more than the iteration itself has taken.
THEOREM Lateness == Spec => []LatenessInv
<1>1. Init => Visited
  BY DEF Init, Visited, LatenessInv
<1>2. Visited => LatenessInv
  BY DEF Visited
<1>3. QED
  BY <1>1, <1>2, TypeCorrect, VisitedStep, PTL DEF Spec

-----------------------------------------------------------------------------
(* Sleep: the cast to a byte changes nothing of a start that lies ahead *)

\* No start is planned further ahead than a period, which fits into a byte.
Near == \A p \in Ports : wait[p] <= Priority[p]

LEMMA LaterNear ==
  ASSUME TypeOK, Near, NEW d \in Nat
  PROVE  \A p \in Ports : Later(wait, d)[p] <= Priority[p]
<1> SUFFICES ASSUME NEW p \in Ports PROVE Later(wait, d)[p] <= Priority[p]
  OBVIOUS
<1>1. wait[p] \in Int /\ wait[p] <= Priority[p] /\ Priority[p] \in Nat
  BY PriorityAssumption DEF TypeOK, Near
<1>2. QED BY <1>1, BoundAssumption DEF Later, AtLeast

LEMMA NearStep == TypeOK /\ Near /\ [Next]_vars => Near'
<1> SUFFICES ASSUME TypeOK, Near, [Next]_vars PROVE Near'
  OBVIOUS
<1>1. ASSUME NEW d \in Nat, wait' = Later(wait, d) PROVE Near'
  BY <1>1, LaterNear DEF Near
<1>2. ASSUME UNCHANGED wait PROVE Near'
  BY <1>2 DEF Near
<1>3. CASE BeginIteration
  <2>1. CASE UNCHANGED <<wait, pos>>
    BY <1>2, <2>1
  <2>2. CASE ~ UNCHANGED <<wait, pos>>
    BY <1>3, <2>2 DEF BeginIteration, Near
  <2>3. QED BY <2>1, <2>2
<1>4. ASSUME NEW p \in Ports, RunPort(p) PROVE Near'
  <2>1. PICK cost \in 0 .. MaxCost :
          wait' = [Later(wait, cost) EXCEPT ![p] = Priority[p]]
    BY <1>4 DEF RunPort, Work
  <2>2. cost \in Nat
    BY CostAssumption
  <2>3. Later(wait, cost) \in [Ports -> Int]
    BY <2>2, LaterType DEF TypeOK
  <2>4. ASSUME NEW q \in Ports PROVE wait'[q] <= Priority[q]
    <3>1. CASE q = p
      <4>1. wait'[q] = Priority[q] /\ Priority[q] \in Nat
        BY <2>1, <2>3, <3>1, PriorityAssumption
      <4>2. QED BY <4>1
    <3>2. CASE q # p
      BY <2>1, <2>2, <2>3, <3>2, LaterNear
    <3>3. QED BY <3>1, <3>2
  <2>5. QED BY <2>4 DEF Near
<1>5. ASSUME NEW p \in Ports, PortThrows(p) PROVE Near'
  BY <1>1, <1>5, CostAssumption DEF PortThrows
<1>6. CASE Sleep
  <2>1. AtLeast(sleepMs, 1) \in Nat
    BY DEF AtLeast, TypeOK
  <2>2. QED BY <1>1, <1>6, <2>1 DEF Sleep
<1>7. ASSUME NEW p \in Ports, SkipPort(p) \/ PortFails(p) \/ ClosePort(p)
      PROVE  Near'
  BY <1>2, <1>7 DEF SkipPort, PortFails, ClosePort, schedule
<1>8. CASE EndIteration \/ BeginShutdown \/ EndShutdown
  BY <1>2, <1>8 DEF EndIteration, BeginShutdown, EndShutdown, schedule
<1>9. CASE SleepInterrupted \/ RequestShutdown
  BY <1>2, <1>9 DEF SleepInterrupted, RequestShutdown, schedule
<1>10. CASE UNCHANGED vars
  BY <1>2, <1>10 DEF vars
<1>11. QED
  BY <1>3, <1>4, <1>5, <1>6, <1>7, <1>8, <1>9, <1>10 DEF Next, MainThread

LEMMA EndIterationSleeps == TypeOK /\ Near /\ EndIteration => SleepInv'
<1> SUFFICES ASSUME TypeOK, Near, EndIteration, \A p \in Ports : wait[p] >= 0
             PROVE  /\ \A p \in Ports : sleepMs' <= wait[p]
                    /\ \E p \in Ports : sleepMs' = wait[p]
  BY DEF EndIteration, SleepInv
<1>1. PICK first \in Ports :
        /\ \A q \in Ports : wait[first] <= wait[q]
        /\ sleepMs' = U8(wait[first])
  BY DEF EndIteration
<1>2. wait[first] \in Int /\ wait[first] >= 0 /\ wait[first] <= 255
  <2>1. wait[first] \in Int /\ Priority[first] \in 0 .. 255
        /\ wait[first] <= Priority[first]
    BY PriorityAssumption DEF TypeOK, Near
  <2>2. QED BY <2>1
<1>3. U8(wait[first]) = wait[first]
  BY <1>2 DEF U8
<1>4. QED BY <1>1, <1>3

LEMMA SleepStep == TypeOK /\ Near /\ SleepInv /\ [Next]_vars => SleepInv'
<1> SUFFICES ASSUME TypeOK, Near, SleepInv, [Next]_vars PROVE SleepInv'
  OBVIOUS
<1>1. ASSUME phase' # "sleep" \/ aborted' PROVE SleepInv'
  BY <1>1 DEF SleepInv
<1>2. ASSUME UNCHANGED <<phase, aborted, wait, sleepMs>> PROVE SleepInv'
  BY <1>2 DEF SleepInv
<1>3. ASSUME NEW p \in Ports,
             SkipPort(p) \/ RunPort(p) \/ PortThrows(p) \/ PortFails(p) \/ ClosePort(p)
      PROVE  SleepInv'
  BY <1>1, <1>3 DEF SkipPort, RunPort, Work, PortThrows, PortFails, ClosePort
<1>4. CASE BeginIteration \/ Sleep \/ BeginShutdown \/ EndShutdown \/ SleepInterrupted
  BY <1>1, <1>4
  DEF BeginIteration, Sleep, BeginShutdown, EndShutdown, SleepInterrupted
<1>5. CASE RequestShutdown \/ UNCHANGED vars
  BY <1>2, <1>5 DEF RequestShutdown, vars, schedule
<1>6. QED
  BY <1>3, <1>4, <1>5, EndIterationSleeps DEF Next, MainThread

\* The suggested sleep reaches exactly to the next scheduled start, unless a port
\* is overdue: priorities are below 256, and so are the times the cast in
\* OPDI::doWork meets.
THEOREM SleepsExactly == Spec => []SleepInv
<1>1. Init => Near /\ SleepInv
  BY PriorityAssumption DEF Init, Near, SleepInv
<1>2. QED
  BY <1>1, TypeCorrect, NearStep, SleepStep, PTL DEF Spec
=============================================================================

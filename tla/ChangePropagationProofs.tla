----------------------- MODULE ChangePropagationProofs -----------------------
(***************************************************************************)
(* For any ports and any lists of handlers, without Assignment ports:      *)
(* calls of setLine never nest deeper than the number of ports and one,    *)
(* and a cascade that returns has set all handlers of what it changed.     *)
(*                                                                         *)
(* Both rest on the same observation: but for the first, every call in     *)
(* progress is a call for High of a port that was not High before and is   *)
(* High now, so that no port has two of them (Nested, Once).  It also lets  *)
(* a cascade come to an end, as every step leaves less of it (Descends).   *)
(***************************************************************************)
EXTENDS ChangePropagation, NaturalRecursion, FiniteSetTheorems, SequenceTheorems

\* one call is made at a time
One == \A c \in pending : pending \subseteq {c}

\* only the first call may be for Low
Nested ==
  /\ \A i \in 2 .. Len(stack) : stack[i].value = High
  /\ stack # <<>> => \A c \in pending : c.value = High

\* what a call has set to High stays High while the call is in progress
StaysHigh == \A i \in 1 .. Len(stack) : stack[i].value = High => lineOf[stack[i].port] = High

\* a port is not changed again by the calls of its handlers
Once ==
  \A i, j \in 1 .. Len(stack) :
    i < j /\ stack[i].value = High => stack[i].port # stack[j].port

IsHigh(h) == lineOf[h] = High
Made(h) == \E c \in pending : c.port = h

\* the handlers a call has been through are High, but for the one just called
Called ==
  \A i \in 1 .. Len(stack) : \A k \in 1 .. Len(Handlers(stack[i].port)) :
    k < stack[i].next => IsHigh(Handlers(stack[i].port)[k]) \/ Made(Handlers(stack[i].port)[k])

InProgress(p) == \E i \in 1 .. Len(stack) : stack[i].port = p

\* the handlers of every other changed port are High
Finished ==
  ~thrown => \A p \in changed :
    InProgress(p) \/ \A k \in 1 .. Len(Handlers(p)) : IsHigh(Handlers(p)[k])

\* an exception has left all calls, and a cascade starts with nothing changed
Left ==
  /\ thrown => stack = <<>> /\ pending = {}
  /\ stack = <<>> /\ pending # {} => changed = {}

IInv == CascadeTypeOK /\ One /\ Nested /\ StaysHigh /\ Once /\ Called /\ Finished /\ Left

-----------------------------------------------------------------------------
(* Lemmas about the helpers *)

\* The handlers of a port are ports.
LEMMA HandlersType ==
  ASSUME CascadeTypeOK, NEW p \in DigitalPorts
  PROVE  /\ Handlers(p) \in Seq(DigitalPorts)
         /\ Len(Handlers(p)) \in Nat
         /\ \A k \in 1 .. Len(Handlers(p)) : Handlers(p)[k] \in DigitalPorts
<1>1. Handlers(p) \in Seq(DigitalPorts)
      BY HandlersAssumption DEF Handlers, CascadeTypeOK
<1> QED BY <1>1, LenProperties, ElementOfSeq

\* Without Assignment ports a call calls the handlers of its port, for High.
LEMMA CallsType ==
  ASSUME CascadeTypeOK, Assignments = {}, NEW f \in Frames
  PROVE  /\ Len(Calls(f)) = Len(Handlers(f.port))
         /\ \A k \in 1 .. Len(Handlers(f.port)) :
              /\ Calls(f)[k] = [port |-> Handlers(f.port)[k], value |-> High]
              /\ Calls(f)[k] \in Settings
<1>1. f.port \in DigitalPorts
      BY DEF Frames
<1>2. Calls(f) = [i \in 1 .. Len(Handlers(f.port)) |-> [port |-> Handlers(f.port)[i], value |-> High]]
      BY DEF Calls
<1>3. \A k \in 1 .. Len(Handlers(f.port)) : Calls(f)[k] \in Settings
      BY <1>1, <1>2, HandlersType DEF Settings, Lines
<1>4. Calls(f) \in Seq(Settings)
      BY <1>1, <1>2, <1>3, HandlersType
<1> QED BY <1>1, <1>2, <1>3, <1>4, HandlersType, LenProperties

\* What a new innermost call is, and that the ones around it stay.
LEMMA PushStack ==
  ASSUME CascadeTypeOK, NEW c \in Settings, Push(c)
  PROVE  /\ stack' \in Seq(Frames)
         /\ Len(stack') = Len(stack) + 1
         /\ \A i \in 1 .. Len(stack) : stack'[i] = stack[i]
         /\ stack'[Len(stack) + 1] = [port |-> c.port, value |-> c.value, next |-> 1]
         /\ pending' = {} /\ source' = source /\ thrown' = thrown
<1>1. [port |-> c.port, value |-> c.value, next |-> 1] \in Frames
      BY DEF Settings, Frames
<1>2. stack \in Seq(Frames)
      BY DEF CascadeTypeOK
<1> QED BY <1>1, <1>2 DEF Push

\* The innermost call, and the ones around it.
LEMMA TopStack ==
  ASSUME CascadeTypeOK, stack # <<>>
  PROVE  /\ Len(stack) \in Nat \ {0}
         /\ Top \in Frames
         /\ Below \in Seq(Frames)
         /\ Len(Below) = Len(stack) - 1
         /\ \A i \in 1 .. Len(Below) : Below[i] = stack[i]
<1>1. stack \in Seq(Frames) /\ Len(stack) \in Nat \ {0}
      BY EmptySeq DEF CascadeTypeOK
<1>2. \A i \in 1 .. Len(stack) : stack[i] \in Frames
      BY <1>1, ElementOfSeq
<1>3. \A i \in 1 .. Len(stack) - 1 : stack[i] \in Frames
      BY <1>1, <1>2
<1>4. /\ Below \in Seq(Frames)
      /\ Len(Below) = Len(stack) - 1
      /\ \A i \in 1 .. Len(stack) - 1 : Below[i] = stack[i]
  <2> DEFINE n == Len(stack) - 1
  <2>1. n \in Int /\ \A i \in 1 .. n : stack[i] \in Frames
        BY <1>1, <1>3
  <2> HIDE DEF n
  <2>2. /\ SubSeq(stack, 1, n) \in Seq(Frames)
        /\ Len(SubSeq(stack, 1, n)) = IF 1 <= n THEN n - 1 + 1 ELSE 0
        /\ \A i \in 1 .. n - 1 + 1 : SubSeq(stack, 1, n)[i] = stack[1 + i - 1]
        BY <2>1, SubSeqProperties
  <2>3. Below = SubSeq(stack, 1, n) /\ n \in Nat
        BY <1>1 DEF Below, n
  <2>4. n - 1 + 1 = n /\ \A i \in 1 .. n : 1 + i - 1 = i
        BY <2>3
  <2>5. Len(Below) = n /\ \A i \in 1 .. n : Below[i] = stack[i]
        BY <2>2, <2>3, <2>4
  <2> QED BY <2>2, <2>3, <2>5 DEF n
<1> QED BY <1>1, <1>2, <1>4 DEF Top

\* The frames of calls in progress.
LEMMA FrameType ==
  ASSUME CascadeTypeOK, NEW i \in 1 .. Len(stack)
  PROVE  /\ stack[i] \in Frames
         /\ stack[i].port \in DigitalPorts /\ stack[i].value \in Lines /\ stack[i].next \in Nat \ {0}
         /\ Len(stack) \in Nat
<1>1. stack \in Seq(Frames)
      BY DEF CascadeTypeOK
<1>2. stack[i] \in Frames /\ Len(stack) \in Nat
      BY <1>1, ElementOfSeq, LenProperties
<1> QED BY <1>2 DEF Frames

-----------------------------------------------------------------------------
(* The invariant *)

LEMMA InitIInv == CascadeInit => IInv
<1> SUFFICES ASSUME CascadeInit PROVE IInv
    OBVIOUS
<1>1. CascadeTypeOK
      BY EmptySeq DEF CascadeInit, CascadeTypeOK, Lines, Low
<1>2. Len(stack) = 0
      BY DEF CascadeInit
<1>3. One /\ Nested /\ StaysHigh /\ Once /\ Called
      BY <1>2 DEF CascadeInit, One, Nested, StaysHigh, Once, Called
<1>4. Finished /\ Left
      BY DEF CascadeInit, Finished, Left
<1> QED BY <1>1, <1>3, <1>4 DEF IInv

\* Steps between two cascades and exceptions leave no call in progress.
LEMMA EmptyIInv ==
  ASSUME CascadeTypeOK', One', stack' = <<>>, changed' = {} \/ thrown',
         thrown' => pending' = {}
  PROVE  IInv'
<1>1. Len(stack') = 0
      OBVIOUS
<1>2. (Nested /\ StaysHigh /\ Once /\ Called)'
      BY <1>1 DEF Nested, StaysHigh, Once, Called
<1>3. (Finished /\ Left)'
      BY DEF Finished, Left
<1> QED BY <1>2, <1>3 DEF IInv

LEMMA StartIInv ==
  ASSUME IInv, NEW c \in Settings, NEW s \in {"int", "user"}, StartCascade(c, s)
  PROVE  IInv'
<1>1. CascadeTypeOK' /\ One'
      BY DEF IInv, CascadeTypeOK, One, StartCascade
<1> QED BY <1>1, EmptyIInv DEF StartCascade

LEMMA FailIInv ==
  ASSUME IInv, NEW p \in DigitalPorts, FailPort(p)
  PROVE  IInv'
<1>1. CascadeTypeOK' /\ One'
      BY DEF IInv, CascadeTypeOK, One, FailPort
<1> QED BY <1>1, EmptyIInv DEF FailPort, IInv, Left

\* Exceptions, in Refuse and when saving fails.
LEMMA ThrowIInv ==
  ASSUME IInv, Throw, lineOf' \in [DigitalPorts -> Lines \cup {Error}], changed' \in SUBSET DigitalPorts
  PROVE  IInv'
<1>1. CascadeTypeOK' /\ One'
      BY EmptySeq DEF IInv, CascadeTypeOK, One, Throw
<1> QED BY <1>1, EmptyIInv DEF Throw

LEMMA KeepIInv ==
  ASSUME IInv, NEW c \in pending, pending \subseteq {c}, KeepLine(c)
  PROVE  IInv'
<1>1. CascadeTypeOK' /\ One'
      BY DEF IInv, CascadeTypeOK, One, KeepLine
<1>2. (Nested /\ StaysHigh /\ Once /\ Left)'
      BY DEF IInv, Nested, StaysHigh, Once, Left, KeepLine
<1>3. \A p : Handlers(p)' = Handlers(p)
      BY DEF Handlers, KeepLine
<1>4. Finished'
      BY <1>3 DEF IInv, Finished, InProgress, IsHigh, KeepLine
<1>5. Called'
  <2>1. SUFFICES ASSUME NEW i \in 1 .. Len(stack),
                        NEW k \in 1 .. Len(Handlers(stack[i].port)), k < stack[i].next
                 PROVE  IsHigh(Handlers(stack[i].port)[k])
        BY <1>3 DEF Called, IsHigh, KeepLine
  <2>2. CASE IsHigh(Handlers(stack[i].port)[k])
        BY <2>2
  <2>3. CASE Made(Handlers(stack[i].port)[k])
    <3>1. c.port = Handlers(stack[i].port)[k]
          BY <2>3 DEF Made
    <3>2. stack # <<>>
          OBVIOUS
    <3>3. c.value = High
          BY <3>2 DEF IInv, Nested
    <3> QED BY <3>1, <3>3 DEF IsHigh, KeepLine
  <2> QED BY <2>1, <2>2, <2>3 DEF IInv, Called
<1> QED BY <1>1, <1>2, <1>4, <1>5 DEF IInv

\* The step of the argument: the port of a new call was not High, so it is
\* none of the ports with a call for High, and no other line changes.
LEMMA ChangeIInv ==
  ASSUME IInv, NEW c \in pending, pending \subseteq {c}, ChangeLine(c), Push(c)
  PROVE  IInv'
<1>1. c \in Settings /\ c.port \in DigitalPorts /\ c.value \in Lines
      BY DEF IInv, CascadeTypeOK, Settings
<1> DEFINE n == Len(stack)
<1>2. /\ stack' \in Seq(Frames)
      /\ Len(stack') = n + 1
      /\ \A i \in 1 .. n : stack'[i] = stack[i]
      /\ stack'[n + 1] = [port |-> c.port, value |-> c.value, next |-> 1]
      /\ pending' = {} /\ source' = source /\ thrown' = thrown
      BY <1>1, PushStack DEF IInv
<1>3. n \in Nat /\ (n # 0 => stack # <<>>)
      BY LenProperties DEF IInv, CascadeTypeOK
<1>4. /\ lineOf' = [lineOf EXCEPT ![c.port] = c.value]
      /\ lineOf \in [DigitalPorts -> Lines \cup {Error}]
      /\ lineOf[c.port] # c.value
      /\ changed' = changed \cup {c.port}
      BY DEF ChangeLine, IInv, CascadeTypeOK
<1>5. CascadeTypeOK' /\ One'
      BY <1>1, <1>2, <1>4 DEF IInv, CascadeTypeOK, One
<1>6. n # 0 => c.value = High
      BY <1>3 DEF IInv, Nested
<1>7. \A i \in 1 .. n : stack[i].value = High => stack[i].port # c.port /\ lineOf[stack[i].port] = High
      BY <1>4, <1>6 DEF IInv, StaysHigh
<1>8. ASSUME n # 0, NEW p \in DigitalPorts, lineOf[p] = High PROVE lineOf'[p] = High
      BY <1>1, <1>4, <1>6, <1>8
<1>9. \A p : Handlers(p)' = Handlers(p)
      BY <1>2 DEF Handlers
<1>10. \A i \in 1 .. n + 1 : stack'[i] = stack[i] \/ i = n + 1
       BY <1>2, <1>3
<1>11. Nested'
       BY <1>2, <1>3, <1>6, <1>10 DEF IInv, Nested
<1>12. StaysHigh'
  <2> SUFFICES ASSUME NEW i \in 1 .. n + 1, stack'[i].value = High
               PROVE  lineOf'[stack'[i].port] = High
      BY <1>2 DEF StaysHigh
  <2>1. CASE i = n + 1
        BY <2>1, <1>1, <1>2, <1>4
  <2>2. CASE i \in 1 .. n
    <3>1. stack'[i] = stack[i] /\ stack[i].port \in DigitalPorts /\ n # 0
          BY <2>2, <1>2, <1>3, FrameType DEF IInv
    <3> QED BY <2>2, <3>1, <1>7, <1>8
  <2> QED BY <1>3, <2>1, <2>2
<1>13. Once'
  <2> SUFFICES ASSUME NEW i \in 1 .. n + 1, NEW j \in 1 .. n + 1, i < j, stack'[i].value = High
               PROVE  stack'[i].port # stack'[j].port
      BY <1>2 DEF Once
  <2>1. i \in 1 .. n /\ stack'[i] = stack[i]
        BY <1>2, <1>3
  <2>2. CASE j = n + 1
        BY <2>1, <2>2, <1>2, <1>7
  <2>3. CASE j \in 1 .. n
        BY <2>1, <2>3, <1>2 DEF IInv, Once
  <2> QED BY <1>3, <2>2, <2>3
<1>14. Called'
  <2> SUFFICES ASSUME NEW i \in 1 .. n + 1, NEW k \in 1 .. Len(Handlers(stack'[i].port)),
                      k < stack'[i].next
               PROVE  lineOf'[Handlers(stack'[i].port)[k]] = High
      BY <1>2, <1>9 DEF Called, IsHigh
  <2>1. CASE i = n + 1
    <3>1. stack'[i].next = 1 /\ stack'[i].port = c.port
          BY <2>1, <1>2
    <3>2. k >= 1
          BY <1>1, <3>1, HandlersType DEF IInv
    <3> QED BY <3>1, <3>2, <1>1, HandlersType DEF IInv
  <2>2. CASE i \in 1 .. n
    <3>1. stack'[i] = stack[i] /\ stack[i].port \in DigitalPorts /\ n # 0
          BY <2>2, <1>2, <1>3, FrameType DEF IInv
    <3> DEFINE h == Handlers(stack[i].port)[k]
    <3>2. h \in DigitalPorts
          BY <3>1, HandlersType DEF IInv
    <3>3. IsHigh(h) \/ Made(h)
          BY <2>2, <3>1 DEF IInv, Called
    <3>4. CASE IsHigh(h)
          BY <3>1, <3>2, <3>4, <1>8 DEF IsHigh
    <3>5. CASE Made(h)
          BY <3>1, <3>2, <3>5, <1>4, <1>6 DEF Made
    <3> QED BY <3>1, <3>3, <3>4, <3>5
  <2> QED BY <1>3, <2>1, <2>2
<1>15. Finished'
  <2> SUFFICES ASSUME ~thrown, NEW p \in changed \cup {c.port}, ~InProgress(p)'
               PROVE  \A k \in 1 .. Len(Handlers(p)) : lineOf'[Handlers(p)[k]] = High
      BY <1>2, <1>4, <1>9 DEF Finished, IsHigh
  <2>1. p # c.port
        BY <1>2, <1>3 DEF InProgress
  <2>2. p \in changed /\ n # 0
        BY <2>1, <1>3, EmptySeq DEF IInv, Left, CascadeTypeOK
  <2>3. ~InProgress(p)
        BY <1>2, <1>3 DEF InProgress
  <2>4. p \in DigitalPorts /\ \A k \in 1 .. Len(Handlers(p)) : IsHigh(Handlers(p)[k])
        BY <2>2, <2>3 DEF IInv, Finished, CascadeTypeOK
  <2>5. \A k \in 1 .. Len(Handlers(p)) : Handlers(p)[k] \in DigitalPorts
        BY <2>4, HandlersType DEF IInv
  <2>6. ASSUME NEW k \in 1 .. Len(Handlers(p)) PROVE lineOf'[Handlers(p)[k]] = High
        BY <2>2, <2>4, <2>5, <1>8 DEF IsHigh
  <2> QED BY <2>6
<1>16. Left'
       BY <1>2 DEF IInv, Left
<1> QED BY <1>5, <1>11, <1>12, <1>13, <1>14, <1>15, <1>16 DEF IInv

LEMMA CallIInv ==
  ASSUME IInv, Assignments = {}, CallHandler
  PROVE  IInv'
<1> DEFINE n == Len(stack)
           f == [stack[n] EXCEPT !.next = @ + 1]
<1>1. /\ stack \in Seq(Frames) /\ n \in Nat \ {0} /\ n \in 1 .. n
      /\ Top = stack[n] /\ Top \in Frames /\ Top.port \in DigitalPorts /\ Top.next \in Nat \ {0}
      BY TopStack, FrameType DEF IInv, CascadeTypeOK, CallHandler, Top
<1>2. /\ f \in Frames /\ f.port = Top.port /\ f.value = Top.value /\ f.next = Top.next + 1
      BY <1>1 DEF Frames
<1>3. /\ stack' = [stack EXCEPT ![n] = f]
      /\ lineOf' = lineOf /\ source' = source /\ changed' = changed /\ thrown' = thrown
      BY DEF CallHandler
<1>4. /\ stack' \in Seq(Frames) /\ Len(stack') = n
      /\ \A i \in 1 .. n : stack'[i] = IF i = n THEN f ELSE stack[i]
      BY <1>1, <1>2, <1>3, ExceptSeq
<1>5. \A i \in 1 .. n :
        /\ stack'[i].port = stack[i].port
        /\ stack'[i].value = stack[i].value
        /\ stack'[i].next = IF i = n THEN stack[i].next + 1 ELSE stack[i].next
      BY <1>1, <1>2, <1>4
<1> DEFINE h == Handlers(Top.port)[Top.next]
<1>6. /\ Top.next \in 1 .. Len(Handlers(Top.port))
      /\ pending' = {[port |-> h, value |-> High]} /\ pending' \subseteq Settings
  <2>1. Top.next <= Len(Calls(Top)) /\ pending' = {Calls(Top)[Top.next]}
        BY DEF CallHandler
  <2>2. Top.next \in 1 .. Len(Handlers(Top.port))
        BY <1>1, <2>1, CallsType, HandlersType DEF IInv
  <2> QED BY <1>1, <2>1, <2>2, CallsType DEF IInv
<1>7. CascadeTypeOK' /\ One'
      BY <1>3, <1>4, <1>6 DEF IInv, CascadeTypeOK, One
<1>8. (Nested /\ StaysHigh /\ Once)'
  <2>1. \A i \in 2 .. n : stack'[i].value = High
        BY <1>1, <1>5 DEF IInv, Nested
  <2>2. Nested'
        BY <2>1, <1>4, <1>6 DEF Nested
  <2>3. StaysHigh'
        BY <1>3, <1>4, <1>5 DEF IInv, StaysHigh
  <2>4. Once'
        BY <1>4, <1>5 DEF IInv, Once
  <2> QED BY <2>2, <2>3, <2>4
<1>9. \A p : Handlers(p)' = Handlers(p)
      BY <1>3 DEF Handlers
<1>10. \A p : (IsHigh(p)' <=> IsHigh(p)) /\ ~Made(p)
       BY <1>3 DEF IsHigh, Made, CallHandler
<1>11. Called'
  <2> SUFFICES ASSUME NEW i \in 1 .. n, NEW k \in 1 .. Len(Handlers(stack[i].port)),
                      k < stack'[i].next
               PROVE  \/ IsHigh(Handlers(stack[i].port)[k])
                      \/ \E c \in pending' : c.port = Handlers(stack[i].port)[k]
      BY <1>3, <1>4, <1>5, <1>9 DEF Called, IsHigh, Made
  <2>1. CASE k < stack[i].next
    <3>1. IsHigh(Handlers(stack[i].port)[k]) \/ Made(Handlers(stack[i].port)[k])
          BY <2>1 DEF IInv, Called
    <3> QED BY <3>1, <1>10
  <2>2. CASE ~(k < stack[i].next)
    <3>1. i = n /\ k < stack[i].next + 1
          BY <2>2, <1>5
    <3>2. Len(Handlers(stack[i].port)) \in Nat
          BY <1>1, <3>1, HandlersType DEF IInv
    <3>3. k = Top.next
          BY <2>2, <3>1, <3>2, <1>1
    <3> QED BY <3>1, <3>3, <1>1, <1>6
  <2> QED BY <2>1, <2>2
<1>12. Finished'
       BY <1>3, <1>4, <1>5, <1>9, <1>10 DEF IInv, Finished, InProgress
<1>13. Left'
       BY <1>1, <1>3, <1>4, EmptySeq DEF IInv, Left, CallHandler
<1> QED BY <1>7, <1>8, <1>11, <1>12, <1>13 DEF IInv

LEMMA ReturnIInv ==
  ASSUME IInv, Assignments = {}, Return
  PROVE  IInv'
<1> DEFINE n == Len(stack)
<1>1. /\ n \in Nat \ {0} /\ n \in 1 .. n
      /\ Top = stack[n] /\ Top \in Frames /\ Top.port \in DigitalPorts /\ Top.next \in Nat \ {0}
      BY TopStack, FrameType DEF IInv, Return, Top
<1>2. /\ stack' \in Seq(Frames) /\ Len(stack') = n - 1
      /\ \A i \in 1 .. n - 1 : stack'[i] = stack[i] /\ i \in 1 .. n
      BY TopStack DEF IInv, Return
<1>3. UNCHANGED <<lineOf, pending, source, changed, thrown>>
      BY DEF Return
<1>4. CascadeTypeOK' /\ One'
      BY <1>2, <1>3 DEF IInv, CascadeTypeOK, One
<1>5. \A p : Handlers(p)' = Handlers(p) /\ IsHigh(p)' = IsHigh(p) /\ Made(p)' = Made(p)
      BY <1>3 DEF Handlers, IsHigh, Made
<1>6. (Nested /\ StaysHigh /\ Once)'
  <2>1. \A i \in 2 .. n - 1 : i \in 2 .. n /\ i \in 1 .. n - 1
        BY <1>1
  <2>2. Nested'
        BY <2>1, <1>2, <1>3 DEF IInv, Nested, Return
  <2>3. StaysHigh'
        BY <1>2, <1>3 DEF IInv, StaysHigh
  <2>4. Once'
        BY <1>2 DEF IInv, Once
  <2> QED BY <2>2, <2>3, <2>4
<1>7. Called'
      BY <1>2, <1>5 DEF IInv, Called
<1>8. Finished'
  <2> SUFFICES ASSUME ~thrown, NEW p \in changed, ~InProgress(p)',
                      NEW k \in 1 .. Len(Handlers(p))
               PROVE  IsHigh(Handlers(p)[k])
      BY <1>3, <1>5 DEF Finished
  <2>1. CASE ~InProgress(p)
        BY <2>1 DEF IInv, Finished
  <2>2. CASE InProgress(p)
    <3>1. p = Top.port
      <4>1. PICK i \in 1 .. n : stack[i].port = p
            BY <2>2 DEF InProgress
      <4>2. CASE i \in 1 .. n - 1
        <5>1. stack'[i].port = p
              BY <4>1, <4>2, <1>2
        <5> QED BY <4>2, <5>1, <1>2 DEF InProgress
      <4>3. CASE i = n
            BY <4>1, <4>3, <1>1
      <4> QED BY <4>2, <4>3, <1>1
    <3>2. Len(Handlers(p)) \in Nat /\ Top.next > Len(Handlers(p))
          BY <3>1, <1>1, CallsType, HandlersType DEF IInv, Return
    <3>3. k < stack[n].next
          BY <3>2, <1>1
    <3> QED BY <3>1, <3>3, <1>1 DEF IInv, Called, Made, Return
  <2> QED BY <2>1, <2>2
<1>9. Left'
      BY <1>3 DEF IInv, Left, Return
<1> QED BY <1>4, <1>6, <1>7, <1>8, <1>9 DEF IInv

\* Every step of the cascade, and everything in between, keeps the invariant.
LEMMA StepIInv == Assignments = {} /\ IInv /\ [CascadeNext]_cascadeVars => IInv'
<1> SUFFICES ASSUME Assignments = {}, IInv, [CascadeNext]_cascadeVars
             PROVE  IInv'
    OBVIOUS
<1>1. ASSUME NEW c \in Settings, NEW s \in {"int", "user"}, StartCascade(c, s)
      PROVE  IInv'
      BY <1>1, StartIInv
<1>2. ASSUME NEW p \in DigitalPorts, FailPort(p)
      PROVE  IInv'
      BY <1>2, FailIInv
<1>3. ASSUME NEW c \in pending, Refuse(c)
      PROVE  IInv'
  <2>1. lineOf' \in [DigitalPorts -> Lines \cup {Error}] /\ changed' \in SUBSET DigitalPorts /\ Throw
        BY <1>3 DEF IInv, CascadeTypeOK, Refuse
  <2> QED BY <2>1, ThrowIInv
<1>4. ASSUME NEW c \in pending, KeepLine(c)
      PROVE  IInv'
      BY <1>4, KeepIInv DEF IInv, One
<1>5. ASSUME NEW c \in pending, ChangeLine(c)
      PROVE  IInv'
  <2>1. CASE Push(c)
        BY <1>5, <2>1, ChangeIInv DEF IInv, One
  <2>2. CASE Throw
    <3>1. lineOf' \in [DigitalPorts -> Lines \cup {Error}] /\ changed' \in SUBSET DigitalPorts
          BY <1>5 DEF IInv, CascadeTypeOK, ChangeLine, Settings
    <3> QED BY <2>2, <3>1, ThrowIInv
  <2> QED BY <1>5, <2>1, <2>2 DEF ChangeLine
<1>6. ASSUME NEW c \in pending, Assign(c)
      PROVE  IInv'
      BY <1>6 DEF Assign
<1>7. CASE CallHandler
      BY <1>7, CallIInv
<1>8. CASE Return
      BY <1>8, ReturnIInv
<1>9. CASE UNCHANGED cascadeVars
  <2>1. UNCHANGED <<lineOf, stack, pending, source, changed, thrown>>
        BY <1>9 DEF cascadeVars
  <2> QED BY <2>1 DEF IInv, One, CascadeTypeOK, Nested, StaysHigh, Once, Called, Finished, Left,
             InProgress, IsHigh, Made, Handlers
<1> QED BY <1>1, <1>2, <1>3, <1>4, <1>5, <1>6, <1>7, <1>8, <1>9 DEF CascadeNext, CascadeStep

\* Without Assignment ports the invariant holds whatever the handlers are.
THEOREM InvTheorem ==
  ASSUME Assignments = {}
  PROVE  CascadeSpec => []IInv
<1>1. CascadeInit => IInv
      BY InitIInv
<1>2. IInv /\ [CascadeNext]_cascadeVars => IInv'
      BY StepIInv
<1> QED BY <1>1, <1>2, PTL DEF CascadeSpec

-----------------------------------------------------------------------------
(* The properties *)

\* All variables keep their types.
THEOREM TypeTheorem ==
  ASSUME Assignments = {}
  PROVE  CascadeSpec => []CascadeTypeOK
<1>1. IInv => CascadeTypeOK
      BY DEF IInv
<1> QED BY <1>1, InvTheorem, PTL

\* Calls from the second on are of different ports.
LEMMA IInvBoundsDepth == IInv => DepthInv
<1> SUFFICES ASSUME IInv PROVE DepthInv
    OBVIOUS
<1> DEFINE n == Len(stack)
           f == [i \in 2 .. n |-> stack[i].port]
<1>1. n \in Nat
      BY LenProperties DEF IInv, CascadeTypeOK
<1>2. \A i \in 2 .. n : i \in 1 .. n
      BY <1>1
<1>3. f \in [2 .. n -> DigitalPorts]
      BY <1>2, FrameType DEF IInv
<1>4. ASSUME NEW i \in 2 .. n, NEW j \in 2 .. n, i < j
      PROVE  f[i] # f[j]
      BY <1>2, <1>4 DEF IInv, Nested, Once
<1>5. ASSUME NEW i \in 2 .. n, NEW j \in 2 .. n, f[i] = f[j]
      PROVE  i = j
  <2>1. ~(i < j) /\ ~(j < i)
        BY <1>4, <1>5
  <2> QED BY <1>1, <2>1
<1>6. f \in Injection(2 .. n, DigitalPorts)
      BY <1>3, <1>5 DEF Injection, IsInjective
<1>7. Cardinality(2 .. n) <= Cardinality(DigitalPorts)
      BY <1>6, FS_Injection, PortsAssumption
<1>8. Cardinality(DigitalPorts) \in Nat
      BY PortsAssumption, FS_CardinalityType
<1>9. Cardinality(2 .. n) = IF 2 > n THEN 0 ELSE n - 2 + 1
      BY <1>1, FS_Interval
<1> QED BY <1>1, <1>7, <1>8, <1>9 DEF DepthInv

\* However the handlers refer to each other, calls of setLine do not nest
\* deeper than the number of ports and one (Port::handleStateChange).
THEOREM DepthTheorem ==
  ASSUME Assignments = {}
  PROVE  CascadeSpec => []DepthInv
<1>1. IInv => DepthInv
      BY IInvBoundsDepth
<1> QED BY <1>1, InvTheorem, PTL

\* A call that has returned has been through all its handlers.
LEMMA IInvKeepsHandlers == IInv => HandlersAreHigh
<1> SUFFICES ASSUME IInv, stack = <<>>, ~thrown, NEW p \in changed
             PROVE  \A i \in 1 .. Len(Handlers(p)) : IsHigh(Handlers(p)[i])
    BY DEF HandlersAreHigh, IsHigh
<1>1. ~InProgress(p)
      BY EmptySeq DEF InProgress
<1> QED BY <1>1 DEF IInv, Finished

\* A cascade that returns leaves all handlers of all changed ports High.
THEOREM HandlersTheorem ==
  ASSUME Assignments = {}
  PROVE  CascadeSpec => []HandlersAreHigh
BY IInvKeepsHandlers, InvTheorem, PTL

-----------------------------------------------------------------------------
(* Every step of a cascade leaves less of it, in a well-founded order       *)

\* the natural numbers and their order
Less == {n \in Nat \X Nat : n[1] < n[2]}
Smaller == LexProductOrdering(Less, Nat, 4)

\* No sequence of what is left gets smaller for ever.
LEMMA SmallerEnds == IsWellFoundedOn(Smaller, [1 .. 4 -> Nat])
<1>1. ASSUME NEW T \in SUBSET Nat, T # {}
      PROVE  \E x \in T : \A y \in T : ~(<<y, x>> \in Less)
  <2>1. PICK x \in T : \A y \in T : x <= y
        BY <1>1, Least
  <2>2. \A y \in T : ~(y < x)
        BY <2>1
  <2> QED BY <2>2 DEF Less
<1>2. IsWellFoundedOn(Less, Nat)
      BY <1>1, MinWF
<1> QED BY <1>2, WFLexProductOrdering DEF Smaller

NotHigh == {p \in DigitalPorts : lineOf[p] # High}

CallsLeft == IF stack # <<>> /\ Top.next <= Len(Calls(Top)) THEN Len(Calls(Top)) + 1 - Top.next ELSE 0

LEMMA RemainingType ==
  ASSUME CascadeTypeOK, One, Assignments = {}
  PROVE  /\ Cardinality(NotHigh) \in Nat /\ Len(stack) \in Nat /\ CallsLeft \in Nat /\ Cardinality(pending) \in Nat
         /\ Remaining = <<Cardinality(NotHigh), Len(stack), CallsLeft, Cardinality(pending)>>
         /\ Remaining \in [1 .. 4 -> Nat]
<1>1. Cardinality(NotHigh) \in Nat
      BY PortsAssumption, FS_Subset, FS_CardinalityType DEF NotHigh
<1>2. Len(stack) \in Nat
      BY LenProperties DEF CascadeTypeOK
<1>3. CallsLeft \in Nat
  <2>1. CASE stack = <<>>
        BY <2>1 DEF CallsLeft
  <2>2. CASE stack # <<>>
    <3>1. Top \in Frames /\ Top.port \in DigitalPorts /\ Top.next \in Nat
          BY <2>2, TopStack DEF Frames
    <3>2. Len(Calls(Top)) \in Nat
          BY <3>1, CallsType, HandlersType
    <3> QED BY <3>1, <3>2 DEF CallsLeft
  <2> QED BY <2>1, <2>2
<1>4. Cardinality(pending) \in Nat
  <2>1. CASE pending = {}
        BY <2>1, FS_EmptySet
  <2>2. CASE pending # {}
    <3>1. PICK c : pending = {c}
          BY <2>2 DEF One
    <3> QED BY <3>1, FS_Singleton
  <2> QED BY <2>1, <2>2
<1>5. Remaining = <<Cardinality(NotHigh), Len(stack), CallsLeft, Cardinality(pending)>>
      BY DEF Remaining, NotHigh, CallsLeft
<1>6. Remaining \in [1 .. 4 -> Nat]
  <2> HIDE DEF NotHigh, CallsLeft
  <2> QED BY <1>1, <1>2, <1>3, <1>4, <1>5
<1> QED BY <1>1, <1>2, <1>3, <1>4, <1>5, <1>6

\* a line that becomes High is one less that is not
LEMMA OneLess ==
  ASSUME CascadeTypeOK, NEW p \in DigitalPorts, lineOf[p] # High, lineOf' = [lineOf EXCEPT ![p] = High]
  PROVE  Cardinality(NotHigh') < Cardinality(NotHigh)
<1>1. NotHigh' = NotHigh \ {p} /\ p \in NotHigh
      BY DEF NotHigh, CascadeTypeOK
<1>2. IsFiniteSet(NotHigh)
      BY PortsAssumption, FS_Subset DEF NotHigh
<1>3. Cardinality(NotHigh) \in Nat /\ Cardinality(NotHigh \ {p}) = Cardinality(NotHigh) - 1
      BY <1>1, <1>2, FS_RemoveElement, FS_CardinalityType
<1> QED BY <1>1, <1>3

\* what is left of a cascade is a list of four natural numbers
Measured == Remaining \in [1 .. 4 -> Nat]

LEMMA StepDescends ==
  Assignments = {} /\ IInv /\ IInv' /\ [CascadeNext]_cascadeVars => [stack # <<>> => Descends]_cascadeVars
<1> SUFFICES ASSUME Assignments = {}, IInv, IInv', CascadeNext, stack # <<>>
             PROVE  Descends
    OBVIOUS
<1> DEFINE a == Remaining
           b == Remaining'
<1>1. /\ a = <<Cardinality(NotHigh), Len(stack), CallsLeft, Cardinality(pending)>>
      /\ Cardinality(NotHigh) \in Nat /\ Len(stack) \in Nat \ {0} /\ CallsLeft \in Nat /\ Cardinality(pending) \in Nat
      BY RemainingType, TopStack DEF IInv
<1>2. b = <<Cardinality(NotHigh'), Len(stack'), CallsLeft', Cardinality(pending')>>
      BY DEF Remaining, NotHigh, CallsLeft
<1>3. lineOf' = lineOf => NotHigh' = NotHigh
      BY DEF NotHigh
<1>4. ASSUME Cardinality(NotHigh') < Cardinality(NotHigh) PROVE Descends
  <2>1. b[1] < a[1] /\ \A i \in 1 .. 1 - 1 : b[i] = a[i]
        BY <1>1, <1>2, <1>4
  <2> QED BY <2>1 DEF Descends
<1>5. ASSUME lineOf' = lineOf, Len(stack') < Len(stack) PROVE Descends
  <2>1. b[2] < a[2] /\ \A i \in 1 .. 2 - 1 : b[i] = a[i]
        BY <1>1, <1>2, <1>3, <1>5
  <2> QED BY <2>1 DEF Descends
<1>6. ASSUME lineOf' = lineOf, Len(stack') = Len(stack), CallsLeft' < CallsLeft PROVE Descends
  <2>1. b[3] < a[3] /\ \A i \in 1 .. 3 - 1 : b[i] = a[i]
        BY <1>1, <1>2, <1>3, <1>6
  <2> QED BY <2>1 DEF Descends
<1>7. ASSUME NEW c \in pending, Refuse(c) PROVE Descends
      BY <1>1, <1>5, <1>7 DEF Refuse, Throw
<1>8. ASSUME NEW c \in pending, KeepLine(c) PROVE Descends
  <2>1. /\ pending' = {} /\ lineOf' = lineOf /\ stack' = stack /\ source' = source
        BY <1>8 DEF KeepLine
  <2>2. CallsLeft' = CallsLeft
        BY <2>1 DEF CallsLeft, Top, Calls, Handlers, AssignmentCalls
  <2>3. pending = {c}
        BY DEF IInv, One
  <2>4. Cardinality(pending') = 0 /\ Cardinality(pending) = 1
        BY <2>1, <2>3, FS_EmptySet, FS_Singleton
  <2>5. b[4] < a[4] /\ \A i \in 1 .. 4 - 1 : b[i] = a[i]
        BY <1>1, <1>2, <1>3, <2>1, <2>2, <2>4
  <2> QED BY <2>5 DEF Descends
<1>9. ASSUME NEW c \in pending, ChangeLine(c) PROVE Descends
  <2>1. c.value = High /\ c.port \in DigitalPorts
        BY DEF IInv, Nested, CascadeTypeOK, Settings
  <2> QED BY <1>4, <1>9, <2>1, OneLess DEF ChangeLine, IInv
<1>10. ASSUME CallHandler PROVE Descends
  <2>1. /\ Top.next <= Len(Calls(Top)) /\ lineOf' = lineOf /\ source' = source
        /\ stack' = [stack EXCEPT ![Len(stack)].next = @ + 1]
        BY <1>10 DEF CallHandler
  <2>2. stack \in Seq(Frames) /\ Top \in Frames /\ Top.next \in Nat \ {0} /\ Top = stack[Len(stack)]
        BY TopStack DEF IInv, CascadeTypeOK, Frames, Top
  <2>3. Len(stack') = Len(stack) /\ stack' # <<>> /\ Top' = [Top EXCEPT !.next = @ + 1]
        BY <1>1, <2>1, <2>2 DEF Top
  <2>4. Top'.next = Top.next + 1 /\ Top'.port = Top.port
        BY <2>2, <2>3 DEF Frames
  <2>5. Calls(Top)' = Calls(Top)
        BY <2>1, <2>4 DEF Calls, Handlers
  <2>6. Len(Calls(Top)) \in Nat
        BY <2>2, CallsType, HandlersType DEF IInv, Frames
  <2>7. CallsLeft' < CallsLeft
        BY <2>1, <2>2, <2>3, <2>4, <2>5, <2>6 DEF CallsLeft
  <2> QED BY <1>6, <2>1, <2>3, <2>7
<1>11. ASSUME Return PROVE Descends
  <2>1. Len(stack') = Len(stack) - 1 /\ lineOf' = lineOf
        BY <1>11, TopStack DEF Return, IInv
  <2> QED BY <1>1, <1>5, <2>1
<1>12. CascadeStep
      BY DEF CascadeNext, StartCascade, FailPort
<1> QED BY <1>7, <1>8, <1>9, <1>10, <1>11, <1>12 DEF CascadeStep, Assign

\* However the handlers refer to each other, a cascade comes to an end if its
\* calls go on: each step leaves less of it (Port::handleStateChange), in an
\* order without infinite descent.
THEOREM DescentTheorem ==
  ASSUME Assignments = {}
  PROVE  /\ IsWellFoundedOn(Smaller, [1 .. 4 -> Nat])
         /\ CascadeSpec => [][stack # <<>> => <<Remaining', Remaining>> \in Smaller]_cascadeVars
         /\ CascadeSpec => AlwaysDescends
<1>1. IInv /\ [CascadeNext]_cascadeVars => IInv'
      BY StepIInv
<1>2. IInv /\ IInv' /\ [CascadeNext]_cascadeVars => [stack # <<>> => Descends]_cascadeVars
      BY StepDescends
<1>3. IInv => Measured
      BY RemainingType DEF IInv, Measured
<1>4. IInv' => Measured'
      BY <1>3, PTL
<1>5. IInv /\ IInv' /\ [CascadeNext]_cascadeVars
        => [stack # <<>> => <<Remaining', Remaining>> \in Smaller]_cascadeVars
  <2> SUFFICES ASSUME IInv, IInv', Descends
               PROVE  <<Remaining', Remaining>> \in Smaller
      BY <1>2
  <2>1. Remaining \in [1 .. 4 -> Nat]
        BY <1>3 DEF Measured
  <2>2. Remaining' \in [1 .. 4 -> Nat]
        BY <1>4 DEF Measured
  <2> DEFINE x == Remaining
             y == Remaining'
  <2>3. PICK j \in 1 .. 4 : y[j] < x[j] /\ \A i \in 1 .. j - 1 : y[i] = x[i]
        BY DEF Descends
  <2>4. <<y[j], x[j]>> \in Less
        BY <2>1, <2>2, <2>3 DEF Less
  <2> QED BY <2>1, <2>2, <2>3, <2>4 DEF Smaller, LexProductOrdering
<1>6. CascadeSpec => [][stack # <<>> => Descends]_cascadeVars
      BY <1>1, <1>2, InvTheorem, PTL DEF CascadeSpec
<1>7. CascadeSpec => [][stack # <<>> => <<Remaining', Remaining>> \in Smaller]_cascadeVars
      BY <1>1, <1>5, InvTheorem, PTL DEF CascadeSpec
<1> QED BY <1>6, <1>7, SmallerEnds DEF AlwaysDescends
=============================================================================

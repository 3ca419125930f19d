----------------------------- MODULE KioProofs -----------------------------
(***************************************************************************)
(* Theorems about the kio channel, for any number of processes and any     *)
(* values.  The invariants are proved in layers: types and counters, then  *)
(* the shape of the waiter lists, then the absence of lost wakeups, which  *)
(* needs both.                                                             *)
(***************************************************************************)
EXTENDS Kio, FiniteSetTheorems, TLAPS

Upgrading == {p \in Procs : pc[p] = "upgrade"}

-----------------------------------------------------------------------------
(* Counting a handle in or out of a finite set moves its cardinality by one. *)
LEMMA CountIn ==
    ASSUME NEW S \in SUBSET Procs, NEW p \in Procs \ S
    PROVE  Cardinality(S \cup {p}) = Cardinality(S) + 1
<1>1. IsFiniteSet(S)  BY FS_Subset, ProcsAssumption
<1>2. QED  BY <1>1, FS_AddElement

(* The same for a handle counted out: what drop subtracts.                   *)
LEMMA CountOut ==
    ASSUME NEW S \in SUBSET Procs, NEW p \in S
    PROVE  /\ Cardinality(S \ {p}) = Cardinality(S) - 1
           /\ Cardinality(S) \in Nat /\ Cardinality(S) > 0
<1>1. IsFiniteSet(S)  BY FS_Subset, ProcsAssumption
<1>2. Cardinality(S) \in Nat  BY <1>1, FS_CardinalityType
<1>3. Cardinality(S) # 0  BY <1>1, FS_EmptySet
<1>4. Cardinality(S \ {p}) = Cardinality(S) - 1  BY <1>1, FS_RemoveElement
<1>5. QED  BY <1>2, <1>3, <1>4

(* A count is a number, and zero exactly when no handle is left.             *)
LEMMA CountNat ==
    ASSUME NEW S \in SUBSET Procs
    PROVE  Cardinality(S) \in Nat /\ (Cardinality(S) = 0 <=> S = {})
<1>1. IsFiniteSet(S)  BY FS_Subset, ProcsAssumption
<1>2. QED  BY <1>1, FS_CardinalityType, FS_EmptySet

-----------------------------------------------------------------------------
(* The ranges of everything but the two counters.                           *)
Ranges ==
    /\ value \in Values
    /\ closed \in BOOLEAN
    /\ waitersValue \subseteq Procs
    /\ waitersClosed \subseteq Procs
    /\ waitersConsumer \subseteq Procs
    /\ prod \subseteq Procs
    /\ cons \subseteq Procs
    /\ pc \in [Procs -> Labels]
    /\ want \in [Procs -> Wants \cup {NoWant}]
    /\ result \in [Procs -> {"none", "ok", "closed", "cancelled"}]
    /\ batch \in [Procs -> SUBSET Procs]

(* One step keeps every variable in its range.                              *)
LEMMA RangesStep == Ranges /\ [Next]_vars => Ranges'
<1> SUFFICES ASSUME Ranges, [Next]_vars PROVE Ranges'
    OBVIOUS
<1> USE DEF Ranges, Labels, state, lists, counts, handles, tasks, Goto, WakeLater
<1>1. CASE UNCHANGED vars
  BY <1>1 DEF vars
<1>2. ASSUME NEW p \in Procs, Begin(p) PROVE Ranges'
  <2>1. ASSUME NEW v \in Values, Write(p, v) PROVE Ranges'
    BY <2>1 DEF Write
  <2>2. ASSUME NEW v \in Values, Close(p, v) PROVE Ranges'
    BY <2>2 DEF Close, CloseAll
  <2>3. ASSUME NEW q \in Procs, CloneProducer(p, q) PROVE Ranges'
    BY <2>3 DEF CloneProducer
  <2>4. CASE DropProducer(p)
    BY <2>4 DEF DropProducer
  <2>5. CASE Produce(p)
    BY <2>5 DEF Produce
  <2>6. CASE Consume(p)
    BY <2>6 DEF Consume
  <2>7. ASSUME NEW q \in Procs, CloneConsumer(p, q) PROVE Ranges'
    BY <2>7 DEF CloneConsumer
  <2>8. CASE DropConsumer(p)
    BY <2>8 DEF DropConsumer
  <2>9. ASSUME NEW w \in Wants, StartWait(p, w) PROVE Ranges'
    BY <2>9 DEF StartWait
  <2> QED  BY <1>2, <2>1, <2>2, <2>3, <2>4, <2>5, <2>6, <2>7, <2>8, <2>9 DEF Begin
<1> HIDE DEF Ranges
<1>3. ASSUME NEW p \in Procs, NEW r \in {"ok", "closed", "cancelled"}, Resolve(p, r),
             UNCHANGED <<state, counts, handles>>
      PROVE  Ranges'
  BY <1>3 DEF Ranges, Resolve, Forgotten
<1>4. ASSUME NEW p \in Procs, Pend(p), UNCHANGED <<state, counts, handles>>
      PROVE  Ranges'
  BY <1>4 DEF Ranges, Pend, Register, Forgotten
<1>5. ASSUME NEW p \in Procs, Poll(p) PROVE Ranges'
  <2>1. CASE PollConsumerValue(p)
    BY <2>1, <1>3, <1>4 DEF PollConsumerValue
  <2>2. CASE PollProducerValue(p)
    BY <2>2, <1>3, <1>4 DEF PollProducerValue
  <2>3. ASSUME NEW v \in Values, PollProducerModify(p, v) PROVE Ranges'
    BY <2>3 DEF PollProducerModify, Ranges, Forgotten
  <2>4. CASE PollClosed(p)
    BY <2>4, <1>3, <1>4 DEF PollClosed
  <2>5. CASE PollCount(p)
    BY <2>5, <1>3, <1>4 DEF PollCount
  <2>6. CASE PollCountWeak(p)
    <3>1. CASE Resolve(p, "ok")
      BY <2>6, <3>1, <1>3 DEF PollCountWeak
    <3>2. CASE ~Resolve(p, "ok")
      BY <2>6, <3>2 DEF PollCountWeak, Ranges, Forgotten
    <3> QED  BY <3>1, <3>2
  <2> QED  BY <1>5, <2>1, <2>2, <2>3, <2>4, <2>5, <2>6 DEF Poll
<1>6. ASSUME NEW p \in Procs, Cancel(p) PROVE Ranges'
  BY <1>6, <1>3 DEF Cancel
<1>7. ASSUME NEW p \in Procs, Finish(p) PROVE Ranges'
  <2>1. CASE DropClose(p)
    <3>1. CASE closed
      BY <2>1, <3>1 DEF DropClose, Ranges
    <3>2. CASE ~closed
      <4>1. CloseAll(p) /\ UNCHANGED <<value, counts, handles, want, result>>
        BY <2>1, <3>2 DEF DropClose
      <4> QED  BY <4>1 DEF CloseAll, Ranges
    <3> QED  BY <3>1, <3>2
  <2>2. CASE ProduceCheck(p)
    BY <2>2 DEF ProduceCheck, Ranges
  <2>3. CASE TakeConsumerWaiters(p)
    BY <2>3 DEF TakeConsumerWaiters, Ranges
  <2>4. CASE PollCountWeakLocked(p)
    BY <2>4, <1>3, <1>4 DEF PollCountWeakLocked
  <2>5. ASSUME NEW q \in Procs, Wake(p, q) PROVE Ranges'
    BY <2>5 DEF Wake, Ranges
  <2>6. CASE WakeDone(p)
    BY <2>6 DEF WakeDone, Ranges
  <2> QED  BY <1>7, <2>1, <2>2, <2>3, <2>4, <2>5, <2>6 DEF Finish
<1> QED  BY <1>1, <1>2, <1>5, <1>6, <1>7 DEF Next

-----------------------------------------------------------------------------
(* The shape of the lists.  A wait is recorded exactly while its future is  *)
(* alive; an entry belongs to a sleeping waiter of the kind of its list; a  *)
(* batch belongs to a process that is waking it; no entry is in two places; *)
(* a closed channel has no entries left.                                    *)
Waiting(p) == pc[p] \in {"poll", "weakpoll", "asleep"}

Shape ==
    /\ \A p \in Procs : pc[p] = "upgrade" => p \notin prod
    /\ \A p \in Procs : Waiting(p) <=> want[p] # NoWant
    /\ \A p \in Procs : pc[p] = "weakpoll" =>
            want[p].kind \in {"used", "unused"} /\ want[p].via = "weak"
    /\ \A p \in waitersValue : pc[p] = "asleep" /\ want[p].kind = "value"
    /\ \A p \in waitersClosed : pc[p] = "asleep" /\ want[p].kind = "closed"
    /\ \A p \in waitersConsumer : pc[p] = "asleep" /\ want[p].kind \in {"used", "unused"}
    /\ \A q \in Procs : \A p \in batch[q] : pc[p] = "asleep" /\ pc[q] = "waking"
    /\ \A q \in Procs : \A p \in batch[q] :
            /\ p \notin waitersValue /\ p \notin waitersClosed /\ p \notin waitersConsumer
            /\ \A r \in Procs : p \in batch[r] => r = q
    /\ closed => waitersValue = {} /\ waitersClosed = {} /\ waitersConsumer = {}
    /\ \A p \in Procs : pc[p] = "asleep" /\ (\A q \in Procs : p \notin batch[q]) =>
            \/ want[p].kind = "value" /\ p \in waitersValue
            \/ want[p].kind = "closed" /\ p \in waitersClosed
            \/ want[p].kind \in {"used", "unused"} /\ p \in waitersConsumer

(* The four kinds of wait, and that none of them is "no wait".              *)
LEMMA WantKinds ==
    /\ NoWant.kind = "none" /\ NoWant \notin Wants
    /\ \A w \in Wants : w.kind \in {"value", "closed", "used", "unused"}
BY DEF NoWant, Wants

(* The weak poll's first look: the wait is not over, on to the mutex.        *)
LookAgain(p) ==
    /\ pc[p] \in {"poll", "asleep"}
    /\ Goto(p, "weakpoll")
    /\ waitersConsumer' = waitersConsumer \ {p}
    /\ batch' = Forgotten(p)
    /\ UNCHANGED <<waitersValue, waitersClosed, want, result>>

Ends(p) == Waiting(p) /\ (\E r : Resolve(p, r)) /\ UNCHANGED <<state, counts, handles>>

Sleeps(p) ==
    /\ Waiting(p) /\ ~closed /\ ~Satisfied(want[p]) /\ Pend(p)
    /\ UNCHANGED <<state, counts, handles>>

(* What a poll or a cancellation comes to: the wait ends, or goes to sleep  *)
(* while it is not due, or it modifies the value, or looks again.           *)
LEMMA PollCases ==
    ASSUME NEW p \in Procs, Poll(p) \/ Cancel(p) \/ PollCountWeakLocked(p)
    PROVE  \/ Ends(p)
           \/ Sleeps(p)
           \/ \E v \in Values : PollProducerModify(p, v)
           \/ LookAgain(p) /\ UNCHANGED <<state, counts, handles>>
<1>1. CASE PollConsumerValue(p)
  BY <1>1 DEF PollConsumerValue, Polled, Waiting, Ends, Sleeps
<1>2. CASE PollProducerValue(p)
  BY <1>2 DEF PollProducerValue, Polled, Waiting, Ends, Sleeps
<1>3. CASE PollClosed(p)
  <2>1. ~closed => ~Satisfied(want[p])
    BY <1>3 DEF PollClosed, Polled, Satisfied
  <2> QED  BY <1>3, <2>1 DEF PollClosed, Polled, Waiting, Ends, Sleeps
<1>4. CASE PollCount(p)
  BY <1>4 DEF PollCount, Polled, Waiting, Ends, Sleeps
<1>5. CASE PollCountWeak(p)
  BY <1>5 DEF PollCountWeak, Polled, Waiting, Ends, LookAgain
<1>6. CASE Cancel(p)
  BY <1>6 DEF Cancel, Waiting, Ends
<1>7. CASE PollCountWeakLocked(p)
  BY <1>7 DEF PollCountWeakLocked, Waiting, Ends, Sleeps
<1> QED  BY <1>1, <1>2, <1>3, <1>4, <1>5, <1>6, <1>7 DEF Poll

(* Registering, draining, waking and cancelling keep the lists in shape.    *)
LEMMA ShapeStep == Ranges /\ Shape /\ [Next]_vars => Shape'
<1> SUFFICES ASSUME Ranges, Shape, [Next]_vars PROVE Shape'
    OBVIOUS
<1> USE DEF Ranges, Shape, Waiting, Labels, state, lists, counts, handles, tasks, Goto, WakeLater
<1>1. CASE UNCHANGED vars
  BY <1>1 DEF vars
<1>2. ASSUME NEW p \in Procs, Begin(p) PROVE Shape'
  <2>1. ASSUME NEW v \in Values, Write(p, v) PROVE Shape'
    BY <2>1 DEF Write
  <2>2. ASSUME NEW v \in Values, Close(p, v) PROVE Shape'
    BY <2>2 DEF Close, CloseAll
  <2>3. ASSUME NEW q \in Procs, CloneProducer(p, q) PROVE Shape'
    BY <2>3 DEF CloneProducer
  <2>4. CASE DropProducer(p)
    BY <2>4 DEF DropProducer
  <2>5. CASE Produce(p)
    BY <2>5 DEF Produce
  <2>6. CASE Consume(p)
    BY <2>6 DEF Consume
  <2>7. ASSUME NEW q \in Procs, CloneConsumer(p, q) PROVE Shape'
    BY <2>7 DEF CloneConsumer
  <2>8. CASE DropConsumer(p)
    BY <2>8 DEF DropConsumer
  <2>9. ASSUME NEW w \in Wants, StartWait(p, w) PROVE Shape'
    BY <2>9, WantKinds DEF StartWait
  <2> QED  BY <1>2, <2>1, <2>2, <2>3, <2>4, <2>5, <2>6, <2>7, <2>8, <2>9 DEF Begin
<1>3. ASSUME NEW p \in Procs, NEW r, Waiting(p), Resolve(p, r),
             UNCHANGED <<state, counts, handles>>
      PROVE  Shape'
  BY <1>3, WantKinds DEF Resolve, Forgotten
<1>4. ASSUME NEW p \in Procs, Waiting(p), ~closed, Pend(p), UNCHANGED <<state, counts, handles>>
      PROVE  Shape'
  BY <1>4, WantKinds DEF Pend, Register, Forgotten
<1> HIDE DEF Shape, Ranges
<1>5. ASSUME NEW p \in Procs, Poll(p) PROVE Shape'
  <2>1. CASE PollConsumerValue(p)
    BY <2>1, <1>3, <1>4 DEF PollConsumerValue, Polled
  <2>2. CASE PollProducerValue(p)
    BY <2>2, <1>3, <1>4 DEF PollProducerValue, Polled
  <2>3. ASSUME NEW v \in Values, PollProducerModify(p, v) PROVE Shape'
    <3>1. batch[p] = {}
      BY <2>3 DEF PollProducerModify, Polled, Shape, Ranges
    <3>2. batch' = [q \in Procs |-> IF q = p THEN waitersValue \ {p} ELSE batch[q] \ {p}]
      BY <2>3, <3>1 DEF PollProducerModify, Forgotten
    <3>3. /\ pc' = [pc EXCEPT ![p] = "waking"] /\ want' = [want EXCEPT ![p] = NoWant]
          /\ waitersValue' = {} /\ prod' = prod /\ closed' = closed /\ ~closed
          /\ waitersClosed' = waitersClosed /\ waitersConsumer' = waitersConsumer
          /\ pc[p] \in {"poll", "asleep"} /\ want[p].kind = "value"
      BY <2>3 DEF PollProducerModify, Polled
    <3>4. /\ \A q \in Procs : pc'[q] = "upgrade" => q \notin prod'
          /\ \A q \in Procs : Waiting(q)' <=> want'[q] # NoWant
          /\ \A q \in Procs : pc'[q] = "weakpoll" =>
                want'[q].kind \in {"used", "unused"} /\ want'[q].via = "weak"
      BY <3>3 DEF Shape, Ranges
    <3>5. /\ \A q \in waitersClosed' : pc'[q] = "asleep" /\ want'[q].kind = "closed"
          /\ \A q \in waitersConsumer' : pc'[q] = "asleep" /\ want'[q].kind \in {"used", "unused"}
      BY <3>3 DEF Shape, Ranges
    <3>6. \A q \in Procs : \A x \in batch'[q] :
            /\ pc'[x] = "asleep" /\ pc'[q] = "waking"
            /\ x \notin waitersValue' /\ x \notin waitersClosed' /\ x \notin waitersConsumer'
            /\ \A y \in Procs : x \in batch'[y] => y = q
      BY <3>1, <3>2, <3>3 DEF Shape, Ranges
    <3>7. \A x \in Procs : pc'[x] = "asleep" /\ (\A q \in Procs : x \notin batch'[q]) =>
            \/ want'[x].kind = "closed" /\ x \in waitersClosed'
            \/ want'[x].kind \in {"used", "unused"} /\ x \in waitersConsumer'
      BY <3>1, <3>2, <3>3 DEF Shape, Ranges
    <3> QED  BY <3>3, <3>4, <3>5, <3>6, <3>7 DEF Shape
  <2>4. CASE PollClosed(p)
    BY <2>4, <1>3, <1>4 DEF PollClosed, Polled
  <2>5. CASE PollCount(p)
    BY <2>5, <1>3, <1>4 DEF PollCount, Polled
  <2>6. CASE PollCountWeak(p)
    <3>1. CASE Resolve(p, "ok")
      BY <2>6, <3>1, <1>3 DEF PollCountWeak, Polled
    <3>2. CASE ~Resolve(p, "ok")
      BY <2>6, <3>2, WantKinds DEF PollCountWeak, Polled, Forgotten, Shape, Ranges
    <3> QED  BY <3>1, <3>2
  <2> QED  BY <1>5, <2>1, <2>2, <2>3, <2>4, <2>5, <2>6 DEF Poll
<1>6. ASSUME NEW p \in Procs, Cancel(p) PROVE Shape'
  BY <1>6, <1>3 DEF Cancel
<1>7. ASSUME NEW p \in Procs, Finish(p) PROVE Shape'
  <2>1. CASE DropClose(p)
    BY <2>1 DEF DropClose, CloseAll, Shape, Ranges
  <2>2. CASE ProduceCheck(p)
    BY <2>2 DEF ProduceCheck, Shape, Ranges
  <2>3. CASE TakeConsumerWaiters(p)
    BY <2>3 DEF TakeConsumerWaiters, Shape, Ranges
  <2>4. CASE PollCountWeakLocked(p)
    <3>1. Waiting(p) /\ UNCHANGED <<state, counts, handles>>
      BY <2>4 DEF PollCountWeakLocked
    <3>2. CASE Resolve(p, "closed")
      BY <3>1, <3>2, <1>3
    <3>3. CASE Resolve(p, "ok")
      BY <3>1, <3>3, <1>3
    <3>4. CASE ~closed /\ Pend(p)
      BY <3>1, <3>4, <1>4
    <3> QED  BY <2>4, <3>2, <3>3, <3>4, Zenon DEF PollCountWeakLocked
  <2>5. ASSUME NEW q \in Procs, Wake(p, q) PROVE Shape'
    BY <2>5 DEF Wake, Shape, Ranges
  <2>6. CASE WakeDone(p)
    BY <2>6 DEF WakeDone, Shape, Ranges
  <2> QED  BY <1>7, <2>1, <2>2, <2>3, <2>4, <2>5, <2>6 DEF Finish
<1> QED  BY <1>1, <1>2, <1>5, <1>6, <1>7 DEF Next

-----------------------------------------------------------------------------
(* Each atomic counter step moves exactly the set it counts.  A process     *)
(* whose label stays off "upgrade" leaves the producer side alone.          *)
Counted == prod \cup Upgrading

(* A step off the counters keeps the counts exact.                          *)
LEMMA CountedSame ==
    ASSUME Ranges, CountsExact, prod' = prod, cons' = cons, UNCHANGED counts,
           \A q \in Procs : pc'[q] = "upgrade" <=> pc[q] = "upgrade"
    PROVE  CountsExact'
<1>1. {q \in Procs : pc'[q] = "upgrade"} = {q \in Procs : pc[q] = "upgrade"}
  OBVIOUS
<1>2. QED  BY <1>1 DEF CountsExact, counts

(* Clone, drop, consume and produce keep the counts exact.                  *)
LEMMA CountsStep == Ranges /\ Shape /\ CountsExact /\ [Next]_vars => CountsExact'
<1> SUFFICES ASSUME Ranges, Shape, CountsExact, [Next]_vars PROVE CountsExact'
    OBVIOUS
<1> USE DEF state, lists, counts, handles, tasks, Goto, WakeLater
<1>r. /\ pc \in [Procs -> Labels] /\ prod \subseteq Procs /\ cons \subseteq Procs
  BY DEF Ranges
<1>c. /\ Counted \in SUBSET Procs
      /\ producers = Cardinality(Counted) /\ consumers = Cardinality(cons)
  BY <1>r DEF Counted, Upgrading, CountsExact
<1>1. CASE UNCHANGED vars
  BY <1>1, CountedSame DEF vars
<1>2. ASSUME NEW p \in Procs, Begin(p) PROVE CountsExact'
  <2>1. ASSUME NEW v \in Values, Write(p, v) PROVE CountsExact'
    BY <2>1, <1>r, CountedSame DEF Write
  <2>2. ASSUME NEW v \in Values, Close(p, v) PROVE CountsExact'
    BY <2>2, <1>r, CountedSame DEF Close, CloseAll
  <2>3. ASSUME NEW q \in Procs, CloneProducer(p, q) PROVE CountsExact'
    <3>1. (prod \cup Upgrading)' = Counted \cup {q} /\ q \notin Counted
      BY <2>3, <1>r DEF CloneProducer, Counted, Upgrading
    <3>2. producers' = Cardinality((prod \cup Upgrading)')
      BY <2>3, <3>1, <1>c, CountIn DEF CloneProducer
    <3> QED  BY <2>3, <3>2 DEF CloneProducer, CountsExact, Upgrading
  <2>4. CASE DropProducer(p)
    <3>1. (prod \cup Upgrading)' = Counted \ {p} /\ p \in Counted
      BY <2>4, <1>r DEF DropProducer, Counted, Upgrading
    <3>2. producers' = Cardinality((prod \cup Upgrading)')
      BY <2>4, <3>1, <1>c, CountOut DEF DropProducer
    <3> QED  BY <2>4, <3>2 DEF DropProducer, CountsExact, Upgrading
  <2>5. CASE Produce(p)
    <3>1. (prod \cup Upgrading)' = Counted \cup {p} /\ p \notin Counted
      BY <2>5, <1>r DEF Produce, Counted, Upgrading
    <3>2. producers' = Cardinality((prod \cup Upgrading)')
      BY <2>5, <3>1, <1>c, CountIn DEF Produce
    <3> QED  BY <2>5, <3>2 DEF Produce, CountsExact, Upgrading
  <2>6. CASE Consume(p)
    <3>1. consumers' = Cardinality(cons')
      BY <2>6, <1>r, <1>c, CountIn DEF Consume
    <3>2. Upgrading' = Upgrading
      BY <2>6, <1>r DEF Consume, Upgrading
    <3> QED  BY <2>6, <3>1, <3>2 DEF Consume, CountsExact, Upgrading
  <2>7. ASSUME NEW q \in Procs, CloneConsumer(p, q) PROVE CountsExact'
    <3>1. consumers' = Cardinality(cons')
      BY <2>7, <1>r, <1>c, CountIn DEF CloneConsumer
    <3> QED  BY <2>7, <3>1 DEF CloneConsumer, CountsExact
  <2>8. CASE DropConsumer(p)
    <3>1. consumers' = Cardinality(cons')
      BY <2>8, <1>r, <1>c, CountOut DEF DropConsumer
    <3>2. Upgrading' = Upgrading
      BY <2>8, <1>r DEF DropConsumer, Upgrading
    <3> QED  BY <2>8, <3>1, <3>2 DEF DropConsumer, CountsExact, Upgrading
  <2>9. ASSUME NEW w \in Wants, StartWait(p, w) PROVE CountsExact'
    BY <2>9, <1>r, CountedSame DEF StartWait
  <2> QED  BY <1>2, <2>1, <2>2, <2>3, <2>4, <2>5, <2>6, <2>7, <2>8, <2>9 DEF Begin
<1>3. ASSUME NEW p \in Procs, NEW r, pc[p] # "upgrade", Resolve(p, r),
             UNCHANGED <<state, counts, handles>>
      PROVE  CountsExact'
  BY <1>3, <1>r, CountedSame DEF Resolve
<1>4. ASSUME NEW p \in Procs, pc[p] # "upgrade", Pend(p), UNCHANGED <<state, counts, handles>>
      PROVE  CountsExact'
  BY <1>4, <1>r, CountedSame DEF Pend
<1>5. ASSUME NEW p \in Procs, Poll(p) PROVE CountsExact'
  <2>1. CASE PollConsumerValue(p)
    BY <2>1, <1>3, <1>4 DEF PollConsumerValue, Polled
  <2>2. CASE PollProducerValue(p)
    BY <2>2, <1>3, <1>4 DEF PollProducerValue, Polled
  <2>3. ASSUME NEW v \in Values, PollProducerModify(p, v) PROVE CountsExact'
    BY <2>3, <1>r, CountedSame DEF PollProducerModify, Polled
  <2>4. CASE PollClosed(p)
    BY <2>4, <1>3, <1>4 DEF PollClosed, Polled
  <2>5. CASE PollCount(p)
    BY <2>5, <1>3, <1>4 DEF PollCount, Polled
  <2>6. CASE PollCountWeak(p)
    <3>1. CASE Resolve(p, "ok")
      BY <2>6, <3>1, <1>3 DEF PollCountWeak, Polled
    <3>2. CASE ~Resolve(p, "ok")
      BY <2>6, <3>2, <1>r, CountedSame DEF PollCountWeak, Polled
    <3> QED  BY <3>1, <3>2
  <2> QED  BY <1>5, <2>1, <2>2, <2>3, <2>4, <2>5, <2>6 DEF Poll
<1>6. ASSUME NEW p \in Procs, Cancel(p) PROVE CountsExact'
  BY <1>6, <1>3 DEF Cancel
<1>7. ASSUME NEW p \in Procs, Finish(p) PROVE CountsExact'
  <2>1. CASE DropClose(p)
    BY <2>1, <1>r, CountedSame DEF DropClose, CloseAll
  <2>2. CASE ProduceCheck(p)
    <3>1. p \in Counted
      BY <2>2 DEF ProduceCheck, Counted, Upgrading
    <3>2. CASE closed
      <4>1. (prod \cup Upgrading)' = Counted \ {p}
        BY <2>2, <3>2, <1>r, SMTT(30) DEF ProduceCheck, Counted, Upgrading, Shape
      <4>2. producers' = Cardinality((prod \cup Upgrading)')
        BY <2>2, <3>1, <3>2, <4>1, <1>c, CountOut DEF ProduceCheck
      <4> QED  BY <2>2, <4>2 DEF ProduceCheck, CountsExact, Upgrading
    <3>3. CASE ~closed
      <4>1. (prod \cup Upgrading)' = Counted
        BY <2>2, <3>1, <3>3, <1>r DEF ProduceCheck, Counted, Upgrading
      <4> QED  BY <2>2, <3>3, <4>1, <1>c DEF ProduceCheck, CountsExact, Upgrading
    <3> QED  BY <3>2, <3>3, <2>2 DEF ProduceCheck
  <2>3. CASE TakeConsumerWaiters(p)
    BY <2>3, <1>r, CountedSame DEF TakeConsumerWaiters
  <2>4. CASE PollCountWeakLocked(p)
    BY <2>4, <1>3, <1>4 DEF PollCountWeakLocked
  <2>5. ASSUME NEW q \in Procs, Wake(p, q) PROVE CountsExact'
    <3>1. pc[q] = "asleep"
      BY <2>5 DEF Wake, Shape
    <3> QED  BY <2>5, <3>1, <1>r, CountedSame DEF Wake
  <2>6. CASE WakeDone(p)
    BY <2>6, <1>r, CountedSame DEF WakeDone
  <2> QED  BY <1>7, <2>1, <2>2, <2>3, <2>4, <2>5, <2>6 DEF Finish
<1> QED  BY <1>1, <1>2, <1>5, <1>6, <1>7 DEF Next

-----------------------------------------------------------------------------
(* A channel whose producers are all gone is closed.                        *)
LEMMA AutoCloseStep ==
    Ranges /\ Shape /\ CountsExact /\ AutoClose /\ [Next]_vars => AutoClose'
<1> SUFFICES ASSUME Ranges, Shape, CountsExact, AutoClose, [Next]_vars,
                    ~closed', prod' = {}
             PROVE  \E q \in Procs : pc'[q] \in {"dropping", "upgrade"}
    BY DEF AutoClose
<1> USE DEF state, lists, counts, handles, tasks, Goto, WakeLater
<1>r. pc \in [Procs -> Labels] /\ prod \subseteq Procs /\ closed \in BOOLEAN
  BY DEF Ranges
<1>k. ASSUME UNCHANGED <<closed, prod>>,
             \A q \in Procs : pc[q] \in {"dropping", "upgrade"} => pc'[q] = pc[q]
      PROVE  \E q \in Procs : pc'[q] \in {"dropping", "upgrade"}
  BY <1>k DEF AutoClose
<1>1. CASE UNCHANGED vars
  BY <1>1, <1>k DEF vars
<1>2. ASSUME NEW p \in Procs, Begin(p)
      PROVE  \E q \in Procs : pc'[q] \in {"dropping", "upgrade"}
  <2>1. ASSUME NEW v \in Values, Write(p, v)
        PROVE  UNCHANGED <<closed, prod>> /\ pc[p] = "idle" /\ pc' = [pc EXCEPT ![p] = "waking"]
    BY <2>1 DEF Write
  <2>2. ASSUME NEW v \in Values, Close(p, v) PROVE FALSE
    BY <2>2 DEF Close, CloseAll
  <2>3. ASSUME NEW q \in Procs, CloneProducer(p, q) PROVE FALSE
    BY <2>3 DEF CloneProducer
  <2>4. CASE DropProducer(p)
    <3>1. CASE producers > 1
      <4>1. PICK q \in Procs : q # p /\ q \in prod \cup Upgrading
        <5>1. prod \cup Upgrading \in SUBSET Procs /\ p \in prod \cup Upgrading
              /\ producers = Cardinality(prod \cup Upgrading)
          BY <2>4, <1>r DEF DropProducer, Upgrading, CountsExact
        <5>2. Cardinality((prod \cup Upgrading) \ {p}) # 0
          BY <3>1, <5>1, CountOut
        <5>3. (prod \cup Upgrading) \ {p} # {}
          BY <5>1, <5>2, CountNat
        <5> QED  BY <5>1, <5>3
      <4> QED  BY <2>4, <4>1, <1>r DEF DropProducer, Upgrading
    <3>2. CASE ~(producers > 1)
      BY <2>4, <3>2, <1>r DEF DropProducer
    <3> QED  BY <3>1, <3>2
  <2>5. CASE Produce(p)
    BY <2>5, <1>r DEF Produce
  <2>6. CASE Consume(p)
    BY <2>6, <1>k, <1>r DEF Consume
  <2>7. ASSUME NEW q \in Procs, CloneConsumer(p, q) PROVE UNCHANGED <<closed, prod, pc>>
    BY <2>7 DEF CloneConsumer
  <2>8. CASE DropConsumer(p)
    BY <2>8, <1>k, <1>r DEF DropConsumer
  <2>9. ASSUME NEW w \in Wants, StartWait(p, w)
        PROVE  UNCHANGED <<closed, prod>> /\ pc[p] = "idle" /\ pc' = [pc EXCEPT ![p] = "poll"]
    BY <2>9 DEF StartWait
  <2> QED  BY <1>2, <2>1, <2>2, <2>3, <2>4, <2>5, <2>6, <2>7, <2>8, <2>9, <1>k, <1>r DEF Begin
<1>3. ASSUME NEW p \in Procs, NEW r, Waiting(p), Resolve(p, r), UNCHANGED <<state, counts, handles>>
      PROVE  \E q \in Procs : pc'[q] \in {"dropping", "upgrade"}
  BY <1>3, <1>k, <1>r DEF Resolve, Waiting
<1>4. ASSUME NEW p \in Procs, Waiting(p), Pend(p), UNCHANGED <<state, counts, handles>>
      PROVE  \E q \in Procs : pc'[q] \in {"dropping", "upgrade"}
  BY <1>4, <1>k, <1>r DEF Pend, Waiting
<1>5. ASSUME NEW p \in Procs, Poll(p)
      PROVE  \E q \in Procs : pc'[q] \in {"dropping", "upgrade"}
  <2>1. CASE PollConsumerValue(p)
    BY <2>1, <1>3, <1>4 DEF PollConsumerValue, Polled, Waiting
  <2>2. CASE PollProducerValue(p)
    BY <2>2, <1>3, <1>4 DEF PollProducerValue, Polled, Waiting
  <2>3. ASSUME NEW v \in Values, PollProducerModify(p, v)
        PROVE  \E q \in Procs : pc'[q] \in {"dropping", "upgrade"}
    BY <2>3, <1>k, <1>r DEF PollProducerModify, Polled
  <2>4. CASE PollClosed(p)
    BY <2>4, <1>3, <1>4 DEF PollClosed, Polled, Waiting
  <2>5. CASE PollCount(p)
    BY <2>5, <1>3, <1>4 DEF PollCount, Polled, Waiting
  <2>6. CASE PollCountWeak(p)
    <3>1. CASE Resolve(p, "ok")
      BY <2>6, <3>1, <1>3 DEF PollCountWeak, Polled, Waiting
    <3>2. CASE ~Resolve(p, "ok")
      BY <2>6, <3>2, <1>k, <1>r DEF PollCountWeak, Polled
    <3> QED  BY <3>1, <3>2
  <2> QED  BY <1>5, <2>1, <2>2, <2>3, <2>4, <2>5, <2>6 DEF Poll
<1>6. ASSUME NEW p \in Procs, Cancel(p)
      PROVE  \E q \in Procs : pc'[q] \in {"dropping", "upgrade"}
  BY <1>6, <1>3 DEF Cancel, Waiting
<1>7. ASSUME NEW p \in Procs, Finish(p)
      PROVE  \E q \in Procs : pc'[q] \in {"dropping", "upgrade"}
  <2>1. CASE DropClose(p)
    BY <2>1, <1>r DEF DropClose, CloseAll
  <2>2. CASE ProduceCheck(p)
    BY <2>2, <1>r DEF ProduceCheck
  <2>3. CASE TakeConsumerWaiters(p)
    BY <2>3, <1>k, <1>r DEF TakeConsumerWaiters
  <2>4. CASE PollCountWeakLocked(p)
    BY <2>4, <1>3, <1>4 DEF PollCountWeakLocked, Waiting
  <2>5. ASSUME NEW q \in Procs, Wake(p, q)
        PROVE  \E x \in Procs : pc'[x] \in {"dropping", "upgrade"}
    <3>1. pc[q] = "asleep"
      BY <2>5 DEF Wake, Shape
    <3>2. UNCHANGED <<closed, prod>> /\ pc' = [pc EXCEPT ![q] = "poll"]
      BY <2>5 DEF Wake
    <3> QED  BY <3>1, <3>2, <1>k, <1>r
  <2>6. CASE WakeDone(p)
    BY <2>6, <1>k, <1>r DEF WakeDone
  <2> QED  BY <1>7, <2>1, <2>2, <2>3, <2>4, <2>5, <2>6 DEF Finish
<1> QED  BY <1>1, <1>2, <1>5, <1>6, <1>7 DEF Next

-----------------------------------------------------------------------------
(* No step loses a wakeup.  Whoever makes a wait due either drains its      *)
(* entry in the same critical section, or has moved the consumer count and  *)
(* is on its way to the mutex; and nobody falls asleep on a wait that is    *)
(* already due.                                                             *)
LEMMA NoLostWakeupStep ==
    Ranges /\ Shape /\ Shape' /\ CountsExact /\ NoLostWakeup /\ [Next]_vars => NoLostWakeup'
<1> SUFFICES ASSUME Ranges, Shape, Shape', CountsExact, NoLostWakeup, [Next]_vars,
                    NEW x \in Procs, pc'[x] = "asleep", closed' \/ Satisfied(want[x])',
                    \A q \in Procs : x \notin batch'[q]
             PROVE  /\ ~closed' /\ want'[x].kind \in {"used", "unused"}
                    /\ \E q \in Procs : pc'[q] = "take"
    BY DEF NoLostWakeup
<1> DEFINE Covered == \E q \in Procs : pc'[q] = "take"
<1> USE DEF state, lists, counts, handles, tasks, Goto, WakeLater
<1>r. /\ pc \in [Procs -> Labels] /\ want \in [Procs -> Wants \cup {NoWant}]
      /\ batch \in [Procs -> SUBSET Procs] /\ cons \subseteq Procs /\ closed \in BOOLEAN
  BY DEF Ranges
<1>n. /\ consumers \in Nat /\ (consumers = 0 <=> cons = {})
  BY <1>r, CountNat DEF CountsExact
<1>w. want'[x].kind = "none" => ~Satisfied(want[x])'
  BY DEF Satisfied
<1>l. /\ ~closed'
      /\ \/ want'[x].kind = "value" /\ x \in waitersValue'
         \/ want'[x].kind \in {"used", "unused"} /\ x \in waitersConsumer'
  <2>1. \/ want'[x].kind = "value" /\ x \in waitersValue'
        \/ want'[x].kind = "closed" /\ x \in waitersClosed'
        \/ want'[x].kind \in {"used", "unused"} /\ x \in waitersConsumer'
    BY DEF Shape
  <2>2. ~closed'
    BY <2>1 DEF Shape
  <2> QED  BY <2>1, <2>2 DEF Satisfied
(* A step that leaves x, its batch and the state it waits for alone.        *)
<1>k. ASSUME pc[x] = "asleep", want'[x] = want[x], ~closed,
             want[x].kind = "value" => value' = value,
             want[x].kind \in {"used", "unused"} => consumers' = consumers,
             \A q \in Procs : x \notin batch[q]
      PROVE  want[x].kind \in {"used", "unused"} /\ \E q \in Procs : pc[q] = "take"
  <2>1. Satisfied(want[x])
    BY <1>k, <1>l DEF Satisfied
  <2> QED  BY <2>1, <1>k DEF NoLostWakeup
(* A step that counts a consumer in or out among others: what is due was    *)
(* due before.                                                              *)
<1>j. ASSUME pc[x] = "asleep", want' = want, closed' = closed, value' = value, batch' = batch,
             consumers # 0, consumers' # 0, consumers' \in Nat,
             \A q \in Procs : pc[q] = "take" => pc'[q] = "take"
      PROVE  want'[x].kind \in {"used", "unused"} /\ Covered
  <2>1. Satisfied(want[x])
    BY <1>j, <1>l, <1>n DEF Satisfied
  <2>2. want[x].kind \in {"used", "unused"} /\ \E q \in Procs : pc[q] = "take"
    BY <2>1, <1>j DEF NoLostWakeup
  <2> QED  BY <2>2, <1>j
<1> SUFFICES want'[x].kind \in {"used", "unused"} /\ Covered
    BY <1>l
<1>1. CASE UNCHANGED vars
  BY <1>1, <1>k, <1>l DEF vars
<1>2. ASSUME NEW p \in Procs, Begin(p) PROVE want'[x].kind \in {"used", "unused"} /\ Covered
  <2>1. ASSUME NEW v \in Values, Write(p, v)
        PROVE  want'[x].kind \in {"used", "unused"} /\ Covered
    <3>1. waitersValue' = {} /\ want' = want /\ closed' = closed /\ consumers' = consumers
      BY <2>1 DEF Write
    <3>2. want'[x].kind \in {"used", "unused"}
      BY <3>1, <1>l
    <3>3. pc[p] = "idle" /\ pc' = [pc EXCEPT ![p] = "waking"]
      BY <2>1 DEF Write
    <3>4. x # p /\ pc[x] = "asleep" /\ \A q \in Procs : pc[q] = "take" => pc'[q] = "take"
      BY <3>3, <1>r
    <3>5. batch[p] = {}
      BY <3>3, <1>r DEF Shape
    <3>6. batch' = [batch EXCEPT ![p] = waitersValue]
      BY <2>1 DEF Write
    <3>7. \A q \in Procs : x \notin batch[q]
      BY <3>5, <3>6, <1>r
    <3> QED  BY <3>1, <3>2, <3>4, <3>7, <1>k, <1>l
  <2>2. ASSUME NEW v \in Values, Close(p, v)
        PROVE  want'[x].kind \in {"used", "unused"} /\ Covered
    BY <2>2, <1>l DEF Close, CloseAll
  <2>3. ASSUME NEW q \in Procs, CloneProducer(p, q)
        PROVE  want'[x].kind \in {"used", "unused"} /\ Covered
    BY <2>3, <1>k, <1>l DEF CloneProducer
  <2>4. CASE DropProducer(p)
    BY <2>4, <1>k, <1>l, <1>r DEF DropProducer
  <2>5. CASE Produce(p)
    BY <2>5, <1>k, <1>l, <1>r DEF Produce
  <2>6. CASE Consume(p)
    <3>1. CASE consumers = 0
      BY <2>6, <3>1, <1>k, <1>l, <1>r DEF Consume
    <3>2. CASE consumers # 0
      <4>1. pc[p] = "idle" /\ pc' = [pc EXCEPT ![p] = "idle"]
        BY <2>6, <3>2 DEF Consume
      <4>2. pc' = pc
        BY <4>1, <1>r
      <4>3. /\ want' = want /\ closed' = closed /\ value' = value /\ batch' = batch
            /\ consumers' = consumers + 1
        BY <2>6 DEF Consume
      <4>4. consumers' \in Nat /\ consumers' # 0
        BY <4>3, <1>n
      <4>5. pc[x] = "asleep"
        BY <4>2
      <4> QED  BY <3>2, <4>2, <4>3, <4>4, <4>5, <1>j
    <3> QED  BY <3>1, <3>2
  <2>7. ASSUME NEW q \in Procs, CloneConsumer(p, q)
        PROVE  want'[x].kind \in {"used", "unused"} /\ Covered
    <3>1. /\ pc' = pc /\ want' = want /\ closed' = closed /\ value' = value /\ batch' = batch
          /\ consumers' = consumers + 1 /\ p \in cons
      BY <2>7 DEF CloneConsumer
    <3> QED  BY <3>1, <1>j, <1>n
  <2>8. CASE DropConsumer(p)
    <3>1. CASE consumers > 1
      <4>1. pc[p] = "idle" /\ pc' = [pc EXCEPT ![p] = "idle"]
        BY <2>8, <3>1, <1>n DEF DropConsumer
      <4>2. pc' = pc
        BY <4>1, <1>r
      <4>3. /\ want' = want /\ closed' = closed /\ value' = value /\ batch' = batch
            /\ consumers' = consumers - 1
        BY <2>8 DEF DropConsumer
      <4>4. consumers # 0 /\ consumers' \in Nat /\ consumers' # 0
        BY <3>1, <4>3, <1>n
      <4>5. pc[x] = "asleep"
        BY <4>2
      <4> QED  BY <4>2, <4>3, <4>4, <4>5, <1>j
    <3>2. CASE ~(consumers > 1)
      BY <2>8, <3>2, <1>k, <1>l, <1>r DEF DropConsumer
    <3> QED  BY <3>1, <3>2
  <2>9. ASSUME NEW w \in Wants, StartWait(p, w)
        PROVE  want'[x].kind \in {"used", "unused"} /\ Covered
    BY <2>9, <1>k, <1>l, <1>r DEF StartWait
  <2> QED  BY <1>2, <2>1, <2>2, <2>3, <2>4, <2>5, <2>6, <2>7, <2>8, <2>9 DEF Begin
<1>3. ASSUME NEW p \in Procs, NEW r, Waiting(p), Resolve(p, r), UNCHANGED <<state, counts, handles>>
      PROVE  want'[x].kind \in {"used", "unused"} /\ Covered
  BY <1>3, <1>k, <1>l, <1>r DEF Resolve, Forgotten, Waiting
<1>4. ASSUME NEW p \in Procs, Waiting(p), ~closed, ~Satisfied(want[p]), Pend(p),
             UNCHANGED <<state, counts, handles>>
      PROVE  want'[x].kind \in {"used", "unused"} /\ Covered
  <2>1. x # p
    BY <1>4, <1>l DEF Pend, Satisfied
  <2> QED  BY <1>4, <2>1, <1>k, <1>l, <1>r DEF Pend, Forgotten, Waiting
<1>5. ASSUME NEW p \in Procs, Poll(p) \/ Cancel(p) \/ PollCountWeakLocked(p)
      PROVE  want'[x].kind \in {"used", "unused"} /\ Covered
  <2>1. CASE Ends(p)
    <3>1. PICK r : Waiting(p) /\ Resolve(p, r) /\ UNCHANGED <<state, counts, handles>>
      BY <2>1, Zenon DEF Ends
    <3> QED  BY <3>1, <1>3
  <2>2. CASE Sleeps(p)
    BY <2>2, <1>4 DEF Sleeps
  <2>3. ASSUME NEW v \in Values, PollProducerModify(p, v)
        PROVE  want'[x].kind \in {"used", "unused"} /\ Covered
    <3>1. batch[p] = {}
      BY <2>3, <1>r DEF PollProducerModify, Polled, Shape
    <3>2. batch' = [q \in Procs |-> IF q = p THEN waitersValue \ {p} ELSE batch[q] \ {p}]
      BY <2>3, <3>1, <1>r DEF PollProducerModify, Forgotten
    <3> QED  BY <2>3, <3>1, <3>2, <1>k, <1>l, <1>r DEF PollProducerModify, Polled
  <2>4. CASE LookAgain(p) /\ UNCHANGED <<state, counts, handles>>
    <3>1. x # p /\ pc[x] = "asleep" /\ \A q \in Procs : x \notin batch[q]
      BY <2>4, <1>r DEF LookAgain, Forgotten
    <3>2. want' = want /\ closed' = closed /\ value' = value /\ consumers' = consumers
      BY <2>4 DEF LookAgain
    <3>3. \A q \in Procs : pc[q] = "take" => pc'[q] = "take"
      BY <2>4, <1>r DEF LookAgain
    <3> QED  BY <3>1, <3>2, <3>3, <1>k, <1>l
  <2> QED  BY <1>5, <2>1, <2>2, <2>3, <2>4, PollCases
<1>7. ASSUME NEW p \in Procs, Finish(p) PROVE want'[x].kind \in {"used", "unused"} /\ Covered
  <2>1. CASE DropClose(p)
    BY <2>1, <1>l DEF DropClose, CloseAll
  <2>2. CASE ProduceCheck(p)
    BY <2>2, <1>k, <1>l, <1>r DEF ProduceCheck
  <2>3. CASE TakeConsumerWaiters(p)
    <3>1. /\ want'[x].kind = "value" /\ x # p /\ x \in waitersValue
          /\ want' = want /\ closed' = closed /\ value' = value /\ pc[x] = "asleep"
      BY <2>3, <1>l, <1>r DEF TakeConsumerWaiters
    <3>2. \A q \in Procs : x \notin batch[q]
      BY <3>1 DEF Shape
    <3> QED  BY <3>1, <3>2, <1>k, <1>l
  <2>4. CASE PollCountWeakLocked(p)
    BY <2>4, <1>5
  <2>5. ASSUME NEW q \in Procs, Wake(p, q)
        PROVE  want'[x].kind \in {"used", "unused"} /\ Covered
    <3>1. /\ x # q /\ pc[x] = "asleep" /\ \A r \in Procs : x \notin batch[r]
          /\ want' = want /\ closed' = closed /\ value' = value /\ consumers' = consumers
      BY <2>5, <1>r DEF Wake
    <3>2. want[x].kind \in {"used", "unused"} /\ \E r \in Procs : pc[r] = "take"
      BY <3>1, <1>k, <1>l
    <3>3. pc[q] = "asleep"
      BY <2>5 DEF Wake, Shape
    <3> QED  BY <2>5, <3>1, <3>2, <3>3, <1>r DEF Wake
  <2>6. CASE WakeDone(p)
    BY <2>6, <1>k, <1>l, <1>r DEF WakeDone
  <2> QED  BY <1>7, <2>1, <2>2, <2>3, <2>4, <2>5, <2>6 DEF Finish
<1> QED  BY <1>1, <1>2, <1>5, <1>7 DEF Next

-----------------------------------------------------------------------------
(* The inductive invariant: the properties TLC checks, strengthened by the  *)
(* shape of the lists.                                                      *)
Inv == Ranges /\ Shape /\ CountsExact /\ AutoClose /\ NoLostWakeup

(* The state Producer::new builds satisfies it: one producer, no entries.   *)
LEMMA InvInit == Init => Inv
<1> SUFFICES ASSUME Init PROVE Inv
    OBVIOUS
<1>1. PICK o \in Procs : prod = {o}
  BY DEF Init
<1>2. Ranges
  BY <1>1 DEF Init, Ranges, Labels
<1>3. Shape
  BY <1>1 DEF Init, Shape, Waiting
<1>4. CountsExact
  <2>1. prod \cup {p \in Procs : pc[p] = "upgrade"} = {o}
    BY <1>1 DEF Init
  <2>2. Cardinality({o}) = 1
    BY FS_Singleton
  <2>3. Cardinality({}) = 0
    BY FS_EmptySet
  <2> QED  BY <2>1, <2>2, <2>3 DEF Init, CountsExact
<1>5. AutoClose /\ NoLostWakeup
  BY <1>1 DEF Init, AutoClose, NoLostWakeup
<1> QED  BY <1>2, <1>3, <1>4, <1>5 DEF Inv

(* Every critical section and every counter operation preserves it.         *)
LEMMA InvStep == Inv /\ [Next]_vars => Inv'
BY RangesStep, ShapeStep, CountsStep, AutoCloseStep, NoLostWakeupStep DEF Inv

(* Hence it always holds.                                                   *)
LEMMA InvAlways == Spec => []Inv
BY InvInit, InvStep, PTL DEF Spec

-----------------------------------------------------------------------------
(* Every variable of the channel keeps its type; in particular the counters *)
(* that drop decrements without the mutex never go below zero.              *)
THEOREM TypeCorrect == Spec => []TypeOK
<1>1. Inv => TypeOK
  <2> SUFFICES ASSUME Inv PROVE TypeOK
      OBVIOUS
  <2>1. /\ prod \cup {p \in Procs : pc[p] = "upgrade"} \in SUBSET Procs
        /\ cons \in SUBSET Procs
    BY DEF Inv, Ranges
  <2>2. producers \in Nat /\ consumers \in Nat
    BY <2>1, CountNat DEF Inv, CountsExact
  <2> QED  BY <2>2 DEF Inv, Ranges, TypeOK
<1> QED  BY <1>1, InvAlways, PTL

(* Counts::producers and Counts::consumers are exact for any number of      *)
(* tasks cloning, dropping and upgrading handles at once.                   *)
THEOREM CountsAreExact == Spec => []CountsExact
<1>1. Inv => CountsExact
  BY DEF Inv
<1> QED  BY <1>1, InvAlways, PTL

(* No sleeping waiter is ever off the lists: register, take and wake never  *)
(* lose an entry.                                                           *)
THEOREM SleepersAreListed == Spec => []SleepersListed
<1>1. Inv => SleepersListed
  BY DEF Inv, Shape, SleepersListed, ListOf
<1> QED  BY <1>1, InvAlways, PTL

(* No waiter sleeps through the event it waits for: whatever the            *)
(* interleaving of polls, writes, closes and handle counting, a due sleeper *)
(* is in the hands of a call that is about to wake it.                      *)
THEOREM NoWakeupIsLost == Spec => []NoLostWakeup
<1>1. Inv => NoLostWakeup
  BY DEF Inv
<1> QED  BY <1>1, InvAlways, PTL

(* A channel without producers, and without a drop or an upgrade under way, *)
(* is closed.                                                               *)
THEOREM ChannelAutoCloses == Spec => []AutoClose
<1>1. Inv => AutoClose
  BY DEF Inv
<1> QED  BY <1>1, InvAlways, PTL

-----------------------------------------------------------------------------
(* What a poll does to the state the abstract channel sees.                 *)
LEMMA PollEffect ==
    ASSUME NEW p \in Procs, Poll(p) \/ Cancel(p) \/ PollCountWeakLocked(p), Inv
    PROVE  /\ consumers' = consumers /\ closed' = closed
           /\ \/ UNCHANGED <<value, want, result>>
              \/ Channel!Ready(p) \/ Channel!Ended(p) \/ Channel!GiveUp(p)
           /\ closed => value' = value /\ lists' = lists
<1> USE DEF state, lists, counts, handles, tasks, Goto
<1>w. /\ Waiting(p) /\ want[p] # NoWant /\ want[p] \in Wants
      /\ closed => waitersValue = {} /\ waitersClosed = {} /\ waitersConsumer = {}
      /\ pc[p] = "weakpoll" => want[p].kind \in {"used", "unused"} /\ want[p].via = "weak"
      /\ value \in Values
  <2>1. Waiting(p)
    BY DEF Poll, Cancel, PollCountWeakLocked, PollConsumerValue, PollProducerValue,
           PollProducerModify, PollClosed, PollCount, PollCountWeak, Polled, Waiting
  <2>2. want[p] # NoWant
    BY <2>1 DEF Inv, Shape
  <2>3. want[p] \in Wants /\ value \in Values
    BY <2>2 DEF Inv, Ranges
  <2> QED  BY <2>1, <2>2, <2>3 DEF Inv, Shape
<1>m. Channel!Met(want[p]) <=> Satisfied(want[p])
  <2>1. CASE want[p].kind = "value"
    BY <2>1 DEF Channel!Met, Satisfied
  <2>2. CASE want[p].kind = "closed"
    BY <2>2 DEF Channel!Met, Satisfied
  <2>3. CASE want[p].kind = "used"
    BY <2>3 DEF Channel!Met, Satisfied
  <2>4. CASE want[p].kind = "unused"
    BY <2>4 DEF Channel!Met, Satisfied
  <2> QED  BY <1>w, <2>1, <2>2, <2>3, <2>4, WantKinds
<1>n. Channel!NoWant = NoWant
  BY DEF Channel!NoWant, NoWant
<1>e. ASSUME NEW r, Resolve(p, r), UNCHANGED <<counts, state, handles>>
      PROVE  /\ Channel!End(p, r) /\ consumers' = consumers /\ closed' = closed /\ value' = value
             /\ closed => lists' = lists
  BY <1>e, <1>w, <1>n DEF Resolve, Channel!End
<1>p. ASSUME Pend(p), ~closed, UNCHANGED <<counts, state, handles>>
      PROVE  /\ consumers' = consumers /\ closed' = closed /\ ~closed
             /\ UNCHANGED <<value, want, result>>
  BY <1>p DEF Pend
<1>1. CASE PollConsumerValue(p)
  BY <1>1, <1>m, <1>e, <1>p DEF PollConsumerValue, Polled, Channel!Ready, Channel!Ended
<1>2. CASE PollProducerValue(p)
  BY <1>2, <1>m, <1>e, <1>p DEF PollProducerValue, Polled, Channel!Ready, Channel!Ended
<1>3. ASSUME NEW v \in Values, PollProducerModify(p, v)
      PROVE  consumers' = consumers /\ closed' = closed /\ ~closed /\ Channel!Ready(p)
  BY <1>3, <1>m, <1>w, <1>n DEF PollProducerModify, Polled, Channel!Ready, Channel!End
<1>4. CASE PollClosed(p)
  BY <1>4, <1>m, <1>e, <1>p DEF PollClosed, Polled, Channel!Ready, Satisfied
<1>5. CASE PollCount(p)
  BY <1>5, <1>m, <1>e, <1>p DEF PollCount, Polled, Channel!Ready, Channel!Ended
<1>6. CASE PollCountWeak(p)
  <2>1. CASE Satisfied(want[p])
    BY <1>6, <2>1, <1>m, <1>e DEF PollCountWeak, Polled, Channel!Ready
  <2>2. CASE ~Satisfied(want[p])
    BY <1>6, <2>2, <1>w DEF PollCountWeak
  <2> QED  BY <2>1, <2>2
<1>7. CASE Cancel(p)
  BY <1>7, <1>e DEF Cancel, Channel!GiveUp
<1>8. CASE PollCountWeakLocked(p)
  BY <1>8, <1>m, <1>e, <1>p, <1>w DEF PollCountWeakLocked, Channel!Ready, Channel!Ended
<1> QED  BY <1>1, <1>2, <1>3, <1>4, <1>5, <1>6, <1>7, <1>8 DEF Poll

(* A closed channel never reopens, its value never changes again, and       *)
(* nobody registers on it: each poll looks at the flag in the same critical *)
(* section as it registers.                                                 *)
THEOREM ClosedForGood == Spec => CloseIsFinal
<1> DEFINE A == closed => closed' /\ value' = value /\ lists' = lists
<1>1. Inv /\ [Next]_vars => [A]_vars
  <2> SUFFICES ASSUME Inv, Next, closed PROVE closed' /\ value' = value /\ lists' = lists
      OBVIOUS
  <2> USE DEF state, lists, counts, handles, tasks
  <2>0. waitersValue = {} /\ waitersClosed = {} /\ waitersConsumer = {}
    BY DEF Inv, Shape
  <2>1. PICK p \in Procs : Begin(p) \/ Poll(p) \/ Cancel(p) \/ Finish(p)
    BY DEF Next
  <2>2. CASE Poll(p) \/ Cancel(p) \/ PollCountWeakLocked(p)
    BY <2>2, PollEffect
  <2>3. CASE Begin(p)
    BY <2>3 DEF Begin, Write, Close, CloneProducer, DropProducer, Produce, Consume,
                CloneConsumer, DropConsumer, StartWait
  <2>4. CASE Finish(p) /\ ~PollCountWeakLocked(p)
    BY <2>4, <2>0 DEF Finish, DropClose, ProduceCheck, TakeConsumerWaiters, Wake, WakeDone
  <2> QED  BY <2>1, <2>2, <2>3, <2>4
<1> QED  BY <1>1, InvAlways, PTL DEF Spec, CloseIsFinal

(* The channel implements the safety part of KioChannel: with the mutex,    *)
(* the wakers, the lists and the handle counting in the way, every wait     *)
(* still ends with an answer that is right at that moment.                  *)
THEOREM ChannelImplemented == Spec => Channel!Safety
<1>1. Init => Channel!Init
  BY DEF Init, Channel!Init, NoWant, Channel!NoWant
<1>2. Inv /\ Inv' /\ [Next]_vars => [Channel!Next]_(Channel!vars)
  <2> SUFFICES ASSUME Inv, Inv', [Next]_vars, ~UNCHANGED Channel!vars PROVE Channel!Next
      OBVIOUS
  <2> USE DEF state, lists, counts, handles, tasks, Goto, WakeLater, Channel!vars
  <2>0. Next
    BY DEF vars
  <2>1. PICK p \in Procs : Begin(p) \/ Poll(p) \/ Cancel(p) \/ Finish(p)
    BY <2>0 DEF Next
  <2>2. CASE Poll(p) \/ Cancel(p) \/ PollCountWeakLocked(p)
    BY <2>2, PollEffect DEF Channel!Next
  <2>n. consumers \in Nat /\ consumers' \in Nat
    <3>1. cons \in SUBSET Procs /\ cons' \in SUBSET Procs
      BY DEF Inv, Ranges
    <3> QED  BY <3>1, CountNat DEF Inv, CountsExact
  <2>3. CASE Begin(p)
    <3>1. ASSUME NEW v \in Values, Write(p, v) PROVE Channel!Next
      BY <3>1 DEF Write, Channel!Next, Channel!Modify
    <3>2. ASSUME NEW v \in Values, Close(p, v) PROVE Channel!Next
      BY <3>2 DEF Close, CloseAll, Channel!Next, Channel!Shut
    <3>3. CASE DropProducer(p) \/ Produce(p) \/ \E q \in Procs : CloneProducer(p, q)
      BY <3>3 DEF CloneProducer, DropProducer, Produce
    <3>4. CASE Consume(p) \/ DropConsumer(p) \/ \E q \in Procs : CloneConsumer(p, q)
      BY <3>4, <2>n DEF Consume, DropConsumer, CloneConsumer, Channel!Next, Channel!Count
    <3>5. ASSUME NEW w \in Wants, StartWait(p, w) PROVE Channel!Next
      <4>1. want[p] = NoWant
        BY <3>5 DEF StartWait, Inv, Shape, Waiting
      <4>2. Channel!Await(p, w)
        BY <3>5, <4>1 DEF StartWait, Channel!Await, NoWant, Channel!NoWant
      <4>3. w \in Channel!Wants
        BY DEF Wants, Channel!Wants
      <4> QED  BY <4>2, <4>3 DEF Channel!Next
    <3> QED  BY <2>3, <3>1, <3>2, <3>3, <3>4, <3>5 DEF Begin
  <2>4. CASE Finish(p) /\ ~PollCountWeakLocked(p)
    <3>1. value \in Values
      BY DEF Inv, Ranges
    <3> QED  BY <2>4, <3>1 DEF Finish, DropClose, CloseAll, ProduceCheck, TakeConsumerWaiters,
                               Wake, WakeDone, Channel!Next, Channel!Shut
  <2> QED  BY <2>1, <2>2, <2>3, <2>4
<1> QED  BY <1>1, <1>2, InvAlways, PTL DEF Spec, Channel!Safety

=============================================================================

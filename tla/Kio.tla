-------------------------------- MODULE Kio --------------------------------
(***************************************************************************)
(* The kio shared-state channel (relay/rs/kio): a value behind a mutex,    *)
(* reference-counted Producer and Consumer handles, uncounted Weak         *)
(* handles, and three lists of weak wakers.                                *)
(*                                                                         *)
(* A process is an async task or a thread.  It holds at most one Producer  *)
(* and one Consumer (more processes stand for more handles) and always a   *)
(* Weak.  One action is one critical section of the mutex or one atomic    *)
(* operation on a counter; everything between two of them interleaves.     *)
(*                                                                         *)
(* A waiter list holds weak references: an entry dies when its task polls  *)
(* again, resolves or is cancelled.  A dead entry is skipped by wake and   *)
(* recycled by register, so here it leaves the list, and the batch being   *)
(* woken, at the moment it dies.                                           *)
(***************************************************************************)
EXTENDS Naturals, FiniteSets

CONSTANTS
    Procs,      \* the tasks and threads sharing the channel
    Values,     \* what the shared value can be
    NoGoal      \* the goal of a wait that is not for a value

ASSUME ProcsAssumption == IsFiniteSet(Procs) /\ Procs # {}
ASSUME ValuesAssumption == Values # {} /\ NoGoal \notin Values

VARIABLES
    value,              \* State::value
    closed,             \* State::closed
    waitersValue,       \* State::waiters_value
    waitersClosed,      \* State::waiters_closed
    waitersConsumer,    \* State::waiters_consumer
    producers,          \* Counts::producers
    consumers,          \* Counts::consumers
    prod,               \* the processes that own a Producer
    cons,               \* the processes that own a Consumer
    pc,                 \* what each process is in the middle of
    want,               \* the wait each process is in
    result,             \* how its last wait ended
    batch               \* the drained waiters each process still has to wake

state == <<value, closed>>
lists == <<waitersValue, waitersClosed, waitersConsumer>>
counts == <<producers, consumers>>
handles == <<prod, cons>>
tasks == <<pc, want, result, batch>>
vars == <<value, closed, waitersValue, waitersClosed, waitersConsumer,
          producers, consumers, prod, cons, pc, want, result, batch>>

-----------------------------------------------------------------------------
(* "value" is poll/wait, "closed" is closed(), "used" and "unused" are the  *)
(* waits on the consumer count.  via is the handle the future borrows.      *)
NoWant == [kind |-> "none", via |-> "none", goal |-> NoGoal]

Wants == [kind : {"value"}, via : {"producer", "consumer"}, goal : Values]
           \cup [kind : {"closed"}, via : {"producer", "consumer"}, goal : {NoGoal}]
           \cup [kind : {"used", "unused"}, via : {"producer", "weak"}, goal : {NoGoal}]

(* What a wait on the channel's own state asks for, closing left aside.     *)
Satisfied(w) ==
    \/ w.kind = "value" /\ value = w.goal
    \/ w.kind = "closed" /\ closed
    \/ w.kind = "used" /\ consumers > 0
    \/ w.kind = "unused" /\ consumers = 0

Init ==
    /\ value \in Values
    /\ closed = FALSE
    /\ waitersValue = {} /\ waitersClosed = {} /\ waitersConsumer = {}
    /\ producers = 1 /\ consumers = 0
    /\ \E p \in Procs : prod = {p}
    /\ cons = {}
    /\ pc = [p \in Procs |-> "idle"]
    /\ want = [p \in Procs |-> NoWant]
    /\ result = [p \in Procs |-> "none"]
    /\ batch = [p \in Procs |-> {}]

Goto(p, l) == pc' = [pc EXCEPT ![p] = l]

(* Drained waiters are woken after the mutex is released.                   *)
WakeLater(p, ws) ==
    /\ Goto(p, "waking")
    /\ batch' = [batch EXCEPT ![p] = ws]

-----------------------------------------------------------------------------
(* Mut and its drop: a modification drains waiters_value, one that also     *)
(* closes drains all three lists.                                           *)

(* A write through a Producer, a Consumer or a Weak, to an open channel.    *)
Write(p, v) ==
    /\ pc[p] = "idle" /\ ~closed
    /\ value' = v
    /\ WakeLater(p, waitersValue)
    /\ waitersValue' = {}
    /\ UNCHANGED <<closed, waitersClosed, waitersConsumer, counts, handles, want, result>>

(* Mutant: closing forgets the tasks that watch the consumer count.         *)
CloseSome(p) ==
    /\ closed' = TRUE
    /\ WakeLater(p, waitersValue \cup waitersClosed)
    /\ waitersValue' = {} /\ waitersClosed' = {} /\ UNCHANGED waitersConsumer

CloseAll(p) ==
    /\ closed' = TRUE
    /\ WakeLater(p, waitersValue \cup waitersClosed \cup waitersConsumer)
    /\ waitersValue' = {} /\ waitersClosed' = {} /\ waitersConsumer' = {}

(* A Mut may modify the value and then close, in one critical section.      *)
Close(p, v) ==
    /\ pc[p] = "idle" /\ ~closed
    /\ value' = v
    /\ CloseAll(p)
    /\ UNCHANGED <<counts, handles, want, result>>

-----------------------------------------------------------------------------
(* Producer handles.                                                        *)

(* The clone moves into another task.                                       *)
CloneProducer(p, q) ==
    /\ pc[p] = "idle" /\ pc[q] = "idle"
    /\ p \in prod /\ q \notin prod
    /\ producers' = producers + 1
    /\ prod' = prod \cup {q}
    /\ UNCHANGED <<state, lists, consumers, cons, tasks>>

(* Mutant: the last handle takes itself for one of several.                 *)
DropProducerOffByOne(p) ==
    /\ pc[p] = "idle" /\ p \in prod
    /\ producers' = producers - 1
    /\ prod' = prod \ {p}
    /\ Goto(p, IF producers > 0 THEN "idle" ELSE "dropping")
    /\ UNCHANGED <<state, lists, consumers, cons, want, result, batch>>

(* Drop counts the handle out first; only then may it take the mutex.       *)
DropProducer(p) ==
    /\ pc[p] = "idle" /\ p \in prod
    /\ producers' = producers - 1
    /\ prod' = prod \ {p}
    /\ Goto(p, IF producers > 1 THEN "idle" ELSE "dropping")
    /\ UNCHANGED <<state, lists, consumers, cons, want, result, batch>>

DropClose(p) ==
    /\ pc[p] = "dropping"
    /\ \/ /\ closed
          /\ Goto(p, "idle")
          /\ UNCHANGED <<closed, lists, batch>>
       \/ /\ ~closed
          /\ CloseAll(p)
    /\ UNCHANGED <<value, counts, handles, want, result>>

(* Weak::produce and Consumer::produce count the new handle in first.       *)
Produce(p) ==
    /\ pc[p] = "idle" /\ p \notin prod
    /\ producers' = producers + 1
    /\ Goto(p, "upgrade")
    /\ UNCHANGED <<state, lists, consumers, handles, want, result, batch>>

(* Mutant: an upgrade that fails leaves its count behind.                   *)
ProduceCheckLeaking(p) ==
    /\ pc[p] = "upgrade"
    /\ prod' = IF closed THEN prod ELSE prod \cup {p}
    /\ Goto(p, "idle")
    /\ UNCHANGED <<state, lists, counts, cons, want, result, batch>>

ProduceCheck(p) ==
    /\ pc[p] = "upgrade"
    /\ \/ closed /\ producers' = producers - 1 /\ prod' = prod
       \/ ~closed /\ producers' = producers /\ prod' = prod \cup {p}
    /\ Goto(p, "idle")
    /\ UNCHANGED <<state, lists, consumers, cons, want, result, batch>>

-----------------------------------------------------------------------------
(* Consumer handles.  The first one in and the last one out drain           *)
(* waiters_consumer, in a critical section of its own.                      *)

Consume(p) ==
    /\ pc[p] = "idle" /\ p \notin cons
    /\ consumers' = consumers + 1
    /\ cons' = cons \cup {p}
    /\ Goto(p, IF consumers = 0 THEN "take" ELSE "idle")
    /\ UNCHANGED <<state, lists, producers, prod, want, result, batch>>

CloneConsumer(p, q) ==
    /\ pc[p] = "idle" /\ pc[q] = "idle"
    /\ p \in cons /\ q \notin cons
    /\ consumers' = consumers + 1
    /\ cons' = cons \cup {q}
    /\ UNCHANGED <<state, lists, producers, prod, tasks>>

DropConsumer(p) ==
    /\ pc[p] = "idle" /\ p \in cons
    /\ consumers' = consumers - 1
    /\ cons' = cons \ {p}
    /\ Goto(p, IF consumers > 1 THEN "idle" ELSE "take")
    /\ UNCHANGED <<state, lists, producers, prod, want, result, batch>>

TakeConsumerWaiters(p) ==
    /\ pc[p] = "take"
    /\ WakeLater(p, waitersConsumer)
    /\ waitersConsumer' = {}
    /\ UNCHANGED <<state, waitersValue, waitersClosed, counts, handles, want, result>>

-----------------------------------------------------------------------------
(* Waiting.  A future is polled when it is first awaited, when its waker    *)
(* has fired, and whenever its task happens to run (a select! sibling).     *)

(* WaiterFn::poll and Pending::poll install a fresh Waiter, so the entry of *)
(* the previous one is dead; a wait that ends drops its Waiter as well.     *)
Forgotten(p) == [q \in Procs |-> batch[q] \ {p}]

Resolve(p, r) ==
    /\ Goto(p, "idle")
    /\ want' = [want EXCEPT ![p] = NoWant]
    /\ result' = [result EXCEPT ![p] = r]
    /\ waitersValue' = waitersValue \ {p}
    /\ waitersClosed' = waitersClosed \ {p}
    /\ waitersConsumer' = waitersConsumer \ {p}
    /\ batch' = Forgotten(p)

(* Poll::Pending: the fresh Waiter registers in the list of its kind.       *)
Register(p, ws, kinds) == IF want[p].kind \in kinds THEN ws \cup {p} ELSE ws \ {p}

Pend(p) ==
    /\ Goto(p, "asleep")
    /\ waitersValue' = Register(p, waitersValue, {"value"})
    /\ waitersClosed' = Register(p, waitersClosed, {"closed"})
    /\ waitersConsumer' = Register(p, waitersConsumer, {"used", "unused"})
    /\ batch' = Forgotten(p)
    /\ UNCHANGED <<want, result>>

StartWait(p, w) ==
    /\ pc[p] = "idle"
    /\ w.via = "producer" => p \in prod
    /\ w.via = "consumer" => p \in cons
    /\ Goto(p, "poll")
    /\ want' = [want EXCEPT ![p] = w]
    /\ result' = [result EXCEPT ![p] = "none"]
    /\ UNCHANGED <<state, lists, counts, handles, batch>>

Polled(p, kinds, via) ==
    /\ pc[p] \in {"poll", "asleep"}
    /\ want[p].kind \in kinds
    /\ want[p].via \in via

(* Mutant: the closed flag hides a final value that is the one waited for.  *)
PollConsumerClosedFirst(p) ==
    /\ Polled(p, {"value"}, {"consumer"})
    /\ \/ closed /\ Resolve(p, "closed")
       \/ ~closed /\ Satisfied(want[p]) /\ Resolve(p, "ok")
       \/ ~closed /\ ~Satisfied(want[p]) /\ Pend(p)
    /\ UNCHANGED <<state, counts, handles>>

(* Consumer::poll looks at the value before it looks at the closed flag.    *)
PollConsumerValue(p) ==
    /\ Polled(p, {"value"}, {"consumer"})
    /\ \/ Satisfied(want[p]) /\ Resolve(p, "ok")
       \/ ~Satisfied(want[p]) /\ closed /\ Resolve(p, "closed")
       \/ ~Satisfied(want[p]) /\ ~closed /\ Pend(p)
    /\ UNCHANGED <<state, counts, handles>>

(* Mutant: it registers without looking at the closed flag.                 *)
PollProducerUnchecked(p) ==
    /\ Polled(p, {"value"}, {"producer"})
    /\ \/ Satisfied(want[p]) /\ Resolve(p, "ok")
       \/ ~Satisfied(want[p]) /\ Pend(p)
    /\ UNCHANGED <<state, counts, handles>>

(* Producer::poll looks at the closed flag first.                           *)
PollProducerValue(p) ==
    /\ Polled(p, {"value"}, {"producer"})
    /\ \/ closed /\ Resolve(p, "closed")
       \/ ~closed /\ Satisfied(want[p]) /\ Resolve(p, "ok")
       \/ ~closed /\ ~Satisfied(want[p]) /\ Pend(p)
    /\ UNCHANGED <<state, counts, handles>>

(* The Mut a satisfied Producer::poll hands back still holds the mutex, so  *)
(* the caller's modification is part of the same critical section.          *)
PollProducerModify(p, v) ==
    /\ Polled(p, {"value"}, {"producer"})
    /\ ~closed /\ Satisfied(want[p])
    /\ value' = v
    /\ Goto(p, "waking")
    /\ want' = [want EXCEPT ![p] = NoWant]
    /\ result' = [result EXCEPT ![p] = "ok"]
    /\ waitersValue' = {}
    /\ batch' = [Forgotten(p) EXCEPT ![p] = waitersValue \ {p}]
    /\ UNCHANGED <<closed, waitersClosed, waitersConsumer, counts, handles>>

PollClosed(p) ==
    /\ Polled(p, {"closed"}, {"producer", "consumer"})
    /\ \/ closed /\ Resolve(p, "ok")
       \/ ~closed /\ Pend(p)
    /\ UNCHANGED <<state, counts, handles>>

(* Producer::poll_used and poll_unused.  The count is read twice inside one *)
(* critical section.  Only the second read decides between Ready and        *)
(* Pending, and an early Ready is the same as a poll made at that moment.   *)
PollCount(p) ==
    /\ Polled(p, {"used", "unused"}, {"producer"})
    /\ \/ closed /\ Resolve(p, "closed")
       \/ ~closed /\ Satisfied(want[p]) /\ Resolve(p, "ok")
       \/ ~closed /\ ~Satisfied(want[p]) /\ Pend(p)
    /\ UNCHANGED <<state, counts, handles>>

(* Weak::poll_used and poll_unused first read the count without the mutex.  *)
PollCountWeak(p) ==
    /\ Polled(p, {"used", "unused"}, {"weak"})
    /\ \/ Satisfied(want[p]) /\ Resolve(p, "ok")
       \/ /\ ~Satisfied(want[p])
          /\ Goto(p, "weakpoll")
          /\ waitersConsumer' = waitersConsumer \ {p}
          /\ batch' = Forgotten(p)
          /\ UNCHANGED <<waitersValue, waitersClosed, want, result>>
    /\ UNCHANGED <<state, counts, handles>>

(* Mutant: no second look at the count after registering.                   *)
PollCountWeakOnce(p) ==
    /\ pc[p] = "weakpoll"
    /\ \/ closed /\ Resolve(p, "closed")
       \/ ~closed /\ Pend(p)
    /\ UNCHANGED <<state, counts, handles>>

(* Under the mutex they look at the closed flag, register and read again.   *)
PollCountWeakLocked(p) ==
    /\ pc[p] = "weakpoll"
    /\ \/ closed /\ Resolve(p, "closed")
       \/ ~closed /\ Satisfied(want[p]) /\ Resolve(p, "ok")
       \/ ~closed /\ ~Satisfied(want[p]) /\ Pend(p)
    /\ UNCHANGED <<state, counts, handles>>

(* The future is dropped between two polls.                                 *)
Cancel(p) ==
    /\ pc[p] \in {"poll", "asleep"}
    /\ Resolve(p, "cancelled")
    /\ UNCHANGED <<state, counts, handles>>

-----------------------------------------------------------------------------
(* WaiterList::wake, one entry at a time and outside the mutex.             *)

Wake(p, q) ==
    /\ pc[p] = "waking" /\ q \in batch[p]
    /\ batch' = [batch EXCEPT ![p] = @ \ {q}]
    /\ Goto(q, "poll")
    /\ UNCHANGED <<state, lists, counts, handles, want, result>>

WakeDone(p) ==
    /\ pc[p] = "waking" /\ batch[p] = {}
    /\ Goto(p, "idle")
    /\ UNCHANGED <<state, lists, counts, handles, want, result, batch>>

-----------------------------------------------------------------------------
Poll(p) ==
    \/ PollConsumerValue(p)
    \/ PollProducerValue(p)
    \/ \E v \in Values : PollProducerModify(p, v)
    \/ PollClosed(p)
    \/ PollCount(p)
    \/ PollCountWeak(p)

(* What a process does of its own accord.                                   *)
Begin(p) ==
    \/ \E v \in Values : Write(p, v) \/ Close(p, v)
    \/ \E q \in Procs : CloneProducer(p, q)
    \/ DropProducer(p)
    \/ Produce(p)
    \/ Consume(p)
    \/ \E q \in Procs : CloneConsumer(p, q)
    \/ DropConsumer(p)
    \/ \E w \in Wants : StartWait(p, w)

(* What it does to finish a call that it has begun.                         *)
Finish(p) ==
    \/ DropClose(p)
    \/ ProduceCheck(p)
    \/ TakeConsumerWaiters(p)
    \/ PollCountWeakLocked(p)
    \/ \E q \in Procs : Wake(p, q)
    \/ WakeDone(p)

Next == \E p \in Procs : Begin(p) \/ Poll(p) \/ Cancel(p) \/ Finish(p)

(* A call that has begun returns, and an executor polls a task it has been  *)
(* told to wake.  No task is ever obliged to begin anything, and a sleeping *)
(* task need not be polled before its waker fires.                          *)
Fairness ==
    \A p \in Procs : WF_vars(Finish(p)) /\ WF_vars(pc[p] = "poll" /\ Poll(p))

Spec == Init /\ [][Next]_vars

FairSpec == Spec /\ Fairness

-----------------------------------------------------------------------------
Labels == {"idle", "dropping", "upgrade", "take", "waking", "poll", "weakpoll", "asleep"}

(* Every variable stays in its range; a wait is recorded exactly while one  *)
(* is under way.                                                            *)
TypeOK ==
    /\ value \in Values
    /\ closed \in BOOLEAN
    /\ waitersValue \subseteq Procs
    /\ waitersClosed \subseteq Procs
    /\ waitersConsumer \subseteq Procs
    /\ producers \in Nat
    /\ consumers \in Nat
    /\ prod \subseteq Procs
    /\ cons \subseteq Procs
    /\ pc \in [Procs -> Labels]
    /\ want \in [Procs -> Wants \cup {NoWant}]
    /\ result \in [Procs -> {"none", "ok", "closed", "cancelled"}]
    /\ batch \in [Procs -> SUBSET Procs]

(* The atomic counters, updated outside the mutex, always equal the number  *)
(* of handles they count, an upgrade in progress included.                  *)
CountsExact ==
    /\ producers = Cardinality(prod \cup {p \in Procs : pc[p] = "upgrade"})
    /\ consumers = Cardinality(cons)

(* The entry of a sleeping waiter is in the list of its kind, or has been   *)
(* drained by a call that has not woken it yet: no sleeper is forgotten by  *)
(* register, take or wake.                                                  *)
ListOf(w) ==
    CASE w.kind = "value" -> waitersValue
      [] w.kind = "closed" -> waitersClosed
      [] w.kind \in {"used", "unused"} -> waitersConsumer

SleepersListed ==
    \A p \in Procs : pc[p] = "asleep" =>
        p \in ListOf(want[p]) \/ \E q \in Procs : p \in batch[q]

(* No lost wakeup: a waiter sleeps through the event it waits for only      *)
(* while a call that will wake it is under way: the waker has been drained  *)
(* and not yet called, or the consumer count has just changed and its       *)
(* author has still to drain the list.                                      *)
NoLostWakeup ==
    \A p \in Procs : pc[p] = "asleep" /\ (closed \/ Satisfied(want[p])) =>
        \/ \E q \in Procs : p \in batch[q]
        \/ /\ ~closed /\ want[p].kind \in {"used", "unused"}
           /\ \E q \in Procs : pc[q] = "take"

(* The channel auto-closes: with every Producer gone and no drop or upgrade *)
(* in flight, it is closed.                                                 *)
AutoClose ==
    (prod = {} /\ \A p \in Procs : pc[p] \notin {"dropping", "upgrade"}) => closed

(* Once closed the channel stays closed, its value is final, and no waiter  *)
(* can register any more.                                                   *)
CloseIsFinal ==
    [][closed => closed' /\ value' = value /\ lists' = lists]_vars

(* Every wait ends once the channel is closed.                              *)
CloseEndsEveryWait ==
    \A p \in Procs : (closed /\ want[p] # NoWant) ~> (want[p] = NoWant)

(* The channel keeps every promise of KioChannel: wakers, lists, counters   *)
(* and drops never give a wait an answer that is wrong at that moment, and  *)
(* never leave one unanswered whose answer stays due.                       *)
Channel == INSTANCE KioChannel WITH
    value <- value, closed <- closed, consumers <- consumers, want <- want, result <- result
ImplementsChannel == Channel!Spec

=============================================================================

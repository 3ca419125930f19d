----------------------------- MODULE KioChannel -----------------------------
(***************************************************************************)
(* What a kio channel promises the tasks that wait on it, with no mutex,   *)
(* no waker and no list: a wait ends with an answer that is right at that  *)
(* moment, and a wait whose answer stays right does end.                   *)
(***************************************************************************)
EXTENDS Naturals

CONSTANTS Procs, Values, NoGoal

VARIABLES
    value,      \* the shared value
    closed,     \* whether the channel is closed
    consumers,  \* the number of Consumer handles
    want,       \* the wait each task is in
    result      \* how its last wait ended

vars == <<value, closed, consumers, want, result>>

NoWant == [kind |-> "none", via |-> "none", goal |-> NoGoal]

Wants == [kind : {"value"}, via : {"producer", "consumer"}, goal : Values]
           \cup [kind : {"closed"}, via : {"producer", "consumer"}, goal : {NoGoal}]
           \cup [kind : {"used", "unused"}, via : {"producer", "weak"}, goal : {NoGoal}]

Met(w) ==
    CASE w.kind = "value" -> value = w.goal
      [] w.kind = "closed" -> closed
      [] w.kind = "used" -> consumers > 0
      [] w.kind = "unused" -> consumers = 0
      [] OTHER -> FALSE

Init ==
    /\ value \in Values /\ closed = FALSE /\ consumers = 0
    /\ want = [p \in Procs |-> NoWant]
    /\ result = [p \in Procs |-> "none"]

-----------------------------------------------------------------------------
Modify == ~closed /\ value' \in Values /\ UNCHANGED <<closed, consumers, want, result>>

Shut == ~closed /\ closed' /\ value' \in Values /\ UNCHANGED <<consumers, want, result>>

Count ==
    /\ consumers' \in Nat /\ consumers' \in {consumers + 1, consumers - 1}
    /\ UNCHANGED <<value, closed, want, result>>

Await(p, w) ==
    /\ want[p] = NoWant
    /\ want' = [want EXCEPT ![p] = w]
    /\ result' = [result EXCEPT ![p] = "none"]
    /\ UNCHANGED <<value, closed, consumers>>

End(p, r) ==
    /\ want[p] # NoWant
    /\ want' = [want EXCEPT ![p] = NoWant]
    /\ result' = [result EXCEPT ![p] = r]
    /\ UNCHANGED <<closed, consumers>>

(* Success: what was waited for holds.  A producer is told of success only  *)
(* while the channel is open, and may modify the value in the same breath.  *)
Ready(p) ==
    /\ Met(want[p])
    /\ want[p].via = "producer" /\ want[p].kind # "closed" => ~closed
    /\ End(p, "ok")
    /\ \/ value' = value
       \/ want[p].via = "producer" /\ want[p].kind = "value" /\ value' \in Values

(* Failure: the channel closed first.  A consumer is told so only if the    *)
(* final value is not the one it waits for.                                 *)
Ended(p) ==
    /\ closed /\ want[p].kind # "closed"
    /\ want[p].via = "consumer" => ~Met(want[p])
    /\ End(p, "closed")
    /\ value' = value

GiveUp(p) == End(p, "cancelled") /\ value' = value

Next ==
    \/ Modify \/ Shut \/ Count
    \/ \E p \in Procs : (\E w \in Wants : Await(p, w)) \/ Ready(p) \/ Ended(p) \/ GiveUp(p)

(* A wait whose end stays due does end.                                     *)
Spec == Init /\ [][Next]_vars /\ \A p \in Procs : WF_vars(Ready(p) \/ Ended(p))

Safety == Init /\ [][Next]_vars

=============================================================================

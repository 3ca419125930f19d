------------------------------- MODULE Origin -------------------------------
(***************************************************************************)
(* The announce tree of a relay (model/origin.rs): broadcasts published    *)
(* under a path, the choice of the active route among several, and the     *)
(* consumers that are told which broadcast is active.                      *)
(*                                                                         *)
(* The tree has the root and one level of named nodes; a name in Dirs is   *)
(* a path.  Each node is behind a lock of its own: an action is one        *)
(* critical section of the node it works on.  A handle that starts at the  *)
(* root also holds the root's lock on the way down.  A scoped handle       *)
(* keeps a reference to its node and locks only that.                      *)
(***************************************************************************)
EXTENDS Naturals, Sequences, Functions, Coalesce

CONSTANTS
    Dirs,           \* paths, as numbers in lexicographic order
    Broadcasts,
    Consumers,
    Nodes,          \* node identities: the bound on nodes alive at once
    Root,           \* the root node
    Hops,           \* the length of each broadcast's hop chain
    Hash,           \* the hash of its path and hop chain
    Looped,         \* the broadcasts whose hop chain contains this origin
    Layouts         \* which handles there are

ASSUME DirsAssumption == Dirs \subseteq Nat
ASSUME RouteAssumption == Hops \in [Broadcasts -> Nat] /\ Hash \in [Broadcasts -> Nat]
ASSUME NoneAssumption == None \notin Broadcasts \cup Nodes \cup Consumers \cup {Root}
ASSUME RootAssumption == Root \notin Nodes \cup Dirs

(* A layout says through which handles broadcasts are published, which      *)
(* consumers there are and where each starts, which broadcasts there are    *)
(* and how often each may be published.                                     *)
ASSUME LayoutsAssumption == \A l \in Layouts :
    /\ l.producers \subseteq {"root", "scoped"}
    /\ DOMAIN l.scope \subseteq Consumers
    /\ \A c \in DOMAIN l.scope : l.scope[c] \in Dirs \cup {Root}
    /\ l.broadcasts \subseteq Broadcasts
    /\ l.copies \in Nat

VARIABLES
    layout,
    nested,     \* the root's OriginNode::nested
    active,     \* OriginBroadcast::active of each node
    backup,     \* OriginBroadcast::backup of each node
    listeners,  \* NotifyNode::consumers of each node, the root included
    handle,     \* the node that the scoped producer of each path refers to
    phase,      \* the life of each consumer
    home,       \* the node it refers to
    scan,       \* the root consumer being set up, and what it has yet to visit
    pending,    \* OriginConsumerState::pending
    seen,       \* what each consumer has been told of each path
    closed,     \* the broadcasts whose producers are gone
    uses,       \* how often each has been published
    tasks,      \* the cleanup tasks publish_broadcast has spawned
    panicked    \* whether the assertion in remove has failed

tree == <<nested, active, backup, listeners, handle>>
views == <<phase, home, scan, pending, seen>>
jobs == <<closed, uses, tasks>>
vars == <<layout, nested, active, backup, listeners, handle, phase, home, scan,
          pending, seen, closed, uses, tasks, panicked>>

Handles == {"root", "scoped"}
NoScan == [consumer |-> None, left |-> {}]

-----------------------------------------------------------------------------
(* route_key: shorter hop chains first, ties broken by the hash.            *)
KeyLess(a, b) == Hops[a] < Hops[b] \/ (Hops[a] = Hops[b] /\ Hash[a] < Hash[b])

Init ==
    /\ layout \in Layouts
    /\ nested = [d \in Dirs |-> None]
    /\ active = [n \in Nodes |-> None]
    /\ backup = [n \in Nodes |-> <<>>]
    /\ listeners = [n \in Nodes \cup {Root} |-> {}]
    /\ handle = [d \in Dirs |-> None]
    /\ phase = [c \in Consumers |-> "new"]
    /\ home = [c \in Consumers |-> None]
    /\ scan = NoScan
    /\ pending = [c \in Consumers |-> [d \in Dirs |-> Nothing]]
    /\ seen = [c \in Consumers |-> [d \in Dirs |-> None]]
    /\ closed = {}
    /\ uses = [b \in Broadcasts |-> 0]
    /\ tasks = [job \in Broadcasts \X Dirs \X Handles |-> 0]
    /\ panicked = FALSE

(* The root's lock is held for as long as a root consumer is set up.        *)
RootFree == scan = NoScan

(* A node nobody refers to any more has been freed.                         *)
Free(n) ==
    /\ \A d \in Dirs : nested[d] # n /\ handle[d] # n
    /\ \A c \in Consumers : home[c] # n

(* OriginNode::entry: n is the child of the root for d, made if need be.    *)
Entry(d, n) == IF nested[d] = None THEN Free(n) ELSE n = nested[d]

(* A handle reaches its node: from the root, or directly.                   *)
Reach(d, h, n) ==
    \/ h = "root" /\ RootFree /\ Entry(d, n)
    \/ h = "scoped" /\ handle[d] = n

(* NotifyNode: the consumers of a node and of its parent are told.          *)
Told(n) == listeners[n] \cup listeners[Root]

Tell(n, d, update) ==
    pending' = [c \in Consumers |->
        IF c \in Told(n) THEN [pending[c] EXCEPT ![d] = update[c]] ELSE pending[c]]

TellAnnounce(n, d, b) ==
    Tell(n, d, [c \in Consumers |-> ApplyAnnounce(pending[c][d], b)])

TellUnannounce(n, d) ==
    Tell(n, d, [c \in Consumers |-> ApplyUnannounce(pending[c][d])])

TellReannounce(n, d, b) ==
    Tell(n, d, [c \in Consumers |-> ApplyAnnounce(ApplyUnannounce(pending[c][d]), b)])

-----------------------------------------------------------------------------
(* Publishing.                                                              *)

(* OriginProducer::scope and with_root: find or make the node, keep it.     *)
ScopeProducer(d) ==
    /\ "scoped" \in layout.producers /\ handle[d] = None
    /\ RootFree
    /\ \E n \in Nodes :
        /\ Entry(d, n)
        /\ nested' = [nested EXCEPT ![d] = n]
        /\ handle' = [handle EXCEPT ![d] = n]
    /\ UNCHANGED <<layout, active, backup, listeners, views, jobs, panicked>>

(* Mutant: a better route takes over and the old one is forgotten.          *)
PublishAtForgetful(n, d, b) ==
    \/ /\ active[n] = None
       /\ active' = [active EXCEPT ![n] = b]
       /\ TellAnnounce(n, d, b)
       /\ UNCHANGED backup
    \/ /\ active[n] # None /\ active[n] # b /\ KeyLess(b, active[n])
       /\ active' = [active EXCEPT ![n] = b]
       /\ TellReannounce(n, d, b)
       /\ UNCHANGED backup
    \/ /\ active[n] # None /\ active[n] # b /\ ~KeyLess(b, active[n])
       /\ backup' = [backup EXCEPT ![n] = Append(@, b)]
       /\ UNCHANGED <<active, pending>>

(* OriginNode::publish at the leaf.                                         *)
PublishAt(n, d, b) ==
    \/ /\ active[n] = None
       /\ active' = [active EXCEPT ![n] = b]
       /\ TellAnnounce(n, d, b)
       /\ UNCHANGED backup
    \/ /\ active[n] # None
       /\ b \in {active[n]} \cup Range(backup[n])
       /\ UNCHANGED <<active, backup, pending>>
    \/ /\ active[n] # None
       /\ b \notin {active[n]} \cup Range(backup[n])
       /\ IF KeyLess(b, active[n])
          THEN /\ active' = [active EXCEPT ![n] = b]
               /\ backup' = [backup EXCEPT ![n] = Append(@, active[n])]
               /\ TellReannounce(n, d, b)
          ELSE /\ backup' = [backup EXCEPT ![n] = Append(@, b)]
               /\ UNCHANGED <<active, pending>>

(* OriginProducer::publish_broadcast: publish, and spawn the task that      *)
(* takes the broadcast out again when it closes.                            *)
Publish(b, d, h) ==
    /\ b \in layout.broadcasts /\ h \in layout.producers
    /\ uses[b] < layout.copies
    /\ b \notin Looped
    /\ \E n \in Nodes :
        /\ Reach(d, h, n)
        /\ nested' = IF h = "root" THEN [nested EXCEPT ![d] = n] ELSE nested
        /\ PublishAt(n, d, b)
    /\ uses' = [uses EXCEPT ![b] = @ + 1]
    /\ tasks' = [tasks EXCEPT ![<<b, d, h>>] = @ + 1]
    /\ UNCHANGED <<layout, listeners, handle, phase, home, scan, seen, closed, panicked>>

(* The last BroadcastProducer is dropped or aborts.                         *)
Close(b) ==
    /\ b \in layout.broadcasts \ closed
    /\ closed' = closed \cup {b}
    /\ UNCHANGED <<layout, tree, views, uses, tasks, panicked>>

-----------------------------------------------------------------------------
(* Cleaning up.                                                             *)

(* Mutant: the oldest backup is promoted, whatever its route.               *)
BestOldest(s) == 1

(* The first backup with the lowest key.                                    *)
Best(s) ==
    CHOOSE i \in DOMAIN s : \A j \in DOMAIN s : ~KeyLess(s[j], s[i]) /\ (j < i => KeyLess(s[i], s[j]))

(* The position of a queued broadcast, and the removal of what is there.    *)
Position(s, b) == CHOOSE i \in DOMAIN s : s[i] = b /\ \A j \in 1..(i - 1) : s[j] # b

RemoveAt(s, i) == SubSeq(s, 1, i - 1) \o SubSeq(s, i + 1, Len(s))

(* Mutant: a backup that closes stays in the queue.                         *)
RemoveAtLazy(n, d, b) ==
    \/ /\ active[n] # b
       /\ UNCHANGED <<active, backup, pending, panicked>>
    \/ /\ active[n] = b /\ backup[n] # <<>>
       /\ active' = [active EXCEPT ![n] = backup[n][Best(backup[n])]]
       /\ backup' = [backup EXCEPT ![n] = RemoveAt(@, Best(@))]
       /\ TellReannounce(n, d, active'[n])
       /\ UNCHANGED panicked
    \/ /\ active[n] = b /\ backup[n] = <<>>
       /\ active' = [active EXCEPT ![n] = None]
       /\ TellUnannounce(n, d)
       /\ UNCHANGED <<backup, panicked>>

(* Mutant: the last broadcast of a path goes without a word.                *)
RemoveAtSilent(n, d, b) ==
    \/ /\ active[n] = None
       /\ UNCHANGED <<active, backup, pending, panicked>>
    \/ /\ active[n] # None /\ b \in Range(backup[n])
       /\ backup' = [backup EXCEPT ![n] = RemoveAt(@, Position(@, b))]
       /\ UNCHANGED <<active, pending, panicked>>
    \/ /\ active[n] = b /\ b \notin Range(backup[n]) /\ backup[n] # <<>>
       /\ active' = [active EXCEPT ![n] = backup[n][Best(backup[n])]]
       /\ backup' = [backup EXCEPT ![n] = RemoveAt(@, Best(@))]
       /\ TellReannounce(n, d, active'[n])
       /\ UNCHANGED panicked
    \/ /\ active[n] = b /\ b \notin Range(backup[n]) /\ backup[n] = <<>>
       /\ active' = [active EXCEPT ![n] = None]
       /\ UNCHANGED <<backup, pending, panicked>>

(* OriginNode::remove at the leaf.  A broadcast that is neither queued nor  *)
(* active trips the assertion, and the task dies there.                     *)
RemoveAtLeaf(n, d, b) ==
    \/ /\ active[n] = None
       /\ UNCHANGED <<active, backup, pending, panicked>>
    \/ /\ active[n] # None /\ b \in Range(backup[n])
       /\ backup' = [backup EXCEPT ![n] = RemoveAt(@, Position(@, b))]
       /\ UNCHANGED <<active, pending, panicked>>
    \/ /\ active[n] = b /\ b \notin Range(backup[n]) /\ backup[n] # <<>>
       /\ active' = [active EXCEPT ![n] = backup[n][Best(backup[n])]]
       /\ backup' = [backup EXCEPT ![n] = RemoveAt(@, Best(@))]
       /\ TellReannounce(n, d, active'[n])
       /\ UNCHANGED panicked
    \/ /\ active[n] = b /\ b \notin Range(backup[n]) /\ backup[n] = <<>>
       /\ active' = [active EXCEPT ![n] = None]
       /\ TellUnannounce(n, d)
       /\ UNCHANGED <<backup, panicked>>
    \/ /\ active[n] \notin {None, b} /\ b \notin Range(backup[n])
       /\ panicked' = TRUE
       /\ UNCHANGED <<active, backup, pending>>

(* The cleanup task, once its broadcast has closed.  On the way back up the *)
(* root drops a child that is empty: no broadcast and no consumer (the      *)
(* children of this tree have no children).                                 *)
Cleanup(b, d, h) ==
    /\ tasks[<<b, d, h>>] > 0 /\ b \in closed /\ ~panicked
    /\ tasks' = [tasks EXCEPT ![<<b, d, h>>] = @ - 1]
    /\ \/ /\ h = "root" /\ RootFree /\ nested[d] = None
          /\ UNCHANGED <<nested, active, backup, pending, panicked>>
       \/ /\ h = "root" /\ RootFree /\ nested[d] # None
          /\ RemoveAtLeaf(nested[d], d, b)
          /\ nested' = IF active'[nested[d]] = None /\ listeners[nested[d]] = {}
                       THEN [nested EXCEPT ![d] = None] ELSE nested
       \/ /\ h = "scoped"
          /\ RemoveAtLeaf(handle[d], d, b)
          /\ UNCHANGED nested
    /\ UNCHANGED <<layout, listeners, handle, phase, home, scan, seen, closed, uses>>

-----------------------------------------------------------------------------
(* Consuming.                                                               *)

(* OriginConsumer::scope finds or makes the node under the root's lock ...  *)
Select(c) ==
    /\ c \in DOMAIN layout.scope /\ phase[c] = "new" /\ layout.scope[c] # Root
    /\ RootFree
    /\ \E n \in Nodes :
        /\ Entry(layout.scope[c], n)
        /\ nested' = [nested EXCEPT ![layout.scope[c]] = n]
        /\ home' = [home EXCEPT ![c] = n]
    /\ phase' = [phase EXCEPT ![c] = "selected"]
    /\ UNCHANGED <<layout, active, backup, listeners, handle, scan, pending, seen, jobs, panicked>>

(* ... and OriginConsumer::new registers there, under the node's own.       *)
Join(c) ==
    /\ phase[c] = "selected"
    /\ pending' = IF active[home[c]] = None THEN pending
                  ELSE [pending EXCEPT ![c][layout.scope[c]] = ApplyAnnounce(@, active[home[c]])]
    /\ listeners' = [listeners EXCEPT ![home[c]] = @ \cup {c}]
    /\ phase' = [phase EXCEPT ![c] = "live"]
    /\ UNCHANGED <<layout, nested, active, backup, handle, home, scan, seen, jobs, panicked>>

(* At the root, consume_initial visits the children one after the other,    *)
(* each under its own lock, and the consumer is registered after the last.  *)
JoinRoot(c) ==
    /\ c \in DOMAIN layout.scope /\ phase[c] = "new" /\ layout.scope[c] = Root
    /\ RootFree
    /\ scan' = [consumer |-> c, left |-> {d \in Dirs : nested[d] # None}]
    /\ home' = [home EXCEPT ![c] = Root]
    /\ phase' = [phase EXCEPT ![c] = "joining"]
    /\ UNCHANGED <<layout, tree, pending, seen, jobs, panicked>>

Visit(d) ==
    /\ d \in scan.left
    /\ scan' = [scan EXCEPT !.left = @ \ {d}]
    /\ pending' = IF active[nested[d]] = None THEN pending
                  ELSE [pending EXCEPT ![scan.consumer][d] = ApplyAnnounce(@, active[nested[d]])]
    /\ UNCHANGED <<layout, tree, phase, home, seen, jobs, panicked>>

Joined(c) ==
    /\ scan = [consumer |-> c, left |-> {}]
    /\ scan' = NoScan
    /\ listeners' = [listeners EXCEPT ![Root] = @ \cup {c}]
    /\ phase' = [phase EXCEPT ![c] = "live"]
    /\ UNCHANGED <<layout, nested, active, backup, handle, home, pending, seen, jobs, panicked>>

(* OriginConsumerState::take: the first path in order.                      *)
Take(c) ==
    /\ phase[c] = "live"
    /\ \E d \in Dirs :
        /\ pending[c][d] # Nothing
        /\ \A e \in Dirs : e < d => pending[c][e] = Nothing
        /\ seen' = [seen EXCEPT ![c][d] = Delivered(pending[c][d])]
        /\ pending' = [pending EXCEPT ![c][d] = Rest(@)]
    /\ UNCHANGED <<layout, tree, phase, home, scan, jobs, panicked>>

(* Drop for OriginConsumer.                                                 *)
Leave(c) ==
    /\ phase[c] = "live"
    /\ home[c] = Root => RootFree
    /\ listeners' = [listeners EXCEPT ![home[c]] = @ \ {c}]
    /\ home' = [home EXCEPT ![c] = None]
    /\ phase' = [phase EXCEPT ![c] = "gone"]
    /\ pending' = [pending EXCEPT ![c] = [d \in Dirs |-> Nothing]]
    /\ seen' = [seen EXCEPT ![c] = [d \in Dirs |-> None]]
    /\ UNCHANGED <<layout, nested, active, backup, handle, scan, jobs, panicked>>

-----------------------------------------------------------------------------
Next ==
    \/ \E d \in Dirs : ScopeProducer(d) \/ Visit(d)
    \/ \E b \in Broadcasts : Close(b)
    \/ \E b \in Broadcasts, d \in Dirs, h \in Handles : Publish(b, d, h) \/ Cleanup(b, d, h)
    \/ \E c \in Consumers : Select(c) \/ Join(c) \/ JoinRoot(c) \/ Joined(c) \/ Take(c) \/ Leave(c)

(* Setting up a consumer does not stop half-way, a cleanup task runs once   *)
(* its broadcast has closed, and a consumer's owner keeps taking updates.   *)
Fairness ==
    /\ \A d \in Dirs : WF_vars(Visit(d))
    /\ \A c \in Consumers : WF_vars(Join(c) \/ Joined(c)) /\ WF_vars(Take(c))
    /\ \A b \in Broadcasts, d \in Dirs, h \in Handles : WF_vars(Cleanup(b, d, h))

Spec == Init /\ [][Next]_vars

FairSpec == Spec /\ Fairness

-----------------------------------------------------------------------------
(* Every variable stays in its range.                                       *)
TypeOK ==
    /\ layout \in Layouts
    /\ nested \in [Dirs -> Nodes \cup {None}]
    /\ active \in [Nodes -> Broadcasts \cup {None}]
    /\ backup \in [Nodes -> Seq(Broadcasts)]
    /\ listeners \in [Nodes \cup {Root} -> SUBSET Consumers]
    /\ handle \in [Dirs -> Nodes \cup {None}]
    /\ phase \in [Consumers -> {"new", "selected", "joining", "live", "gone"}]
    /\ home \in [Consumers -> Nodes \cup {Root, None}]
    /\ scan.consumer \in Consumers \cup {None} /\ scan.left \subseteq Dirs
    /\ pending \in [Consumers -> [Dirs -> PendingUpdate(Broadcasts)]]
    /\ seen \in [Consumers -> [Dirs -> Broadcasts \cup {None}]]
    /\ closed \subseteq Broadcasts
    /\ uses \in [Broadcasts -> Nat]
    /\ tasks \in [Broadcasts \X Dirs \X Handles -> Nat]
    /\ panicked \in BOOLEAN

(* What a lookup from the root finds: OriginConsumer::get_broadcast.        *)
Lookup(d) == IF nested[d] = None THEN None ELSE active[nested[d]]

Queued(d) == IF nested[d] = None THEN {} ELSE Range(backup[nested[d]])

(* The active route of a path is one no queued route beats, through every   *)
(* publish, takeover, close and promotion.                                  *)
BestActive ==
    \A d \in Dirs : \A b \in Queued(d) : Lookup(d) # None /\ ~KeyLess(b, Lookup(d))

(* The assertion in remove holds: a broadcast that is not queued is the     *)
(* active one.                                                              *)
NoPanic == ~panicked

(* Announces and unannounces of a path alternate for every consumer: the    *)
(* next update is an announce only if the path is unannounced for it, and   *)
(* an unannounce only if it is announced.                                   *)
Toggles ==
    \A c \in Consumers, d \in Dirs :
        /\ pending[c][d].kind = "announce" => seen[c][d] = None
        /\ pending[c][d].kind \in {"unannounce", "replace"} => seen[c][d] # None

(* A consumer that takes what is queued for it ends up knowing exactly the  *)
(* broadcast a lookup finds: coalescing loses nothing and invents nothing.  *)
CaughtUp ==
    \A c \in Consumers, d \in Dirs :
        phase[c] = "live" /\ layout.scope[c] \in {Root, d} =>
            Settled(pending[c][d], seen[c][d]) = Lookup(d)

(* A broadcast that has closed disappears from every path, also when it was *)
(* queued behind others or promoted after it closed.                        *)
ClosedIsForgotten ==
    \A b \in Broadcasts : b \in closed ~>
        \A d \in Dirs : b \notin {Lookup(d)} \cup Queued(d)

(* A consumer that was told of a broadcast is told otherwise after it has   *)
(* closed: the unannounce or the replacement gets through the coalescing.   *)
ClosedIsUnannounced ==
    \A b \in Broadcasts, c \in Consumers, d \in Dirs :
        (b \in closed /\ seen[c][d] = b) ~> (seen[c][d] # b)

=============================================================================

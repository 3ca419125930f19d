-------------------------- MODULE OriginViewProofs --------------------------
(***************************************************************************)
(* Proofs about the announce tree that need a condition on the layout of   *)
(* handles, on top of TreeInv of OriginProofs.                             *)
(*                                                                         *)
(* JobsOK: a cleanup task finds its broadcast.                             *)
(*                                                                         *)
(* LinksOK and ViewsOK: what is queued for a consumer settles at what a    *)
(* lookup finds.  ViewsOK says for each phase of a consumer's life what it *)
(* has been told and is about to be told of each path.                     *)
(***************************************************************************)
EXTENDS OriginProofs

(* The assertion in remove.                                                 *)

(* No broadcast is published twice, or there is only one.                   *)
Once == layout.copies <= 1
Alone == \A a, b \in layout.broadcasts : a = b

(* The node a cleanup task works on.                                        *)
Within(d, h) == IF h = "root" THEN nested[d] ELSE handle[d]

(* A broadcast that is published at most once has at most one cleanup task, *)
(* and is among the routes of the node where that task will look.           *)
Due(b, d, h) ==
    /\ uses[b] > 0 /\ tasks[<<b, d, h>>] = 1
    /\ Within(d, h) \in Nodes /\ b \in Contents(Within(d, h))
    /\ \A e \in Dirs, g \in Handles : tasks[<<b, e, g>>] > 0 => e = d /\ g = h

JobsOK ==
    Once => \A b \in Broadcasts, d \in Dirs, h \in Handles :
                tasks[<<b, d, h>>] > 0 => Due(b, d, h)

(* Steps that only link nodes leave the tasks' broadcasts in place.         *)
LEMMA LinkJobs ==
    ASSUME TreeInv, JobsOK, UNCHANGED <<layout, active, backup, uses, tasks>>,
           \A d \in Dirs : nested[d] # None => nested'[d] = nested[d],
           \A d \in Dirs : handle[d] # None => handle'[d] = handle[d]
    PROVE  JobsOK'
<1> SUFFICES ASSUME Once, NEW b \in Broadcasts, NEW d \in Dirs, NEW h \in Handles,
                    tasks[<<b, d, h>>] > 0
             PROVE  Due(b, d, h)'
  BY DEF JobsOK, Once
<1>1. Due(b, d, h)
  BY DEF JobsOK
<1>2. Within(d, h)' = Within(d, h)
  BY <1>1, NoneAssumption DEF Within, Due
<1>3. Contents(Within(d, h))' = Contents(Within(d, h))
  BY <1>2 DEF Contents
<1> QED BY <1>1, <1>2, <1>3 DEF Due

(* The routes of a node after publish or remove.                            *)
LEMMA RouteStepContents ==
    ASSUME TreeInv, NEW d \in Dirs, NEW h \in Handles, NEW n \in Nodes, NEW a, NEW s,
           RouteStep(d, h, n, a, s)
    PROVE  /\ active'[n] = a /\ backup'[n] = s
           /\ \A m \in Nodes : m # n => active'[m] = active[m] /\ backup'[m] = backup[m]
           /\ handle' = handle
           /\ \A e \in Dirs : nested[e] # None /\ nested'[e] # nested[e] =>
                e = d /\ h = "root" /\ a = None /\ nested[d] = n /\ Range(s) = {}
<1>1. /\ nested \in [Dirs -> Nodes \cup {None}]
      /\ active \in [Nodes -> Known] /\ backup \in [Nodes -> Seq(Broadcasts)]
  BY DEF TreeInv, TypeOK, Known
<1>2. /\ active' = [active EXCEPT ![n] = a] /\ backup' = [backup EXCEPT ![n] = s]
      /\ handle' = handle /\ RouteOK(a, s)
  BY DEF RouteStep, Routed
<1>3. ASSUME NEW e \in Dirs, nested[e] # None, nested'[e] # nested[e]
      PROVE  e = d /\ h = "root" /\ a = None /\ nested[d] = n
  <2>1. CASE Entry(d, n) /\ nested' = [nested EXCEPT ![d] = n]
    BY <1>3, <2>1, EntryLinks
  <2>2. CASE ~ (Entry(d, n) /\ nested' = [nested EXCEPT ![d] = n])
    BY <1>1, <1>3, <2>2 DEF RouteStep
  <2> QED BY <2>1, <2>2
<1>4. a = None => Range(s) = {}
  BY <1>2 DEF RouteOK
<1> QED BY <1>1, <1>2, <1>3, <1>4

(* Publishing keeps what is due in place ...                                *)
LEMMA PublishJobs ==
    ASSUME TreeInv, JobsOK, NEW b \in Broadcasts, NEW d \in Dirs, NEW h \in Handles,
           Publish(b, d, h)
    PROVE  JobsOK'
<1>1. PICK n \in Nodes : \E a, s :
             /\ RouteStep(d, h, n, a, s) /\ a # None
             /\ {a} \cup Range(s) = {b} \cup (Contents(n) \ {None})
             /\ h = "root" => nested'[d] = n
             /\ h = "scoped" => handle[d] = n
  BY PublishIsRouteStep
<1>2. PICK a, s :
             /\ RouteStep(d, h, n, a, s) /\ a # None
             /\ {a} \cup Range(s) = {b} \cup (Contents(n) \ {None})
             /\ h = "root" => nested'[d] = n
             /\ h = "scoped" => handle[d] = n
  BY <1>1
<1>3. /\ tasks' = [tasks EXCEPT ![<<b, d, h>>] = @ + 1] /\ uses' = [uses EXCEPT ![b] = @ + 1]
      /\ uses[b] < layout.copies /\ layout' = layout
  BY DEF Publish
<1>4. /\ tasks \in [Broadcasts \X Dirs \X Handles -> Nat] /\ uses \in [Broadcasts -> Nat]
      /\ layout.copies \in Nat /\ None \notin Broadcasts /\ None \notin Nodes
  BY LayoutParts, NoneAssumption DEF TreeInv, TypeOK
<1>5. Contents(n)' = {b} \cup (Contents(n) \ {None})
      /\ \A m \in Nodes : m # n => Contents(m)' = Contents(m)
  BY <1>2, RouteStepContents DEF Contents
<1>6. \A e \in Dirs : nested[e] # None => nested'[e] = nested[e]
  BY <1>2, RouteStepContents
<1>7. handle' = handle
  BY <1>2, RouteStepContents
<1> SUFFICES ASSUME Once, NEW x \in Broadcasts, NEW e \in Dirs, NEW g \in Handles,
                    tasks'[<<x, e, g>>] > 0
             PROVE  Due(x, e, g)'
  BY <1>3 DEF JobsOK, Once
<1>8. uses[b] = 0
  BY <1>3, <1>4 DEF Once
<1>9. \A f \in Dirs, k \in Handles : tasks[<<b, f, k>>] = 0
  <2> SUFFICES ASSUME NEW f \in Dirs, NEW k \in Handles, tasks[<<b, f, k>>] > 0 PROVE FALSE
    BY <1>4
  <2> QED BY <1>8 DEF JobsOK, Due
<1>10. CASE x = b
  <2>1. \A f \in Dirs, k \in Handles : tasks'[<<b, f, k>>] > 0 => f = d /\ k = h
    BY <1>3, <1>4, <1>9
  <2>2. e = d /\ g = h
    BY <1>10, <2>1
  <2>3. tasks'[<<b, d, h>>] = 1 /\ uses'[b] > 0
    BY <1>3, <1>4, <1>8, <1>9
  <2>4. Within(d, h)' = n
    BY <1>2, <1>7 DEF Within, Handles
  <2>5. b \in Contents(Within(d, h))'
    <3>1. b \in Contents(n)'
      BY <1>5
    <3> QED BY <2>4, <3>1 DEF Contents
  <2> QED BY <1>10, <2>1, <2>2, <2>3, <2>4, <2>5 DEF Due
<1>11. CASE x # b
  <2>1. \A f \in Dirs, k \in Handles : tasks'[<<x, f, k>>] = tasks[<<x, f, k>>]
    BY <1>3, <1>4, <1>11
  <2>2. Due(x, e, g)
    BY <2>1 DEF JobsOK
  <2>3. Within(e, g)' = Within(e, g)
    BY <1>4, <1>6, <1>7, <2>2 DEF Within, Due
  <2>4. x \in Contents(Within(e, g))'
    <3>1. PICK m \in Nodes : m = Within(e, g) /\ x \in Contents(m)
      BY <2>2 DEF Due
    <3>2. x \in Contents(m)'
      BY <1>4, <1>5, <3>1
    <3>3. Within(e, g)' = m
      BY <2>3, <3>1
    <3> QED BY <3>2, <3>3 DEF Contents
  <2>5. uses'[x] = uses[x]
    BY <1>3, <1>4, <1>11
  <2> QED BY <2>1, <2>2, <2>3, <2>4, <2>5 DEF Due
<1> QED BY <1>10, <1>11

(* ... and so does cleaning up, whose assertion therefore holds.            *)
LEMMA CleanupJobs ==
    ASSUME TreeInv, JobsOK, NEW b \in Broadcasts, NEW d \in Dirs, NEW h \in Handles,
           Cleanup(b, d, h)
    PROVE  JobsOK'
<1>1. /\ tasks' = [tasks EXCEPT ![<<b, d, h>>] = @ - 1] /\ tasks[<<b, d, h>>] > 0
      /\ layout' = layout /\ uses' = uses
  BY DEF Cleanup
<1>2. /\ tasks \in [Broadcasts \X Dirs \X Handles -> Nat]
      /\ None \notin Broadcasts /\ None \notin Nodes
  BY NoneAssumption DEF TreeInv, TypeOK
<1> SUFFICES ASSUME Once, NEW x \in Broadcasts, NEW e \in Dirs, NEW g \in Handles,
                    tasks'[<<x, e, g>>] > 0
             PROVE  Due(x, e, g)'
  BY <1>1 DEF JobsOK, Once
<1>3. Due(b, d, h)
  BY <1>1 DEF JobsOK
<1>4. x # b
  <2> SUFFICES ASSUME x = b PROVE FALSE
    OBVIOUS
  <2>1. CASE e = d /\ g = h
    BY <1>1, <1>2, <1>3, <2>1 DEF Due
  <2>2. CASE ~ (e = d /\ g = h)
    <3>1. tasks'[<<b, e, g>>] = tasks[<<b, e, g>>]
      BY <1>1, <1>2, <2>2
    <3> QED BY <1>3, <2>2, <3>1 DEF Due
  <2> QED BY <2>1, <2>2
<1>5. \A f \in Dirs, k \in Handles : tasks'[<<x, f, k>>] = tasks[<<x, f, k>>]
  BY <1>1, <1>2, <1>4
<1>6. Due(x, e, g)
  BY <1>5 DEF JobsOK
<1>7. PICK m \in Nodes : m = Within(e, g) /\ x \in Contents(m)
  BY <1>6 DEF Due
<1>8. CASE UNCHANGED <<layout, tree, views, panicked>>
  BY <1>1, <1>5, <1>6, <1>8 DEF Due, Within, Contents, tree
<1>9. CASE \E n \in Nodes : \E a, s : RouteStep(d, h, n, a, s)
                /\ Contents(n) \ {None, b} \subseteq {a} \cup Range(s)
  <2>1. PICK n \in Nodes : \E a, s : RouteStep(d, h, n, a, s)
                /\ Contents(n) \ {None, b} \subseteq {a} \cup Range(s)
    BY <1>9
  <2>2. PICK a, s : /\ RouteStep(d, h, n, a, s)
                    /\ Contents(n) \ {None, b} \subseteq {a} \cup Range(s)
    BY <2>1
  <2>3. x \in Contents(m)'
    <3>1. CASE m = n
      BY <1>2, <1>4, <1>7, <2>2, <3>1, RouteStepContents DEF Contents
    <3>2. CASE m # n
      BY <1>7, <2>2, <3>2, RouteStepContents DEF Contents
    <3> QED BY <3>1, <3>2
  <2>4. Within(e, g)' = m
    <3> SUFFICES ASSUME g = "root" PROVE nested'[e] = nested[e]
      BY <1>7, <2>2, RouteStepContents DEF Within
    <3> SUFFICES ASSUME nested'[e] # nested[e] PROVE FALSE
      OBVIOUS
    <3>1. m = nested[e] /\ nested[e] # None
      BY <1>2, <1>7 DEF Within
    <3>2. a = None /\ m = n /\ Range(s) = {}
      BY <2>2, <3>1, RouteStepContents
    <3> QED BY <1>2, <1>4, <1>7, <2>2, <3>2
  <2>5. Contents(Within(e, g))' = Contents(m)'
    BY <2>4 DEF Contents
  <2> QED BY <1>1, <1>5, <1>6, <2>3, <2>4, <2>5 DEF Due
<1> QED BY <1>8, <1>9, CleanupIsRouteStep

(* The other steps only link nodes.                                         *)
LEMMA OtherJobs ==
    ASSUME TreeInv, JobsOK,
           \/ \E d \in Dirs : ScopeProducer(d) \/ Visit(d)
           \/ \E b \in Broadcasts : Close(b)
           \/ \E c \in Consumers : Select(c) \/ Join(c) \/ JoinRoot(c) \/ Joined(c) \/ Take(c) \/ Leave(c)
           \/ UNCHANGED vars
    PROVE  JobsOK' /\ UNCHANGED <<layout, panicked>>
<1>1. CASE \E d \in Dirs : ScopeProducer(d)
  <2>1. PICK d \in Dirs : ScopeProducer(d)
    BY <1>1
  <2>2. PICK n \in Nodes : /\ Entry(d, n) /\ nested' = [nested EXCEPT ![d] = n]
                           /\ handle' = [handle EXCEPT ![d] = n] /\ handle[d] = None
    BY <2>1 DEF ScopeProducer
  <2>3. \A e \in Dirs : nested[e] # None => nested'[e] = nested[e]
    BY <2>2, EntryLinks
  <2>4. handle \in [Dirs -> Nodes \cup {None}]
    BY DEF TreeInv, TypeOK
  <2>5. \A e \in Dirs : handle[e] # None => handle'[e] = handle[e]
    BY <2>2, <2>4
  <2> QED BY <2>1, <2>3, <2>5, LinkJobs DEF ScopeProducer, jobs
<1>2. CASE \E c \in Consumers : Select(c)
  <2>1. PICK c \in Consumers : Select(c)
    BY <1>2
  <2>2. layout.scope[c] \in Dirs
    BY <2>1, LayoutParts DEF TreeInv, Select
  <2>3. PICK n \in Nodes : Entry(layout.scope[c], n) /\ nested' = [nested EXCEPT ![layout.scope[c]] = n]
    BY <2>1 DEF Select
  <2>4. \A e \in Dirs : nested[e] # None => nested'[e] = nested[e]
    BY <2>2, <2>3, EntryLinks
  <2> QED BY <2>1, <2>4, LinkJobs DEF Select, jobs
<1>3. CASE UNCHANGED <<layout, nested, active, backup, handle, uses, tasks, panicked>>
  BY <1>3, LinkJobs
<1>4. CASE \/ \E d \in Dirs : Visit(d)
           \/ \E b \in Broadcasts : Close(b)
           \/ \E c \in Consumers : Join(c) \/ JoinRoot(c) \/ Joined(c) \/ Take(c) \/ Leave(c)
           \/ UNCHANGED vars
  <2>1. UNCHANGED <<layout, nested, active, backup, handle, uses, tasks, panicked>>
    BY <1>4 DEF Visit, Close, Join, JoinRoot, Joined, Take, Leave, vars, tree, jobs
  <2> QED BY <1>3, <2>1
<1> QED BY <1>1, <1>2, <1>4

(* What is due stays in place.                                              *)
LEMMA JobsStep == TreeInv /\ JobsOK /\ [Next]_vars => JobsOK'
<1> SUFFICES ASSUME TreeInv, JobsOK, [Next]_vars PROVE JobsOK'
  OBVIOUS
<1> QED BY PublishJobs, CleanupJobs, OtherJobs DEF Next

(* The assertion in remove holds if no broadcast is published twice or      *)
(* there is only one: a cleanup task finds its broadcast queued or active,  *)
(* or nothing at all.  (With several broadcasts published twice it fails.)  *)
THEOREM RemoveNeverPanics == Spec /\ (Once \/ Alone) => []NoPanic
<1> DEFINE Safe == (Once \/ Alone) /\ NoPanic
<1>1. Init => JobsOK /\ NoPanic
  <2> SUFFICES ASSUME Init PROVE JobsOK /\ NoPanic
    OBVIOUS
  <2>1. \A b \in Broadcasts, d \in Dirs, h \in Handles : tasks[<<b, d, h>>] = 0
    BY DEF Init
  <2> QED BY <2>1 DEF Init, JobsOK, NoPanic
<1>2. TreeInv /\ JobsOK /\ Safe /\ [Next]_vars => Safe'
  <2> SUFFICES ASSUME TreeInv, JobsOK, Safe, [Next]_vars PROVE Safe'
    OBVIOUS
  <2>1. ASSUME NEW b \in Broadcasts, NEW d \in Dirs, NEW h \in Handles, Cleanup(b, d, h)
        PROVE  layout' = layout /\ ~panicked'
    <3>1. layout' = layout /\ tasks[<<b, d, h>>] > 0
      BY <2>1 DEF Cleanup
    <3>2. CASE UNCHANGED <<layout, tree, views, panicked>>
      BY <3>1, <3>2 DEF NoPanic
    <3>3. CASE \E n \in Nodes : Asserted(n, b) /\ n = IF h = "root" THEN nested[d] ELSE handle[d]
      <4>1. PICK n \in Nodes : Asserted(n, b) /\ n = Within(d, h)
        BY <3>3 DEF Within
      <4>2. CASE Once
        <5>1. b \in Contents(n)
          BY <3>1, <4>1, <4>2 DEF JobsOK, Due
        <5> QED BY <3>1, <4>1, <5>1 DEF Asserted, NoPanic
      <4>3. CASE Alone
        <5>1. active[n] # None => active[n] = b
          BY <3>1, <4>3 DEF Alone, TreeInv, RoutesOK, RouteOK, TasksOK
        <5>2. active[n] # None => b \in Contents(n)
          BY <5>1 DEF Contents
        <5> QED BY <3>1, <4>1, <5>2 DEF Asserted, NoPanic
      <4> QED BY <4>2, <4>3
    <3> QED BY <2>1, <3>2, <3>3, CleanupIsRouteStep
  <2>2. ASSUME NEW b \in Broadcasts, NEW d \in Dirs, NEW h \in Handles, Publish(b, d, h)
        PROVE  layout' = layout /\ panicked' = panicked
    BY <2>2 DEF Publish
  <2>3. layout' = layout /\ ~panicked'
    BY <2>1, <2>2, OtherJobs DEF Next, NoPanic
  <2> QED BY <2>3 DEF NoPanic, Once, Alone
<1> QED BY TreeInit, TreeStep, JobsStep, <1>1, <1>2, PTL DEF Spec

-----------------------------------------------------------------------------
(* Broadcasts are published from where the consumers listen: at the root    *)
(* for consumers of the whole tree, through scoped handles for the others.  *)
Unmixed ==
    \A c \in DOMAIN layout.scope :
        layout.producers \subseteq {IF layout.scope[c] = Root THEN "root" ELSE "scoped"}

(* Without root producers nothing is unlinked, and a path has one node for  *)
(* good: its link, its handle and its consumers agree.                      *)
LinksOK ==
    layout.producers \subseteq {"scoped"} =>
        /\ \A d \in Dirs : handle[d] # None => nested[d] = handle[d]
        /\ \A c \in Consumers : home[c] \in Nodes => nested[layout.scope[c]] = home[c]

(* A consumer that has not heard of a path and is about to hear nothing.    *)
Blank(c, d) == pending[c][d] = Nothing /\ seen[c][d] = None

(* A consumer that ends up knowing what a lookup finds.                     *)
Knows(c, d) ==
    /\ Legal(pending[c][d], seen[c][d])
    /\ Settled(pending[c][d], seen[c][d]) = Lookup(d)

(* A root consumer being set up knows the paths the scan has visited; a     *)
(* live one knows the paths of its scope and hears of no other.             *)
ViewOK(c, d) ==
    /\ phase[c] \in {"new", "selected", "gone"} => Blank(c, d)
    /\ phase[c] = "joining" => IF d \in scan.left THEN Blank(c, d) ELSE Knows(c, d)
    /\ phase[c] = "live" => IF layout.scope[c] \in {Root, d} THEN Knows(c, d) ELSE Blank(c, d)

ViewsOK == \A c \in Consumers, d \in Dirs : ViewOK(c, d)

(* A consumer that refers to a named node is a scoped one.                  *)
LEMMA ScopedHome ==
    ASSUME TreeInv, NEW c \in Consumers, home[c] \in Nodes
    PROVE  c \in DOMAIN layout.scope /\ layout.scope[c] \in Dirs /\ layout.scope[c] # Root
<1>1. None \notin Nodes /\ Root \notin Nodes /\ Root \notin Dirs
  BY NoneAssumption, RootAssumption
<1>2. phase[c] \in {"selected", "live"}
  BY <1>1 DEF TreeInv, TypeOK, HomeOK
<1> QED BY <1>1, <1>2 DEF TreeInv, HomeOK

(* Steps that only link nodes keep the links right.                         *)
LEMMA LinkLinks ==
    ASSUME TreeInv, LinksOK, UNCHANGED <<layout, handle>>,
           \A c \in Consumers : home'[c] \in Nodes => home[c] = home'[c],
           \A d \in Dirs : nested[d] # None => nested'[d] = nested[d]
    PROVE  LinksOK'
<1> SUFFICES ASSUME layout.producers \subseteq {"scoped"}
             PROVE  /\ \A d \in Dirs : handle[d] # None => nested'[d] = handle[d]
                    /\ \A c \in Consumers : home'[c] \in Nodes => nested'[layout.scope[c]] = home'[c]
  BY DEF LinksOK
<1>1. None \notin Nodes /\ Root \notin Nodes
  BY NoneAssumption, RootAssumption
<1>2. ASSUME NEW c \in Consumers, home'[c] \in Nodes
      PROVE  nested'[layout.scope[c]] = home'[c]
  <2>1. home[c] = home'[c] /\ home[c] \in Nodes
    BY <1>2
  <2>2. nested[layout.scope[c]] = home[c]
    BY <2>1 DEF LinksOK
  <2>3. layout.scope[c] \in Dirs
    BY <2>1, ScopedHome
  <2> QED BY <1>1, <2>1, <2>2, <2>3
<1> QED BY <1>1, <1>2 DEF LinksOK

(* The links stay right.                                                    *)
LEMMA LinksStep == TreeInv /\ LinksOK /\ [Next]_vars => LinksOK'
<1> SUFFICES ASSUME TreeInv, LinksOK, [Next]_vars PROVE LinksOK'
  OBVIOUS
<1>1. /\ nested \in [Dirs -> Nodes \cup {None}] /\ handle \in [Dirs -> Nodes \cup {None}]
      /\ home \in [Consumers -> Nodes \cup {Root, None}] /\ None \notin Nodes /\ Root \notin Nodes
  BY NoneAssumption, RootAssumption DEF TreeInv, TypeOK
<1>2. ASSUME NEW d \in Dirs, ScopeProducer(d) PROVE LinksOK'
  <2>1. PICK n \in Nodes : /\ Entry(d, n) /\ nested' = [nested EXCEPT ![d] = n]
                           /\ handle' = [handle EXCEPT ![d] = n]
    BY <1>2 DEF ScopeProducer
  <2>2. layout' = layout /\ home' = home
    BY <1>2 DEF ScopeProducer, views
  <2>3. \A e \in Dirs : nested[e] # None => nested'[e] = nested[e]
    BY <2>1, EntryLinks
  <2> SUFFICES ASSUME layout.producers \subseteq {"scoped"}
               PROVE  /\ \A e \in Dirs : handle'[e] # None => nested'[e] = handle'[e]
                      /\ \A c \in Consumers : home[c] \in Nodes => nested'[layout.scope[c]] = home[c]
    BY <2>2 DEF LinksOK
  <2>4. ASSUME NEW e \in Dirs, handle'[e] # None PROVE nested'[e] = handle'[e]
    BY <1>1, <2>1, <2>3, <2>4 DEF LinksOK
  <2>5. ASSUME NEW c \in Consumers, home[c] \in Nodes PROVE nested'[layout.scope[c]] = home[c]
    <3>1. nested[layout.scope[c]] = home[c]
      BY <2>5 DEF LinksOK
    <3>2. layout.scope[c] \in Dirs
      BY <2>5, ScopedHome
    <3> QED BY <1>1, <2>3, <2>5, <3>1, <3>2
  <2> QED BY <2>4, <2>5
<1>3. ASSUME NEW c \in Consumers, Select(c) PROVE LinksOK'
  <2> DEFINE d == layout.scope[c]
  <2>1. d \in Dirs
    BY <1>3, LayoutParts DEF TreeInv, Select
  <2>2. PICK n \in Nodes : /\ Entry(d, n) /\ nested' = [nested EXCEPT ![d] = n]
                           /\ home' = [home EXCEPT ![c] = n]
    BY <1>3 DEF Select
  <2>3. layout' = layout /\ handle' = handle
    BY <1>3 DEF Select
  <2>4. \A e \in Dirs : nested[e] # None => nested'[e] = nested[e]
    BY <2>1, <2>2, EntryLinks
  <2>5. nested'[d] = n
    BY <2>1, <2>2, EntryLinks
  <2> SUFFICES ASSUME layout.producers \subseteq {"scoped"}
               PROVE  /\ \A e \in Dirs : handle[e] # None => nested'[e] = handle[e]
                      /\ \A x \in Consumers : home'[x] \in Nodes => nested'[layout.scope[x]] = home'[x]
    BY <2>3 DEF LinksOK
  <2>6. ASSUME NEW x \in Consumers, home'[x] \in Nodes, x # c
        PROVE  nested'[layout.scope[x]] = home'[x]
    <3>1. home'[x] = home[x]
      BY <1>1, <2>2, <2>6
    <3>2. nested[layout.scope[x]] = home[x]
      BY <2>6, <3>1 DEF LinksOK
    <3>3. layout.scope[x] \in Dirs
      BY <2>6, <3>1, ScopedHome
    <3> QED BY <1>1, <2>4, <2>6, <3>1, <3>2, <3>3
  <2>7. home'[c] = n
    BY <1>1, <2>2
  <2>8. \A e \in Dirs : handle[e] # None => nested'[e] = handle[e]
    BY <1>1, <2>4 DEF LinksOK
  <2> QED BY <2>5, <2>6, <2>7, <2>8
<1>4. ASSUME NEW b \in Broadcasts, NEW d \in Dirs, NEW h \in Handles, Publish(b, d, h) \/ Cleanup(b, d, h)
      PROVE  LinksOK'
  <2> SUFFICES ASSUME layout.producers \subseteq {"scoped"}
               PROVE  LinksOK'
    BY <1>4 DEF LinksOK, Publish, Cleanup
  <2>1. h = "scoped"
    BY <1>4 DEF Publish, Cleanup, TreeInv, TasksOK
  <2>2. UNCHANGED <<layout, nested, handle, home>>
    BY <1>4, <2>1 DEF Publish, Cleanup
  <2> QED BY <2>2 DEF LinksOK
<1>5. ASSUME NEW c \in Consumers, Leave(c) \/ JoinRoot(c) PROVE LinksOK'
  <2>1. UNCHANGED <<layout, nested, handle>>
    BY <1>5 DEF Leave, JoinRoot, tree
  <2>2. \A x \in Consumers : home'[x] \in Nodes => home[x] = home'[x]
    BY <1>1, <1>5 DEF Leave, JoinRoot
  <2> QED BY <2>1, <2>2, LinkLinks
<1>6. CASE UNCHANGED <<layout, nested, handle, home>>
  BY <1>6 DEF LinksOK
<1>7. CASE \/ \E d \in Dirs : Visit(d)
           \/ \E b \in Broadcasts : Close(b)
           \/ \E c \in Consumers : Join(c) \/ Joined(c) \/ Take(c)
           \/ UNCHANGED vars
  BY <1>6, <1>7 DEF Visit, Close, Join, Joined, Take, vars, tree, views
<1> QED BY <1>2, <1>3, <1>4, <1>5, <1>7 DEF Next

(* Linking a node changes nothing a lookup finds.                           *)
LEMMA LinkLookup ==
    ASSUME TreeInv, NEW d \in Dirs, NEW n \in Nodes, Entry(d, n),
           nested' = [nested EXCEPT ![d] = n], active' = active
    PROVE  \A e \in Dirs : Lookup(e)' = Lookup(e)
<1> SUFFICES ASSUME NEW e \in Dirs PROVE Lookup(e)' = Lookup(e)
  OBVIOUS
<1>1. CASE nested'[e] = nested[e]
  BY <1>1 DEF Lookup
<1>2. CASE nested'[e] # nested[e]
  <2>1. e = d /\ nested[e] = None /\ Free(n) /\ nested'[e] = n
    BY <1>2, EntryLinks
  <2>2. active[n] = None
    BY <2>1, FreeIsEmpty
  <2> QED BY <2>1, <2>2 DEF Lookup
<1> QED BY <1>1, <1>2

(* What a lookup finds after publish or remove, if it finds the node.       *)
LEMMA RouteLookup ==
    ASSUME TreeInv, NEW d \in Dirs, NEW h \in Handles, NEW n \in Nodes, NEW a, NEW s,
           RouteStep(d, h, n, a, s), h = "root" \/ nested[d] = n
    PROVE  /\ Lookup(d) = active[n] /\ Lookup(d)' = a
           /\ \A e \in Dirs : e # d => Lookup(e)' = Lookup(e)
<1>1. /\ nested \in [Dirs -> Nodes \cup {None}] /\ None \notin Nodes
      /\ active \in [Nodes -> Known] /\ active' = [active EXCEPT ![n] = a]
  BY NoneAssumption DEF TreeInv, TypeOK, Known, RouteStep, Routed
<1>2. CASE Entry(d, n) /\ nested' = [nested EXCEPT ![d] = n]
  <2>1. nested'[d] = n /\ (nested[d] = n \/ (nested[d] = None /\ active[n] = None))
    BY <1>1, <1>2, EntryLinks, FreeIsEmpty DEF Entry
  <2>2. Lookup(d) = active[n] /\ Lookup(d)' = a
    BY <1>1, <2>1 DEF Lookup
  <2>3. ASSUME NEW e \in Dirs, e # d PROVE Lookup(e)' = Lookup(e)
    <3>1. nested'[e] = nested[e] /\ nested[e] # n
      BY <1>2, <2>3, EntryLinks
    <3> QED BY <1>1, <3>1 DEF Lookup
  <2> QED BY <2>2, <2>3
<1>3. CASE nested[d] = n /\ (nested' = nested \/ (nested' = [nested EXCEPT ![d] = None] /\ a = None))
  <2>1. Lookup(d) = active[n] /\ Lookup(d)' = a
    BY <1>1, <1>3 DEF Lookup
  <2>2. ASSUME NEW e \in Dirs, e # d PROVE Lookup(e)' = Lookup(e)
    <3>1. nested[e] # n
      BY <1>3, <2>2 DEF TreeInv, NodesApart, Refers
    <3> QED BY <1>1, <1>3, <2>2, <3>1 DEF Lookup
  <2> QED BY <2>1, <2>2
<1> QED BY <1>2, <1>3 DEF RouteStep

(* Whoever listens for a path is told of each change of its active route,   *)
(* and nobody else is.                                                      *)
LEMMA RouteViews ==
    ASSUME TreeInv, LinksOK, ViewsOK, Unmixed,
           NEW d \in Dirs, NEW h \in Handles, NEW n \in Nodes, NEW a, NEW s,
           RouteStep(d, h, n, a, s), h \in layout.producers
    PROVE  ViewsOK'
<1> SUFFICES ASSUME NEW c \in Consumers, NEW e \in Dirs PROVE ViewOK(c, e)'
  BY DEF ViewsOK
<1>1. /\ UNCHANGED <<layout, listeners, handle, phase, home, scan, seen>> /\ a \in Known
      /\ pending' = [x \in Consumers |->
           IF x \in Told(n) THEN [pending[x] EXCEPT ![d] = Update(pending[x][d], active[n], a)]
                            ELSE pending[x]]
  BY DEF RouteStep, Routed
<1>2. /\ pending \in [Consumers -> [Dirs -> PendingUpdate(Broadcasts)]]
      /\ seen \in [Consumers -> [Dirs -> Known]] /\ active \in [Nodes -> Known]
      /\ phase[c] \in {"new", "selected", "joining", "live", "gone"}
      /\ Root \notin Nodes /\ Root \notin Dirs
  BY RootAssumption DEF TreeInv, TypeOK, Known
<1>3. c \in Told(n) <=> phase[c] = "live" /\ (home[c] = n \/ home[c] = Root)
  BY DEF TreeInv, ListenOK, Told
<1>4. /\ e # d => pending'[c][e] = pending[c][e]
      /\ c \notin Told(n) => pending'[c] = pending[c]
      /\ c \in Told(n) => pending'[c][d] = Update(pending[c][d], active[n], a)
      /\ seen'[c] = seen[c]
  BY <1>1, <1>2
<1>5. ViewOK(c, e)
  BY DEF ViewsOK
<1>10. ASSUME Knows(c, d), Lookup(d) = active[n]
       PROVE  /\ Legal(Update(pending[c][d], active[n], a), seen[c][d])
              /\ Settled(Update(pending[c][d], active[n], a), seen[c][d]) = a
  <2>1. /\ pending[c][d] \in PendingUpdate(Broadcasts) /\ seen[c][d] \in Known
        /\ active[n] \in Known /\ a \in Known
    <3>1. pending[c] \in [Dirs -> PendingUpdate(Broadcasts)] /\ seen[c] \in [Dirs -> Known]
      BY <1>2
    <3>2. active[n] \in Known /\ a \in Known
      BY <1>1, <1>2
    <3> QED BY <3>1, <3>2
  <2>2. Legal(pending[c][d], seen[c][d]) /\ Settled(pending[c][d], seen[c][d]) = active[n]
    <3>1. /\ Legal(pending[c][d], seen[c][d])
          /\ Settled(pending[c][d], seen[c][d]) = Lookup(d)
      BY <1>10 DEF Knows
    <3> QED BY <1>10, <3>1
  <2> QED BY <2>1, <2>2, UpdateSettles
<1>6. CASE phase[c] \in {"new", "selected", "gone"}
  <2>1. c \notin Told(n)
    BY <1>3, <1>6
  <2> QED BY <1>1, <1>4, <1>5, <1>6, <2>1 DEF ViewOK, Blank
<1>7. CASE phase[c] = "joining"
  <2>1. c \in DOMAIN layout.scope /\ layout.scope[c] = Root /\ scan.consumer = c
    BY <1>7 DEF TreeInv, HomeOK
  <2>2. h = "root"
    BY <2>1 DEF Unmixed
  <2>3. ~RootFree
    BY <2>1, NoneAssumption DEF RootFree, NoScan
  <2> QED BY <2>2, <2>3 DEF RouteStep
<1>8. CASE phase[c] = "live" /\ layout.scope[c] = Root
  <2>1. c \in DOMAIN layout.scope /\ home[c] = Root
    BY <1>2, <1>8 DEF TreeInv, HomeOK
  <2>2. h = "root" /\ c \in Told(n)
    BY <1>3, <1>8, <2>1 DEF Unmixed
  <2>3. Knows(c, e)
    BY <1>5, <1>8 DEF ViewOK
  <2>4. Knows(c, e)'
    <3>1. CASE e = d
      <4>1. Lookup(d) = active[n] /\ Lookup(d)' = a
        BY <2>2, RouteLookup
      <4>2. /\ Legal(Update(pending[c][d], active[n], a), seen[c][d])
            /\ Settled(Update(pending[c][d], active[n], a), seen[c][d]) = a
        BY <1>10, <2>3, <3>1, <4>1
      <4> QED BY <1>4, <2>2, <3>1, <4>1, <4>2 DEF Knows
    <3>2. CASE e # d
      <4>1. Lookup(e)' = Lookup(e)
        BY <2>2, <3>2, RouteLookup
      <4> QED BY <1>4, <2>3, <3>2, <4>1 DEF Knows
    <3> QED BY <3>1, <3>2
  <2> QED BY <1>1, <1>8, <2>4 DEF ViewOK
<1>9. CASE phase[c] = "live" /\ layout.scope[c] # Root
  <2>1. c \in DOMAIN layout.scope /\ layout.scope[c] \in Dirs /\ home[c] \in Nodes
    BY <1>9 DEF TreeInv, HomeOK
  <2>2. layout.producers \subseteq {"scoped"} /\ h = "scoped"
    BY <1>9, <2>1 DEF Unmixed
  <2>3. handle[d] = n /\ nested[d] = n /\ nested[layout.scope[c]] = home[c]
    BY <2>1, <2>2, NoneAssumption DEF RouteStep, LinksOK
  <2>4. c \in Told(n) <=> layout.scope[c] = d
    <3>1. home[c] = n <=> layout.scope[c] = d
      BY <2>1, <2>3 DEF TreeInv, NodesApart, Refers
    <3> QED BY <1>2, <1>3, <1>9, <2>1, <3>1
  <2>5. /\ Lookup(d) = active[n] /\ Lookup(d)' = a
        /\ e # d => Lookup(e)' = Lookup(e)
    BY <2>3, RouteLookup
  <2>6. CASE layout.scope[c] = e
    <3>1. Knows(c, e)
      BY <1>5, <1>9, <2>6 DEF ViewOK
    <3>2. CASE e = d
      <4>1. /\ Legal(Update(pending[c][d], active[n], a), seen[c][d])
            /\ Settled(Update(pending[c][d], active[n], a), seen[c][d]) = a
        BY <1>10, <2>5, <3>1, <3>2
      <4>2. Knows(c, e)'
        BY <1>4, <2>4, <2>5, <2>6, <3>2, <4>1 DEF Knows
      <4> QED BY <1>1, <1>9, <2>6, <4>2 DEF ViewOK
    <3>3. CASE e # d
      <4>1. Knows(c, e)'
        BY <1>4, <2>5, <3>1, <3>3 DEF Knows
      <4> QED BY <1>1, <1>9, <2>6, <4>1 DEF ViewOK
    <3> QED BY <3>2, <3>3
  <2>7. CASE layout.scope[c] # e
    <3>1. Blank(c, e)
      BY <1>5, <1>9, <2>7 DEF ViewOK
    <3>2. pending'[c][e] = pending[c][e]
      BY <1>4, <2>4, <2>7
    <3>3. Blank(c, e)'
      BY <1>4, <3>1, <3>2 DEF Blank
    <3> QED BY <1>1, <1>9, <2>7, <3>3 DEF ViewOK
  <2> QED BY <2>6, <2>7
<1> QED BY <1>2, <1>6, <1>7, <1>8, <1>9

(* A consumer of whom nothing changes, while lookups find what they found,  *)
(* stays in the know.                                                       *)
LEMMA SameView ==
    ASSUME NEW c \in Consumers, NEW d \in Dirs, ViewOK(c, d), layout' = layout,
           phase'[c] = phase[c], pending'[c][d] = pending[c][d], seen'[c][d] = seen[c][d],
           Lookup(d)' = Lookup(d),
           phase[c] = "joining" => scan' = scan
    PROVE  ViewOK(c, d)'
<1>1. Blank(c, d)' = Blank(c, d) /\ Knows(c, d)' = Knows(c, d)
  BY DEF Blank, Knows
<1> QED BY <1>1 DEF ViewOK

(* The registration of a scoped consumer tells it of the active route.      *)
LEMMA JoinViews ==
    ASSUME TreeInv, LinksOK, ViewsOK, Unmixed, NEW c \in Consumers, Join(c)
    PROVE  ViewsOK'
<1>1. /\ phase[c] = "selected" /\ phase' = [phase EXCEPT ![c] = "live"]
      /\ pending' = IF active[home[c]] = None THEN pending
                    ELSE [pending EXCEPT ![c][layout.scope[c]] = ApplyAnnounce(@, active[home[c]])]
      /\ UNCHANGED <<layout, nested, active, scan, seen>>
  BY DEF Join
<1>2. /\ pending \in [Consumers -> [Dirs -> PendingUpdate(Broadcasts)]]
      /\ phase \in [Consumers -> {"new", "selected", "joining", "live", "gone"}]
      /\ Root \notin Dirs /\ None \notin Nodes
  BY RootAssumption, NoneAssumption DEF TreeInv, TypeOK
<1>3. PICK d \in Dirs : d = layout.scope[c] /\ c \in DOMAIN layout.scope /\ home[c] \in Nodes
  BY <1>1 DEF TreeInv, HomeOK
<1>4. nested[d] = home[c] /\ Lookup(d) = active[home[c]]
  <2>1. layout.producers \subseteq {"scoped"}
    BY <1>2, <1>3 DEF Unmixed
  <2>2. nested[d] = home[c]
    BY <1>3, <2>1 DEF LinksOK
  <2> QED BY <1>2, <1>3, <2>2 DEF Lookup
<1>5. \A e \in Dirs : Lookup(e)' = Lookup(e)
  BY <1>1 DEF Lookup
<1> SUFFICES ASSUME NEW x \in Consumers, NEW e \in Dirs PROVE ViewOK(x, e)'
  BY DEF ViewsOK
<1>6. ViewOK(x, e)
  BY DEF ViewsOK
<1>7. CASE x # c
  <2>1. pending'[x] = pending[x] /\ phase'[x] = phase[x]
    BY <1>1, <1>2, <1>3, <1>7
  <2> QED BY <1>1, <1>5, <1>6, <2>1, SameView
<1>8. CASE x = c
  <2>1. phase'[c] = "live" /\ Blank(c, e)
    BY <1>1, <1>2, <1>6, <1>8 DEF ViewOK
  <2>2. CASE e = d
    <3>1. pending'[c][d] = IF Lookup(d) = None THEN Nothing ELSE Announce(Lookup(d))
      <4>1. pending[c][d] = Nothing
        BY <2>1, <2>2 DEF Blank
      <4>2. ApplyAnnounce(Nothing, Lookup(d)) = Announce(Lookup(d))
        BY DEF ApplyAnnounce, Nothing
      <4>3. pending'[c][d] = IF Lookup(d) = None THEN pending[c][d]
                             ELSE ApplyAnnounce(pending[c][d], Lookup(d))
        BY <1>1, <1>2, <1>3, <1>4
      <4> QED BY <4>1, <4>2, <4>3
    <3>2. seen'[c][d] = None
      BY <1>1, <2>1, <2>2 DEF Blank
    <3>3. Knows(c, d)'
      BY <1>5, <3>1, <3>2 DEF Knows, Legal, Settled, Nothing, Announce
    <3> QED BY <1>1, <1>3, <1>8, <2>1, <2>2, <3>3 DEF ViewOK
  <2>3. CASE e # d
    <3>1. pending'[c][e] = pending[c][e]
      BY <1>1, <1>2, <1>3, <2>3
    <3>2. Blank(c, e)'
      BY <1>1, <2>1, <3>1 DEF Blank
    <3> QED BY <1>1, <1>2, <1>3, <1>8, <2>1, <2>3, <3>2 DEF ViewOK
  <2> QED BY <2>2, <2>3
<1> QED BY <1>7, <1>8

(* A root consumer starts blank: it has all the linked paths to visit, and  *)
(* the others are empty.                                                    *)
LEMMA JoinRootViews ==
    ASSUME TreeInv, ViewsOK, NEW c \in Consumers, JoinRoot(c)
    PROVE  ViewsOK'
<1>1. /\ phase[c] = "new" /\ phase' = [phase EXCEPT ![c] = "joining"] /\ RootFree
      /\ scan' = [consumer |-> c, left |-> {d \in Dirs : nested[d] # None}]
      /\ UNCHANGED <<layout, nested, active, pending, seen>>
  BY DEF JoinRoot, tree
<1>2. phase \in [Consumers -> {"new", "selected", "joining", "live", "gone"}]
  BY DEF TreeInv, TypeOK
<1> SUFFICES ASSUME NEW x \in Consumers, NEW e \in Dirs PROVE ViewOK(x, e)'
  BY DEF ViewsOK
<1>3. ViewOK(x, e) /\ Lookup(e)' = Lookup(e)
  BY <1>1 DEF ViewsOK, Lookup
<1>4. CASE x # c
  <2>1. phase[x] # "joining"
    BY <1>1, NoneAssumption DEF TreeInv, HomeOK, RootFree, NoScan
  <2>2. phase'[x] = phase[x]
    BY <1>1, <1>2, <1>4
  <2> QED BY <1>1, <1>3, <2>1, <2>2, SameView
<1>5. CASE x = c
  <2>1. phase'[c] = "joining" /\ Blank(c, e)
    BY <1>1, <1>2, <1>3, <1>5 DEF ViewOK
  <2>2. Blank(c, e)'
    BY <1>1, <2>1 DEF Blank
  <2>3. CASE nested[e] # None
    BY <1>1, <1>5, <2>1, <2>2, <2>3 DEF ViewOK
  <2>4. CASE nested[e] = None
    <3>1. Lookup(e)' = None
      BY <1>3, <2>4 DEF Lookup
    <3>2. Knows(c, e)'
      BY <2>2, <3>1 DEF Blank, Knows, Legal, Settled, Nothing
    <3> QED BY <1>1, <1>5, <2>1, <2>4, <3>2 DEF ViewOK
  <2> QED BY <2>3, <2>4
<1> QED BY <1>4, <1>5

(* A visit tells it of the path's active route.                             *)
LEMMA VisitViews ==
    ASSUME TreeInv, ViewsOK, NEW d \in Dirs, Visit(d)
    PROVE  ViewsOK'
<1>1. /\ d \in scan.left /\ scan' = [scan EXCEPT !.left = @ \ {d}]
      /\ pending' = IF active[nested[d]] = None THEN pending
                    ELSE [pending EXCEPT ![scan.consumer][d] = ApplyAnnounce(@, active[nested[d]])]
      /\ UNCHANGED <<layout, nested, active, phase, seen>>
  BY DEF Visit, tree
<1>2. /\ scan \in [consumer : Consumers, left : SUBSET Dirs] /\ phase[scan.consumer] = "joining"
      /\ nested[d] # None
  BY <1>1 DEF TreeInv, ScanOK, NoScan
<1>3. PICK c \in Consumers : c = scan.consumer /\ scan'.left = scan.left \ {d}
  BY <1>1, <1>2
<1>4. /\ pending \in [Consumers -> [Dirs -> PendingUpdate(Broadcasts)]]
      /\ Lookup(d) = active[nested[d]]
  BY <1>2 DEF TreeInv, TypeOK, Lookup
<1> SUFFICES ASSUME NEW x \in Consumers, NEW e \in Dirs PROVE ViewOK(x, e)'
  BY DEF ViewsOK
<1>5. ViewOK(x, e) /\ Lookup(e)' = Lookup(e)
  BY <1>1 DEF ViewsOK, Lookup
<1>6. CASE x # c
  <2>1. phase[x] # "joining"
    BY <1>3, <1>6 DEF TreeInv, HomeOK
  <2>2. pending'[x] = pending[x]
    BY <1>1, <1>3, <1>4, <1>6
  <2> QED BY <1>1, <1>5, <2>1, <2>2, SameView
<1>7. CASE x = c /\ e = d
  <2>1. Blank(c, d) /\ phase'[c] = "joining"
    BY <1>1, <1>2, <1>3, <1>5, <1>7 DEF ViewOK
  <2>2. pending'[c][d] = IF Lookup(d) = None THEN Nothing ELSE Announce(Lookup(d))
    BY <1>1, <1>3, <1>4, <2>1 DEF Blank, ApplyAnnounce, Nothing
  <2>3. Knows(c, d)'
    BY <1>1, <1>5, <1>7, <2>1, <2>2 DEF Blank, Knows, Legal, Settled, Nothing, Announce
  <2> QED BY <1>3, <1>7, <2>1, <2>3 DEF ViewOK
<1>8. CASE x = c /\ e # d
  <2>1. pending'[c][e] = pending[c][e] /\ seen'[c][e] = seen[c][e] /\ phase'[c] = "joining"
        /\ phase[c] = "joining"
    BY <1>1, <1>2, <1>3, <1>4, <1>8
  <2>2. (e \in scan'.left <=> e \in scan.left)
    BY <1>3, <1>8
  <2>3. Blank(c, e)' = Blank(c, e) /\ Knows(c, e)' = Knows(c, e)
    BY <1>5, <2>1 DEF Blank, Knows
  <2> QED BY <1>5, <1>8, <2>1, <2>2, <2>3 DEF ViewOK
<1> QED BY <1>6, <1>7, <1>8

(* Its registration at the root comes when every path has been visited.     *)
LEMMA JoinedViews ==
    ASSUME TreeInv, ViewsOK, NEW c \in Consumers, Joined(c)
    PROVE  ViewsOK'
<1>1. /\ scan = [consumer |-> c, left |-> {}] /\ phase' = [phase EXCEPT ![c] = "live"]
      /\ UNCHANGED <<layout, nested, active, pending, seen>>
  BY DEF Joined
<1>2. /\ phase \in [Consumers -> {"new", "selected", "joining", "live", "gone"}]
      /\ scan.consumer = c /\ scan.left = {} /\ scan # NoScan
  BY <1>1, NoneAssumption DEF TreeInv, TypeOK, NoScan
<1>3. phase[c] = "joining"
  BY <1>2 DEF TreeInv, ScanOK
<1>4. layout.scope[c] = Root
  BY <1>3 DEF TreeInv, HomeOK
<1> SUFFICES ASSUME NEW x \in Consumers, NEW e \in Dirs PROVE ViewOK(x, e)'
  BY DEF ViewsOK
<1>5. ViewOK(x, e) /\ Lookup(e)' = Lookup(e)
  BY <1>1 DEF ViewsOK, Lookup
<1>6. CASE x # c
  <2>1. phase[x] # "joining"
    BY <1>2, <1>6 DEF TreeInv, HomeOK
  <2>2. phase'[x] = phase[x]
    BY <1>1, <1>2, <1>6
  <2> QED BY <1>1, <1>5, <2>1, <2>2, SameView
<1>7. CASE x = c
  <2>1. Knows(c, e) /\ phase'[c] = "live"
    BY <1>1, <1>2, <1>3, <1>5, <1>7 DEF ViewOK
  <2>2. Knows(c, e)'
    BY <1>1, <1>5, <2>1 DEF Knows
  <2> QED BY <1>1, <1>4, <1>7, <2>1, <2>2 DEF ViewOK
<1> QED BY <1>6, <1>7

(* A take changes nothing of what a consumer ends up knowing.               *)
LEMMA TakeViews ==
    ASSUME TreeInv, ViewsOK, NEW c \in Consumers, Take(c)
    PROVE  ViewsOK'
<1>1. PICK d \in Dirs : /\ pending[c][d] # Nothing
                        /\ seen' = [seen EXCEPT ![c][d] = Delivered(pending[c][d])]
                        /\ pending' = [pending EXCEPT ![c][d] = Rest(@)]
  BY DEF Take
<1>2. phase[c] = "live" /\ UNCHANGED <<layout, nested, active, phase, scan>>
  BY DEF Take, tree
<1>3. /\ pending \in [Consumers -> [Dirs -> PendingUpdate(Broadcasts)]]
      /\ seen \in [Consumers -> [Dirs -> Known]]
  BY DEF TreeInv, TypeOK, Known
<1> SUFFICES ASSUME NEW x \in Consumers, NEW e \in Dirs PROVE ViewOK(x, e)'
  BY DEF ViewsOK
<1>4. ViewOK(x, e) /\ Lookup(e)' = Lookup(e)
  BY <1>2 DEF ViewsOK, Lookup
<1>5. CASE ~ (x = c /\ e = d)
  <2>1. pending'[x][e] = pending[x][e] /\ seen'[x][e] = seen[x][e]
    BY <1>1, <1>3, <1>5
  <2> QED BY <1>2, <1>4, <2>1, SameView
<1>6. CASE x = c /\ e = d
  <2>1. layout.scope[c] \in {Root, d} /\ Knows(c, d)
    BY <1>1, <1>2, <1>4, <1>6 DEF ViewOK, Blank
  <2>2. pending'[c][d] = Rest(pending[c][d]) /\ seen'[c][d] = Delivered(pending[c][d])
    BY <1>1, <1>3
  <2>3. /\ Legal(Rest(pending[c][d]), Delivered(pending[c][d]))
        /\ Settled(Rest(pending[c][d]), Delivered(pending[c][d])) = Settled(pending[c][d], seen[c][d])
    BY <1>1, <1>3, <2>1, TakeSettles DEF Knows
  <2>4. Knows(c, d)'
    BY <1>4, <1>6, <2>1, <2>2, <2>3 DEF Knows
  <2> QED BY <1>2, <1>6, <2>1, <2>4 DEF ViewOK
<1> QED BY <1>5, <1>6

(* A consumer that is dropped forgets everything.                           *)
LEMMA LeaveViews ==
    ASSUME TreeInv, ViewsOK, NEW c \in Consumers, Leave(c)
    PROVE  ViewsOK'
<1>1. /\ phase' = [phase EXCEPT ![c] = "gone"]
      /\ pending' = [pending EXCEPT ![c] = [d \in Dirs |-> Nothing]]
      /\ seen' = [seen EXCEPT ![c] = [d \in Dirs |-> None]]
      /\ UNCHANGED <<layout, nested, active, scan>>
  BY DEF Leave
<1>2. /\ pending \in [Consumers -> [Dirs -> PendingUpdate(Broadcasts)]]
      /\ seen \in [Consumers -> [Dirs -> Known]]
      /\ phase \in [Consumers -> {"new", "selected", "joining", "live", "gone"}]
  BY DEF TreeInv, TypeOK, Known
<1> SUFFICES ASSUME NEW x \in Consumers, NEW e \in Dirs PROVE ViewOK(x, e)'
  BY DEF ViewsOK
<1>3. ViewOK(x, e) /\ Lookup(e)' = Lookup(e)
  BY <1>1 DEF ViewsOK, Lookup
<1>4. CASE x # c
  <2>1. pending'[x] = pending[x] /\ seen'[x] = seen[x] /\ phase'[x] = phase[x]
    BY <1>1, <1>2, <1>4
  <2> QED BY <1>1, <1>3, <2>1, SameView
<1>5. CASE x = c
  <2>1. phase'[c] = "gone" /\ Blank(c, e)'
    BY <1>1, <1>2 DEF Blank
  <2> QED BY <1>5, <2>1 DEF ViewOK
<1> QED BY <1>4, <1>5

(* Making the node of a scoped handle or consumer tells nobody anything.    *)
LEMMA LinkViews ==
    ASSUME TreeInv, ViewsOK, UNCHANGED <<layout, scan, pending, seen>>,
           \A d \in Dirs : Lookup(d)' = Lookup(d),
           \A c \in Consumers :
               \/ phase'[c] = phase[c]
               \/ phase[c] = "new" /\ phase'[c] = "selected"
    PROVE  ViewsOK'
<1> SUFFICES ASSUME NEW x \in Consumers, NEW e \in Dirs PROVE ViewOK(x, e)'
  BY DEF ViewsOK
<1>1. ViewOK(x, e) /\ Lookup(e)' = Lookup(e)
  BY DEF ViewsOK
<1>2. CASE phase'[x] = phase[x]
  BY <1>1, <1>2, SameView
<1>3. CASE phase[x] = "new" /\ phase'[x] = "selected"
  <2>1. Blank(x, e)'
    BY <1>1, <1>3 DEF ViewOK, Blank
  <2> QED BY <1>3, <2>1 DEF ViewOK
<1> QED BY <1>2, <1>3

(* Every step keeps every consumer in the know.                             *)
LEMMA ViewsStep == TreeInv /\ LinksOK /\ Unmixed /\ ViewsOK /\ [Next]_vars => ViewsOK' /\ Unmixed'
<1> SUFFICES ASSUME TreeInv, LinksOK, Unmixed, ViewsOK, [Next]_vars PROVE ViewsOK' /\ Unmixed'
  OBVIOUS
<1>1. layout' = layout
  <2>1. ASSUME NEW d \in Dirs, ScopeProducer(d) \/ Visit(d) PROVE layout' = layout
    BY <2>1 DEF ScopeProducer, Visit
  <2>2. ASSUME NEW b \in Broadcasts, Close(b) PROVE layout' = layout
    BY <2>2 DEF Close
  <2>3. ASSUME NEW b \in Broadcasts, NEW d \in Dirs, NEW h \in Handles,
               Publish(b, d, h) \/ Cleanup(b, d, h)
        PROVE  layout' = layout
    <3>1. CASE Publish(b, d, h)
      BY <3>1 DEF Publish
    <3>2. CASE Cleanup(b, d, h)
      BY <3>2 DEF Cleanup
    <3> QED BY <2>3, <3>1, <3>2
  <2>4. ASSUME NEW c \in Consumers, Select(c) \/ Join(c) \/ JoinRoot(c) PROVE layout' = layout
    BY <2>4 DEF Select, Join, JoinRoot
  <2>5. ASSUME NEW c \in Consumers, Joined(c) \/ Take(c) \/ Leave(c) PROVE layout' = layout
    BY <2>5 DEF Joined, Take, Leave
  <2>6. CASE UNCHANGED vars
    BY <2>6 DEF vars
  <2> QED BY <2>1, <2>2, <2>3, <2>4, <2>5, <2>6 DEF Next
<1>2. Unmixed'
  BY <1>1 DEF Unmixed
<1>3. ASSUME NEW d \in Dirs, ScopeProducer(d) PROVE ViewsOK'
  <2>1. PICK n \in Nodes : Entry(d, n) /\ nested' = [nested EXCEPT ![d] = n]
    BY <1>3 DEF ScopeProducer
  <2>2. UNCHANGED <<layout, active, phase, scan, pending, seen>>
    BY <1>3 DEF ScopeProducer, views
  <2>3. \A e \in Dirs : Lookup(e)' = Lookup(e)
    BY <2>1, <2>2, LinkLookup
  <2> QED BY <2>2, <2>3, LinkViews
<1>4. ASSUME NEW c \in Consumers, Select(c) PROVE ViewsOK'
  <2>1. layout.scope[c] \in Dirs
    BY <1>4, LayoutParts DEF TreeInv, Select
  <2>2. PICK n \in Nodes : Entry(layout.scope[c], n) /\ nested' = [nested EXCEPT ![layout.scope[c]] = n]
    BY <1>4 DEF Select
  <2>3. /\ UNCHANGED <<layout, active, scan, pending, seen>>
        /\ phase[c] = "new" /\ phase' = [phase EXCEPT ![c] = "selected"]
    BY <1>4 DEF Select
  <2>4. \A e \in Dirs : Lookup(e)' = Lookup(e)
    BY <2>1, <2>2, <2>3, LinkLookup
  <2>5. \A x \in Consumers : \/ phase'[x] = phase[x]
                             \/ phase[x] = "new" /\ phase'[x] = "selected"
    BY <2>3 DEF TreeInv, TypeOK
  <2> QED BY <2>3, <2>4, <2>5, LinkViews
<1>5. ASSUME NEW b \in Broadcasts, NEW d \in Dirs, NEW h \in Handles, Publish(b, d, h)
      PROVE  ViewsOK'
  <2>1. h \in layout.producers
    BY <1>5 DEF Publish
  <2> QED BY <1>5, <2>1, PublishIsRouteStep, RouteViews
<1>6. ASSUME UNCHANGED <<layout, tree, views>> PROVE ViewsOK'
  <2>1. \A d \in Dirs : Lookup(d)' = Lookup(d)
    BY <1>6 DEF tree, Lookup
  <2> QED BY <1>6, <2>1, LinkViews DEF views
<1>7. ASSUME NEW b \in Broadcasts, NEW d \in Dirs, NEW h \in Handles, Cleanup(b, d, h)
      PROVE  ViewsOK'
  <2>1. h \in layout.producers
    BY <1>7 DEF Cleanup, TreeInv, TasksOK
  <2>2. UNCHANGED <<layout, tree, views>> \/ \E n \in Nodes : \E a, s : RouteStep(d, h, n, a, s)
    BY <1>7, CleanupIsRouteStep
  <2> QED BY <1>6, <2>1, <2>2, RouteViews
<1>8. CASE (\E b \in Broadcasts : Close(b)) \/ UNCHANGED vars
  BY <1>2, <1>6, <1>8 DEF Close, vars, tree, views
<1> QED BY <1>2, <1>3, <1>4, <1>5, <1>7, <1>8, JoinViews, JoinRootViews, VisitViews, JoinedViews,
           TakeViews, LeaveViews DEF Next

(* At the start nobody has heard of anything.                               *)
LEMMA ViewsInit == Init => LinksOK /\ ViewsOK
<1> SUFFICES ASSUME Init PROVE LinksOK /\ ViewsOK
  OBVIOUS
<1>1. LinksOK
  BY NoneAssumption DEF Init, LinksOK
<1>2. ViewsOK
  BY DEF Init, ViewsOK, ViewOK, Blank
<1> QED BY <1>1, <1>2

(* Announces and unannounces of a path alternate for every consumer, for    *)
(* any number of broadcasts, publishes, consumers and paths, when producers *)
(* and consumers do not mix the two ways into the tree.                     *)
THEOREM AnnouncesToggle == Spec /\ Unmixed => []Toggles
<1>1. TreeInv /\ ViewsOK => Toggles
  <2> SUFFICES ASSUME TreeInv, ViewsOK, NEW c \in Consumers, NEW d \in Dirs
               PROVE  Legal(pending[c][d], seen[c][d])
    BY DEF Toggles, Legal
  <2>1. ViewOK(c, d) /\ phase[c] \in {"new", "selected", "joining", "live", "gone"}
    BY DEF ViewsOK, TreeInv, TypeOK
  <2>2. Blank(c, d) \/ Knows(c, d)
    BY <2>1 DEF ViewOK
  <2>3. Legal(Nothing, None)
    BY DEF Legal, Nothing
  <2>4. Blank(c, d) => Legal(pending[c][d], seen[c][d])
    BY <2>3 DEF Blank
  <2>5. Knows(c, d) => Legal(pending[c][d], seen[c][d])
    BY DEF Knows
  <2> QED BY <2>2, <2>4, <2>5
<1> QED BY TreeInit, TreeStep, LinksStep, ViewsInit, ViewsStep, <1>1, PTL DEF Spec

(* Under the same condition every live consumer ends up knowing exactly the *)
(* broadcast a lookup finds: coalescing loses nothing, a scan misses no     *)
(* path, and a consumer is never left with a path that was unlinked.  (A    *)
(* scoped producer beside a root consumer breaks it.)                       *)
THEOREM ConsumersCatchUp == Spec /\ Unmixed => []CaughtUp
<1>1. ViewsOK => CaughtUp
  BY DEF ViewsOK, ViewOK, Knows, CaughtUp
<1> QED BY TreeInit, TreeStep, LinksStep, ViewsInit, ViewsStep, <1>1, PTL DEF Spec
=============================================================================

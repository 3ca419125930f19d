---------------------------- MODULE OriginProofs ----------------------------
(***************************************************************************)
(* Proofs about the announce tree, for any number of paths, nodes,         *)
(* broadcasts and consumers, any hop counts and hashes.                    *)
(*                                                                         *)
(* TreeInv is inductive for every layout of handles: it says that nodes    *)
(* are never shared between paths, that a freed node is empty, that a      *)
(* node's routes are in order and that its consumers are those that refer  *)
(* to it.  OriginViewProofs goes on from here.                             *)
(***************************************************************************)
EXTENDS Origin, SequenceTheorems, NaturalsInduction, WellFoundedInduction, TLAPS

LessThan == {p \in Nat \X Nat : p[1] < p[2]}

(* A set of naturals has a least element.                                   *)
LEMMA LeastNat ==
    ASSUME NEW S \in SUBSET Nat, S # {}
    PROVE  \E x \in S : \A y \in S : x <= y
<1>1. IsWellFoundedOn(LessThan, Nat)
  BY NatLessThanWellFounded DEF OpToRel, LessThan
<1>2. PICK x \in S : \A y \in S : ~ (<<y, x>> \in LessThan)
  BY <1>1, WFMin
<1>3. ASSUME NEW y \in S PROVE x <= y
  <2>1. x \in Nat /\ y \in Nat /\ ~ (<<y, x>> \in LessThan)
    BY <1>2
  <2>2. ~ (y < x)
    BY <2>1 DEF LessThan
  <2> QED BY <2>1, <2>2
<1> QED BY <1>3

(* Best names a backup that no other beats.                                 *)
LEMMA BestIsBest ==
    ASSUME NEW s \in Seq(Broadcasts), s # <<>>
    PROVE  Best(s) \in DOMAIN s /\ \A j \in DOMAIN s : ~KeyLess(s[j], s[Best(s)])
<1>1. DOMAIN s \subseteq Nat /\ DOMAIN s # {} /\ \A i \in DOMAIN s : s[i] \in Broadcasts
  OBVIOUS
<1>2. \A b \in Broadcasts : Hops[b] \in Nat /\ Hash[b] \in Nat
  BY RouteAssumption
<1>3. PICK i \in DOMAIN s : \A j \in DOMAIN s : Hops[s[i]] <= Hops[s[j]]
  <2> DEFINE S == {Hops[s[i]] : i \in DOMAIN s}
  <2>1. S \in SUBSET Nat /\ S # {}
    BY <1>1, <1>2
  <2>2. PICK x \in S : \A y \in S : x <= y
    BY <2>1, LeastNat
  <2> QED BY <2>2
<1>4. PICK k \in DOMAIN s : /\ Hops[s[k]] = Hops[s[i]]
                            /\ \A j \in DOMAIN s : Hops[s[j]] = Hops[s[i]] => Hash[s[k]] <= Hash[s[j]]
  <2> DEFINE J == {j \in DOMAIN s : Hops[s[j]] = Hops[s[i]]}
             S == {Hash[s[j]] : j \in J}
  <2>1. S \in SUBSET Nat /\ S # {}
    BY <1>1, <1>2
  <2>2. PICK x \in S : \A y \in S : x <= y
    BY <2>1, LeastNat
  <2> QED BY <2>2
<1> DEFINE Top(j) == Hops[s[j]] = Hops[s[k]] /\ Hash[s[j]] = Hash[s[k]]
<1>5. PICK m \in DOMAIN s : Top(m) /\ \A j \in DOMAIN s : Top(j) => m <= j
  <2> DEFINE J == {j \in DOMAIN s : Top(j)}
  <2>1. J \in SUBSET Nat /\ J # {}
    BY <1>1
  <2>2. PICK x \in J : \A y \in J : x <= y
    BY <2>1, LeastNat
  <2> QED BY <2>2
<1>6. ASSUME NEW j \in DOMAIN s
      PROVE  ~KeyLess(s[j], s[m]) /\ (j < m => KeyLess(s[m], s[j]))
  <2>1. Hops[s[m]] \in Nat /\ Hops[s[j]] \in Nat /\ Hash[s[m]] \in Nat /\ Hash[s[j]] \in Nat
        /\ m \in Nat /\ j \in Nat
    BY <1>1, <1>2
  <2>2. Hops[s[m]] <= Hops[s[j]] /\ (Hops[s[j]] = Hops[s[m]] => Hash[s[m]] <= Hash[s[j]])
    BY <1>3, <1>4, <1>5
  <2>3. Hops[s[j]] = Hops[s[m]] /\ Hash[s[j]] = Hash[s[m]] => m <= j
    BY <1>5
  <2> QED BY <2>1, <2>2, <2>3 DEF KeyLess
<1> QED BY <1>6 DEF Best

(* RemoveAt takes out one element and keeps the others.                     *)
LEMMA RemoveAtKeeps ==
    ASSUME NEW S, NEW s \in Seq(S), NEW i \in DOMAIN s
    PROVE  /\ RemoveAt(s, i) \in Seq(S)
           /\ Range(RemoveAt(s, i)) \subseteq Range(s)
           /\ \A x \in Range(s) : x # s[i] => x \in Range(RemoveAt(s, i))
<1> DEFINE n == Len(s)
           r == RemoveAt(s, i)
<1>1. n \in Nat /\ i \in 1..n /\ DOMAIN s = 1..n
  OBVIOUS
<1>2. r \in Seq(S) /\ Len(r) = n - 1
  BY <1>1 DEF RemoveAt
<1>3. ASSUME NEW j \in 1..(n - 1) PROVE r[j] = IF j < i THEN s[j] ELSE s[j + 1]
  <2> DEFINE front == SubSeq(s, 1, i - 1)
             back == SubSeq(s, i + 1, n)
  <2>1. front \in Seq(S) /\ Len(front) = i - 1 /\ \A k \in 1..(i - 1) : front[k] = s[k]
    BY <1>1
  <2>2. back \in Seq(S) /\ Len(back) = n - i /\ \A k \in 1..(n - i) : back[k] = s[k + i]
    <3>1. back \in Seq(S) /\ Len(back) = n - i
      BY <1>1
    <3>2. ASSUME NEW k \in 1..(n - i) PROVE back[k] = s[k + i]
      BY <1>1, <3>2
    <3> QED BY <3>1, <3>2
  <2>3. r = front \o back
    BY DEF RemoveAt
  <2> HIDE DEF front, back, r
  <2>4. CASE j < i
    BY <1>1, <2>1, <2>2, <2>3, <2>4
  <2>5. CASE ~ (j < i)
    <3>1. j - Len(front) \in 1..(n - i) /\ (j - Len(front)) + i = j + 1
      BY <1>1, <2>1, <2>5
    <3>2. r[j] = back[j - Len(front)]
      <4>1. Len(front) \in Nat /\ Len(back) \in Nat /\ ~ (j <= Len(front))
            /\ j \in 1..(Len(front) + Len(back))
        BY <1>1, <2>1, <2>2, <2>5
      <4> QED BY <2>1, <2>2, <2>3, <4>1, ConcatProperties
    <3>3. back[j - Len(front)] = s[j + 1]
      BY <2>2, <3>1
    <3> QED BY <2>5, <3>2, <3>3
  <2> QED BY <2>4, <2>5
<1>4. DOMAIN r = 1..(n - 1)
  BY <1>2, <1>1
<1>5. ASSUME NEW j \in 1..n, j # i PROVE s[j] \in Range(r)
  <2>1. CASE j < i
    BY <1>1, <1>3, <1>4, <2>1 DEF Range
  <2>2. CASE j > i
    <3>1. j - 1 \in 1..(n - 1) /\ ~ (j - 1 < i)
      BY <1>1, <2>2
    <3>2. r[j - 1] = s[j]
      BY <1>3, <3>1
    <3> QED BY <3>1, <3>2, <1>4 DEF Range
  <2> QED BY <1>1, <1>5, <2>1, <2>2
<1>6. Range(r) \subseteq Range(s)
  BY <1>1, <1>3, <1>4 DEF Range
<1>7. ASSUME NEW x \in Range(s), x # s[i] PROVE x \in Range(r)
  BY <1>1, <1>5, <1>7 DEF Range
<1> QED BY <1>2, <1>6, <1>7

(* Position finds a queued broadcast.                                       *)
LEMMA PositionFinds ==
    ASSUME NEW S, NEW s \in Seq(S), NEW b \in Range(s)
    PROVE  Position(s, b) \in DOMAIN s /\ s[Position(s, b)] = b
<1> DEFINE I == {i \in DOMAIN s : s[i] = b}
<1>1. I \in SUBSET Nat /\ I # {}
  BY DEF Range
<1>2. PICK i \in I : \A j \in I : i <= j
  BY <1>1, LeastNat
<1>3. ASSUME NEW j \in 1..(i - 1) PROVE s[j] # b
  BY <1>2
<1> QED BY <1>2, <1>3 DEF Position

(* What a sequence holds after an append.                                   *)
LEMMA AppendHolds ==
    ASSUME NEW S, NEW s \in Seq(S), NEW b \in S
    PROVE  Append(s, b) \in Seq(S) /\ Range(Append(s, b)) = Range(s) \cup {b}
<1> DEFINE n == Len(s)
           r == Append(s, b)
<1>1. n \in Nat /\ DOMAIN s = 1..n
  OBVIOUS
<1>2. r \in Seq(S) /\ DOMAIN r = 1..(n + 1) /\ r[n + 1] = b /\ \A j \in 1..n : r[j] = s[j]
  OBVIOUS
<1> HIDE DEF n, r
<1>3. Range(r) \subseteq Range(s) \cup {b}
  <2> SUFFICES ASSUME NEW j \in 1..(n + 1) PROVE r[j] \in Range(s) \cup {b}
    BY <1>2 DEF Range
  <2>1. j \in 1..n \/ j = n + 1
    BY <1>1
  <2> QED BY <1>1, <1>2, <2>1 DEF Range
<1>4. Range(s) \cup {b} \subseteq Range(r)
  <2>1. \A j \in 1..n : j \in 1..(n + 1)
    BY <1>1
  <2>2. n + 1 \in 1..(n + 1)
    BY <1>1
  <2> QED BY <1>1, <1>2, <2>1, <2>2 DEF Range
<1> QED BY <1>2, <1>3, <1>4 DEF r

-----------------------------------------------------------------------------
(* route_key orders the routes: KeyLess is a strict weak order.             *)
LEMMA KeyOrder ==
    ASSUME NEW a \in Broadcasts, NEW b \in Broadcasts, NEW x \in Broadcasts
    PROVE  /\ KeyLess(a, b) => ~KeyLess(b, a)
           /\ KeyLess(a, b) /\ ~KeyLess(x, b) => ~KeyLess(x, a)
<1>1. /\ Hops[a] \in Nat /\ Hops[b] \in Nat /\ Hops[x] \in Nat
      /\ Hash[a] \in Nat /\ Hash[b] \in Nat /\ Hash[x] \in Nat
  BY RouteAssumption
<1> QED BY <1>1 DEF KeyLess

(* The change of one queued update when the active route of its path goes   *)
(* from old to new.                                                         *)
Update(u, old, new) ==
    IF old = new THEN u
    ELSE IF old = None THEN ApplyAnnounce(u, new)
    ELSE IF new = None THEN ApplyUnannounce(u)
    ELSE ApplyAnnounce(ApplyUnannounce(u), new)

Known == Broadcasts \cup {None}

(* Announces of a path alternate with unannounces, as Toggles says.         *)
Legal(u, b) ==
    /\ u.kind = "announce" => b = None
    /\ u.kind \in {"unannounce", "replace"} => b # None

(* The shapes of a queued update.                                           *)
LEMMA UpdateShape ==
    ASSUME NEW u \in PendingUpdate(Broadcasts)
    PROVE  /\ u.kind \in {"none", "announce", "unannounce", "replace"}
           /\ u.kind = "none" => u = Nothing
           /\ u.kind = "unannounce" => u.broadcast = None
           /\ u.kind \in {"announce", "replace"} => u.broadcast \in Broadcasts
BY DEF PendingUpdate, Nothing, Unannounce, Announce, UnannounceAnnounce

(* What the queue makes of an announce, an unannounce and a take is again a *)
(* queued update.                                                           *)
LEMMA ApplyTypes ==
    ASSUME NEW u \in PendingUpdate(Broadcasts), NEW b \in Broadcasts
    PROVE  /\ ApplyAnnounce(u, b) \in PendingUpdate(Broadcasts)
           /\ ApplyUnannounce(u) \in PendingUpdate(Broadcasts)
BY DEF PendingUpdate, ApplyAnnounce, ApplyUnannounce, Nothing, Unannounce, Announce,
       UnannounceAnnounce

(* What take hands out and leaves is of the right type.                     *)
LEMMA TakeTypes ==
    ASSUME NEW u \in PendingUpdate(Broadcasts)
    PROVE  Rest(u) \in PendingUpdate(Broadcasts) /\ Delivered(u) \in Known
<1>1. u.kind \in {"announce", "replace"} => u.broadcast \in Broadcasts
  BY UpdateShape
<1> QED BY <1>1 DEF PendingUpdate, Rest, Delivered, Known, Nothing, Announce

(* An empty entry is a queued update.                                       *)
LEMMA NothingTypes == Nothing \in PendingUpdate(Broadcasts)
BY DEF PendingUpdate

(* So is an update after a change of the active route.                      *)
LEMMA UpdateTypes ==
    ASSUME NEW u \in PendingUpdate(Broadcasts), NEW old \in Known, NEW new \in Known
    PROVE  Update(u, old, new) \in PendingUpdate(Broadcasts)
<1>1. ApplyUnannounce(u) \in PendingUpdate(Broadcasts)
  BY DEF PendingUpdate, ApplyUnannounce, Nothing, Unannounce
<1>2. CASE new = None
  BY <1>1, <1>2 DEF Update
<1>3. CASE new \in Broadcasts
  BY <1>1, <1>3, ApplyTypes DEF Update
<1> QED BY <1>2, <1>3 DEF Known

(* Coalescing is right: a consumer that would end up knowing old ends up    *)
(* knowing new, and announces and unannounces still alternate.              *)
LEMMA UpdateSettles ==
    ASSUME NEW u \in PendingUpdate(Broadcasts), NEW b \in Known, NEW old \in Known,
           NEW new \in Known, Legal(u, b), Settled(u, b) = old
    PROVE  Legal(Update(u, old, new), b) /\ Settled(Update(u, old, new), b) = new
<1>1. None \notin Broadcasts
  BY NoneAssumption
<1>2. /\ u.kind \in {"none", "announce", "unannounce", "replace"}
      /\ u.kind = "unannounce" => u.broadcast = None
      /\ u.kind \in {"announce", "replace"} => u.broadcast \in Broadcasts
  BY UpdateShape
<1>3. CASE old = new
  BY <1>3 DEF Update
<1>4. CASE old # new /\ old = None
  BY <1>1, <1>2, <1>4 DEF Update, Legal, Settled, ApplyAnnounce, Announce, UnannounceAnnounce
<1>5. CASE old # new /\ old # None /\ new = None
  BY <1>1, <1>2, <1>5 DEF Update, Legal, Settled, ApplyUnannounce, Nothing, Unannounce
<1>6. CASE old # new /\ old # None /\ new # None
  <2>1. Update(u, old, new) = IF u.kind = "announce" THEN Announce(new) ELSE UnannounceAnnounce(new)
    BY <1>6 DEF Update, ApplyAnnounce, ApplyUnannounce, Nothing, Unannounce
  <2> QED BY <1>1, <1>2, <1>6, <2>1 DEF Legal, Settled, Announce, UnannounceAnnounce
<1> QED BY <1>3, <1>4, <1>5, <1>6

(* Taking an update changes nothing of what the consumer ends up knowing.   *)
LEMMA TakeSettles ==
    ASSUME NEW u \in PendingUpdate(Broadcasts), NEW b \in Known, u # Nothing, Legal(u, b)
    PROVE  Legal(Rest(u), Delivered(u)) /\ Settled(Rest(u), Delivered(u)) = Settled(u, b)
<1>1. None \notin Broadcasts
  BY NoneAssumption
<1>2. /\ u.kind \in {"announce", "unannounce", "replace"}
      /\ u.kind = "unannounce" => u.broadcast = None
      /\ u.kind \in {"announce", "replace"} => u.broadcast \in Broadcasts
  BY UpdateShape
<1> QED BY <1>1, <1>2 DEF Legal, Settled, Rest, Delivered, Nothing, Announce

-----------------------------------------------------------------------------
(* The invariant of the tree, for every layout.                             *)

(* A path's node, by its link or by a scoped producer.                      *)
Refers(d, n) == nested[d] = n \/ handle[d] = n

(* The routes of a node.                                                    *)
Contents(n) == {active[n]} \cup Range(backup[n])

(* A scan belongs to the one consumer that is joining, and what it has yet  *)
(* to visit stays linked: the root's lock is held.                          *)
ScanOK ==
    \/ scan = NoScan
    \/ /\ scan \in [consumer : Consumers, left : SUBSET Dirs]
       /\ phase[scan.consumer] = "joining"
       /\ \A d \in scan.left : nested[d] # None

HomeOK ==
    \A c \in Consumers :
        /\ phase[c] \in {"new", "gone"} => home[c] = None
        /\ phase[c] = "selected" =>
             /\ c \in DOMAIN layout.scope
             /\ layout.scope[c] \in Dirs /\ home[c] \in Nodes
        /\ phase[c] = "joining" =>
             /\ c \in DOMAIN layout.scope
             /\ layout.scope[c] = Root /\ home[c] = Root /\ scan.consumer = c
        /\ phase[c] = "live" =>
             /\ c \in DOMAIN layout.scope
             /\ \/ layout.scope[c] = Root /\ home[c] = Root
                \/ layout.scope[c] \in Dirs /\ home[c] \in Nodes

(* A node's consumers are the live ones that refer to it.                   *)
ListenOK ==
    \A n \in Nodes \cup {Root}, c \in Consumers :
        c \in listeners[n] <=> phase[c] = "live" /\ home[c] = n

(* Two paths never share a node.                                            *)
NodesApart ==
    \A d, e \in Dirs, n \in Nodes : Refers(d, n) /\ Refers(e, n) => d = e

(* A node's routes are in order, and a node with a route is in use.         *)
RouteOK(a, s) ==
    /\ a # None => a \in layout.broadcasts
    /\ \A b \in Range(s) : b \in layout.broadcasts /\ a # None /\ ~KeyLess(b, a)

RoutesOK == \A n \in Nodes : RouteOK(active[n], backup[n])

InUse == \A n \in Nodes : active[n] # None => \E d \in Dirs : Refers(d, n)

TasksOK ==
    \A b \in Broadcasts, d \in Dirs, h \in Handles : tasks[<<b, d, h>>] > 0 =>
        /\ b \in layout.broadcasts /\ h \in layout.producers
        /\ h = "scoped" => handle[d] # None

TreeInv ==
    /\ TypeOK /\ ScanOK /\ HomeOK /\ ListenOK
    /\ NodesApart /\ RoutesOK /\ InUse /\ TasksOK

(* A step that leaves the links, the held nodes and the routes alone keeps  *)
(* what is said of them.                                                    *)
LEMMA SameNodes ==
    ASSUME TreeInv, UNCHANGED <<layout, nested, handle, active, backup>>
    PROVE  NodesApart' /\ RoutesOK' /\ InUse'
<1>1. NodesApart'
  BY DEF TreeInv, NodesApart, Refers
<1>2. RoutesOK'
  BY DEF TreeInv, RoutesOK, RouteOK
<1>3. InUse'
  BY DEF TreeInv, InUse, Refers
<1> QED BY <1>1, <1>2, <1>3

(* The same for the tasks that wait to remove a route.                      *)
LEMMA SameTasks ==
    ASSUME TreeInv, UNCHANGED <<layout, handle, tasks>>
    PROVE  TasksOK'
BY DEF TreeInv, TasksOK

(* The same for the consumers, their nodes and the scan.                    *)
LEMMA SameConsumers ==
    ASSUME TreeInv, UNCHANGED <<layout, nested, listeners, phase, home, scan>>
    PROVE  ScanOK' /\ HomeOK' /\ ListenOK'
<1>1. ScanOK'
  BY DEF TreeInv, ScanOK, NoScan
<1>2. HomeOK'
  BY DEF TreeInv, HomeOK
<1>3. ListenOK'
  BY DEF TreeInv, ListenOK
<1> QED BY <1>1, <1>2, <1>3

-----------------------------------------------------------------------------
(* What publish and remove do at a leaf: the routes become a and s, and     *)
(* whoever listens is told of the change.                                   *)
Routed(n, d, a, s) ==
    /\ a \in Known /\ s \in Seq(Broadcasts) /\ RouteOK(a, s)
    /\ active' = [active EXCEPT ![n] = a]
    /\ backup' = [backup EXCEPT ![n] = s]
    /\ pending' = [c \in Consumers |->
         IF c \in Told(n) THEN [pending[c] EXCEPT ![d] = Update(pending[c][d], active[n], a)]
                          ELSE pending[c]]

(* Nobody needs to be told when the active route stays.                     *)
LEMMA NothingToTell ==
    ASSUME TypeOK, NEW n \in Nodes, NEW d \in Dirs, UNCHANGED <<active, pending>>
    PROVE  /\ active' = [active EXCEPT ![n] = active[n]]
           /\ pending' = [c \in Consumers |->
                IF c \in Told(n)
                THEN [pending[c] EXCEPT ![d] = Update(pending[c][d], active[n], active[n])]
                ELSE pending[c]]
<1>1. pending \in [Consumers -> [Dirs -> PendingUpdate(Broadcasts)]] /\ active \in [Nodes -> Known]
  BY DEF TypeOK, Known
<1>2. ASSUME NEW c \in Consumers
      PROVE  [pending[c] EXCEPT ![d] = Update(pending[c][d], active[n], active[n])] = pending[c]
  BY <1>1 DEF Update
<1>3. pending = [c \in Consumers |->
                IF c \in Told(n)
                THEN [pending[c] EXCEPT ![d] = Update(pending[c][d], active[n], active[n])]
                ELSE pending[c]]
  BY <1>1, <1>2
<1> QED BY <1>1, <1>3

(* The publish of b at a leaf adds b to the routes and loses none.          *)
LEMMA PublishRoutes ==
    ASSUME TypeOK, RoutesOK, NEW n \in Nodes, NEW d \in Dirs, NEW b \in Broadcasts,
           b \in layout.broadcasts, PublishAt(n, d, b)
    PROVE  \E a, s : /\ Routed(n, d, a, s) /\ a # None
                     /\ {a} \cup Range(s) = {b} \cup (Contents(n) \ {None})
<1>1. /\ active[n] \in Known /\ backup[n] \in Seq(Broadcasts) /\ RouteOK(active[n], backup[n])
      /\ b \in Known /\ None \notin Broadcasts /\ Range(backup[n]) \subseteq Broadcasts
      /\ active \in [Nodes -> Known] /\ backup \in [Nodes -> Seq(Broadcasts)]
  BY NoneAssumption DEF TypeOK, RoutesOK, Known, Range
<1>2. CASE active[n] = None /\ active' = [active EXCEPT ![n] = b]
           /\ TellAnnounce(n, d, b) /\ UNCHANGED backup
  <2>1. Range(backup[n]) = {}
    BY <1>1, <1>2 DEF RouteOK
  <2>2. \A c \in Consumers :
          Update(pending[c][d], active[n], b) = ApplyAnnounce(pending[c][d], b)
    BY <1>1, <1>2 DEF Update
  <2>3. backup' = [backup EXCEPT ![n] = backup[n]] /\ RouteOK(b, backup[n])
    BY <1>1, <1>2, <2>1 DEF RouteOK
  <2>4. Routed(n, d, b, backup[n])
    BY <1>1, <1>2, <2>2, <2>3 DEF Routed, TellAnnounce, Tell
  <2>5. {b} \cup Range(backup[n]) = {b} \cup (Contents(n) \ {None})
    BY <1>2, <2>1 DEF Contents
  <2> QED BY <1>1, <2>4, <2>5
<1>3. CASE active[n] # None /\ b \in {active[n]} \cup Range(backup[n])
           /\ UNCHANGED <<active, backup, pending>>
  <2>1. Routed(n, d, active[n], backup[n])
    BY <1>1, <1>3, NothingToTell DEF Routed
  <2>2. {active[n]} \cup Range(backup[n]) = {b} \cup (Contents(n) \ {None})
    BY <1>1, <1>3 DEF Contents
  <2> QED BY <1>3, <2>1, <2>2
<1>4. CASE /\ active[n] # None /\ b \notin {active[n]} \cup Range(backup[n])
           /\ KeyLess(b, active[n])
           /\ active' = [active EXCEPT ![n] = b]
           /\ backup' = [backup EXCEPT ![n] = Append(@, active[n])]
           /\ TellReannounce(n, d, b)
  <2> DEFINE s == Append(backup[n], active[n])
  <2>1. active[n] \in Broadcasts
    BY <1>1, <1>4 DEF Known
  <2>2. s \in Seq(Broadcasts) /\ Range(s) = Range(backup[n]) \cup {active[n]}
    BY <1>1, <2>1, AppendHolds
  <2>3. RouteOK(b, s)
    <3>1. \A x \in Range(backup[n]) : ~KeyLess(x, b)
      BY <1>1, <1>4, <2>1, KeyOrder DEF RouteOK
    <3>2. ~KeyLess(active[n], b)
      BY <1>4, <2>1, KeyOrder
    <3> QED BY <1>1, <1>4, <2>1, <2>2, <3>1, <3>2 DEF RouteOK
  <2>4. \A c \in Consumers : Update(pending[c][d], active[n], b)
                             = ApplyAnnounce(ApplyUnannounce(pending[c][d]), b)
    BY <1>1, <1>4 DEF Update
  <2>5. backup' = [backup EXCEPT ![n] = s]
    BY <1>4
  <2>6. Routed(n, d, b, s)
    BY <1>1, <1>4, <2>2, <2>3, <2>4, <2>5 DEF Routed, TellReannounce, Tell
  <2>7. {b} \cup Range(s) = {b} \cup (Contents(n) \ {None})
    BY <1>1, <2>1, <2>2 DEF Contents
  <2> QED BY <1>1, <2>6, <2>7
<1>5. CASE /\ active[n] # None /\ b \notin {active[n]} \cup Range(backup[n])
           /\ ~KeyLess(b, active[n])
           /\ backup' = [backup EXCEPT ![n] = Append(@, b)]
           /\ UNCHANGED <<active, pending>>
  <2> DEFINE s == Append(backup[n], b)
  <2>1. s \in Seq(Broadcasts) /\ Range(s) = Range(backup[n]) \cup {b}
    BY <1>1, AppendHolds
  <2>2. RouteOK(active[n], s)
    BY <1>1, <1>5, <2>1 DEF RouteOK
  <2>3. backup' = [backup EXCEPT ![n] = s]
    BY <1>5
  <2>4. Routed(n, d, active[n], s)
    BY <1>1, <1>5, <2>1, <2>2, <2>3, NothingToTell DEF Routed
  <2>5. {active[n]} \cup Range(s) = {b} \cup (Contents(n) \ {None})
    BY <1>1, <1>5, <2>1 DEF Contents
  <2> QED BY <1>5, <2>4, <2>5
<1> QED BY <1>2, <1>3, <1>4, <1>5 DEF PublishAt

(* The assertion of remove fails only if b is neither active nor queued     *)
(* while another route is active.                                           *)
Asserted(n, b) ==
    \/ panicked' = panicked
    \/ panicked' = TRUE /\ active[n] # None /\ b \notin Contents(n)

(* A remove at a leaf does what Asserted says.                              *)
LEMMA RemoveAsserts ==
    ASSUME TypeOK, NEW n \in Nodes, NEW d, NEW b, RemoveAtLeaf(n, d, b)
    PROVE  Asserted(n, b)
BY DEF RemoveAtLeaf, Contents, Asserted

(* The remove of b at a leaf loses no route but b.                          *)
LEMMA RemoveRoutes ==
    ASSUME TypeOK, RoutesOK, NEW n \in Nodes, NEW d \in Dirs, NEW b \in Broadcasts,
           RemoveAtLeaf(n, d, b)
    PROVE  \E a, s : /\ Routed(n, d, a, s)
                     /\ {a} \cup Range(s) \subseteq Contents(n) \cup {None}
                     /\ Contents(n) \ {None, b} \subseteq {a} \cup Range(s)
<1>1. /\ active[n] \in Known /\ backup[n] \in Seq(Broadcasts) /\ RouteOK(active[n], backup[n])
      /\ None \notin Broadcasts /\ Range(backup[n]) \subseteq Broadcasts /\ None \in Known
      /\ active \in [Nodes -> Known] /\ backup \in [Nodes -> Seq(Broadcasts)]
  BY NoneAssumption DEF TypeOK, RoutesOK, Known, Range
<1> DEFINE Goal(a, s) == /\ Routed(n, d, a, s)
                         /\ {a} \cup Range(s) \subseteq Contents(n) \cup {None}
                         /\ Contents(n) \ {None, b} \subseteq {a} \cup Range(s)
<1> SUFFICES \E a, s : Goal(a, s)
  OBVIOUS
<1>3. CASE UNCHANGED <<active, backup, pending>>
  <2>1. Routed(n, d, active[n], backup[n])
    BY <1>1, <1>3, NothingToTell DEF Routed
  <2> QED BY <2>1 DEF Contents
<1>4. CASE /\ active[n] # None /\ b \in Range(backup[n])
           /\ backup' = [backup EXCEPT ![n] = RemoveAt(@, Position(@, b))]
           /\ UNCHANGED <<active, pending>>
  <2> DEFINE s == RemoveAt(backup[n], Position(backup[n], b))
  <2>1. s \in Seq(Broadcasts) /\ Range(s) \subseteq Range(backup[n])
        /\ \A x \in Range(backup[n]) : x # b => x \in Range(s)
    BY <1>1, <1>4, PositionFinds, RemoveAtKeeps
  <2>2. backup' = [backup EXCEPT ![n] = s]
    BY <1>4
  <2> HIDE DEF s
  <2>3. RouteOK(active[n], s)
    BY <1>1, <2>1 DEF RouteOK
  <2>4. Routed(n, d, active[n], s)
    BY <1>1, <1>4, <2>1, <2>2, <2>3, NothingToTell DEF Routed
  <2>5. Goal(active[n], s)
    BY <2>1, <2>4 DEF Contents
  <2> QED BY <2>5
<1>5. CASE /\ active[n] = b /\ b \notin Range(backup[n]) /\ backup[n] # <<>>
           /\ active' = [active EXCEPT ![n] = backup[n][Best(backup[n])]]
           /\ backup' = [backup EXCEPT ![n] = RemoveAt(@, Best(@))]
           /\ TellReannounce(n, d, active'[n])
  <2> DEFINE i == Best(backup[n])
             a == backup[n][i]
             s == RemoveAt(backup[n], i)
  <2>1. i \in DOMAIN backup[n] /\ \A j \in DOMAIN backup[n] : ~KeyLess(backup[n][j], a)
    BY <1>1, <1>5, BestIsBest
  <2>2. s \in Seq(Broadcasts) /\ Range(s) \subseteq Range(backup[n])
        /\ \A x \in Range(backup[n]) : x # a => x \in Range(s)
    BY <1>1, <2>1, RemoveAtKeeps
  <2>3. a \in Range(backup[n]) /\ a \in Broadcasts /\ a # b
        /\ \A x \in Range(backup[n]) : ~KeyLess(x, a)
    BY <1>1, <1>5, <2>1 DEF Range
  <2>4. backup' = [backup EXCEPT ![n] = s] /\ active' = [active EXCEPT ![n] = a] /\ active'[n] = a
    BY <1>1, <1>5
  <2> HIDE DEF i, a, s
  <2>5. RouteOK(a, s)
    BY <1>1, <2>2, <2>3 DEF RouteOK
  <2>6. \A c \in Consumers : Update(pending[c][d], active[n], a)
                             = ApplyAnnounce(ApplyUnannounce(pending[c][d]), a)
    BY <1>1, <1>5, <2>3 DEF Update
  <2>7. TellReannounce(n, d, a)
    BY <1>5, <2>4
  <2>8. Routed(n, d, a, s)
    BY <2>2, <2>3, <2>4, <2>5, <2>6, <2>7 DEF Routed, TellReannounce, Tell, Known
  <2>9. Goal(a, s)
    BY <1>5, <2>2, <2>3, <2>8 DEF Contents
  <2> QED BY <2>9
<1>6. CASE /\ active[n] = b /\ b \notin Range(backup[n]) /\ backup[n] = <<>>
           /\ active' = [active EXCEPT ![n] = None]
           /\ TellUnannounce(n, d)
           /\ UNCHANGED backup
  <2>1. Range(backup[n]) = {}
    BY <1>6 DEF Range
  <2>2. RouteOK(None, backup[n])
    BY <2>1 DEF RouteOK
  <2>3. \A c \in Consumers : Update(pending[c][d], active[n], None) = ApplyUnannounce(pending[c][d])
    BY <1>1, <1>6 DEF Update
  <2>4. Routed(n, d, None, backup[n])
    BY <1>1, <1>6, <2>2, <2>3 DEF Routed, TellUnannounce, Tell
  <2>5. Goal(None, backup[n])
    BY <1>6, <2>1, <2>4 DEF Contents
  <2> QED BY <2>5
<1> QED BY <1>3, <1>4, <1>5, <1>6 DEF RemoveAtLeaf

-----------------------------------------------------------------------------
(* A node that nobody refers to is empty: entry may make a new one of it.   *)
LEMMA FreeIsEmpty ==
    ASSUME TreeInv, NEW n \in Nodes, Free(n)
    PROVE  /\ active[n] = None /\ listeners[n] = {}
           /\ \A d \in Dirs : ~Refers(d, n)
<1>1. \A d \in Dirs : ~Refers(d, n)
  BY DEF Free, Refers
<1>2. active[n] = None
  BY <1>1 DEF TreeInv, InUse
<1>3. listeners[n] \subseteq Consumers
  BY DEF TreeInv, TypeOK
<1>4. listeners[n] = {}
  BY <1>3 DEF TreeInv, ListenOK, Free
<1> QED BY <1>1, <1>2, <1>4

(* entry links a node that is new or already the path's.                    *)
LEMMA EntryLinks ==
    ASSUME TreeInv, NEW d \in Dirs, NEW n \in Nodes, Entry(d, n),
           nested' = [nested EXCEPT ![d] = n]
    PROVE  /\ nested' \in [Dirs -> Nodes \cup {None}] /\ nested'[d] = n
           /\ \A e \in Dirs : nested'[e] # nested[e] =>
                e = d /\ nested[d] = None /\ Free(n)
           /\ \A e \in Dirs, m \in Nodes :
                nested'[e] = m <=> nested[e] = m \/ (e = d /\ m = n)
           /\ \A e \in Dirs : nested[e] = n \/ handle[e] = n => e = d
<1>1. nested \in [Dirs -> Nodes \cup {None}] /\ None \notin Nodes
  BY NoneAssumption DEF TreeInv, TypeOK
<1>2. CASE nested[d] = None
  <2>1. Free(n)
    BY <1>2 DEF Entry
  <2> QED BY <1>1, <1>2, <2>1 DEF Free
<1>3. CASE nested[d] # None
  <2>1. nested[d] = n /\ nested' = nested
    BY <1>1, <1>3 DEF Entry
  <2>2. \A e \in Dirs : nested[e] = n \/ handle[e] = n => e = d
    BY <2>1 DEF TreeInv, NodesApart, Refers
  <2> QED BY <1>1, <2>1, <2>2
<1> QED BY <1>2, <1>3

(* One critical section of publish or remove at the node of a path: reached *)
(* from the root, which may unlink it when it is empty, or from a handle.   *)
RouteStep(d, h, n, a, s) ==
    /\ Routed(n, d, a, s)
    /\ \/ /\ h = "root" /\ RootFree /\ Entry(d, n)
          /\ \/ nested' = [nested EXCEPT ![d] = n] /\ (a = None => nested[d] = n)
             \/ /\ a = None /\ listeners[n] = {} /\ nested[d] = n
                /\ nested' = [nested EXCEPT ![d] = None]
       \/ h = "scoped" /\ handle[d] = n /\ nested' = nested
    /\ UNCHANGED <<layout, listeners, handle, phase, home, scan, seen>>

(* publish_broadcast is such a step ...                                     *)
LEMMA PublishIsRouteStep ==
    ASSUME TreeInv, NEW b \in Broadcasts, NEW d \in Dirs, NEW h \in Handles, Publish(b, d, h)
    PROVE  \E n \in Nodes : \E a, s :
             /\ RouteStep(d, h, n, a, s) /\ a # None
             /\ {a} \cup Range(s) = {b} \cup (Contents(n) \ {None})
             /\ h = "root" => nested'[d] = n
             /\ h = "scoped" => handle[d] = n
<1>1. nested \in [Dirs -> Nodes \cup {None}]
  BY DEF TreeInv, TypeOK
<1>2. PICK n \in Nodes : /\ Reach(d, h, n)
                         /\ nested' = IF h = "root" THEN [nested EXCEPT ![d] = n] ELSE nested
                         /\ PublishAt(n, d, b)
  BY DEF Publish
<1>3. PICK a, s : /\ Routed(n, d, a, s) /\ a # None
                  /\ {a} \cup Range(s) = {b} \cup (Contents(n) \ {None})
  BY <1>2, PublishRoutes DEF TreeInv, Publish
<1>4. RouteStep(d, h, n, a, s)
  BY <1>2, <1>3 DEF RouteStep, Reach, Publish
<1>5. (h = "root" => nested'[d] = n) /\ (h = "scoped" => handle[d] = n)
  BY <1>1, <1>2 DEF Reach
<1> QED BY <1>3, <1>4, <1>5

(* ... and so is a cleanup task, unless it finds its path unlinked.         *)
LEMMA CleanupIsRouteStep ==
    ASSUME TreeInv, NEW b \in Broadcasts, NEW d \in Dirs, NEW h \in Handles, Cleanup(b, d, h)
    PROVE  \/ /\ h = "root" /\ nested[d] = None
              /\ UNCHANGED <<layout, tree, views, panicked>>
           \/ \E n \in Nodes : \E a, s :
                /\ RouteStep(d, h, n, a, s)
                /\ {a} \cup Range(s) \subseteq Contents(n) \cup {None}
                /\ Contents(n) \ {None, b} \subseteq {a} \cup Range(s)
                /\ n = IF h = "root" THEN nested[d] ELSE handle[d]
                /\ nested'[d] # nested[d] => a = None
                /\ Asserted(n, b)
<1>1. /\ nested \in [Dirs -> Nodes \cup {None}] /\ handle \in [Dirs -> Nodes \cup {None}]
      /\ active \in [Nodes -> Known] /\ None \notin Nodes /\ tasks[<<b, d, h>>] > 0
  BY NoneAssumption DEF TreeInv, TypeOK, Known, Cleanup
<1>2. CASE h = "root" /\ nested[d] = None
  BY <1>2 DEF Cleanup, tree, views
<1>3. CASE h = "root" /\ nested[d] # None
  <2>1. /\ RemoveAtLeaf(nested[d], d, b) /\ RootFree /\ nested[d] \in Nodes
        /\ nested' = IF active'[nested[d]] = None /\ listeners[nested[d]] = {}
                     THEN [nested EXCEPT ![d] = None] ELSE nested
    BY <1>1, <1>3 DEF Cleanup
  <2>2. PICK a, s : /\ Routed(nested[d], d, a, s)
                    /\ {a} \cup Range(s) \subseteq Contents(nested[d]) \cup {None}
                    /\ Contents(nested[d]) \ {None, b} \subseteq {a} \cup Range(s)
    BY <2>1, RemoveRoutes DEF TreeInv
  <2>3. Asserted(nested[d], b)
    BY <2>1, RemoveAsserts DEF TreeInv
  <2>4. active'[nested[d]] = a
    BY <1>1, <2>1, <2>2 DEF Routed
  <2>5. /\ Entry(d, nested[d]) /\ nested = [nested EXCEPT ![d] = nested[d]]
        /\ nested'[d] # nested[d] => a = None
    BY <1>1, <1>3, <2>1, <2>4 DEF Entry
  <2>6. RouteStep(d, h, nested[d], a, s)
    BY <1>3, <2>1, <2>2, <2>4, <2>5 DEF RouteStep, Cleanup
  <2> QED BY <1>3, <2>1, <2>2, <2>3, <2>5, <2>6
<1>4. CASE h = "scoped"
  <2>1. RemoveAtLeaf(handle[d], d, b) /\ handle[d] \in Nodes /\ nested' = nested
    BY <1>1, <1>4 DEF Cleanup, TreeInv, TasksOK
  <2>2. PICK a, s : /\ Routed(handle[d], d, a, s)
                    /\ {a} \cup Range(s) \subseteq Contents(handle[d]) \cup {None}
                    /\ Contents(handle[d]) \ {None, b} \subseteq {a} \cup Range(s)
    BY <2>1, RemoveRoutes DEF TreeInv
  <2>3. Asserted(handle[d], b)
    BY <2>1, RemoveAsserts DEF TreeInv
  <2>4. RouteStep(d, h, handle[d], a, s)
    BY <1>4, <2>1, <2>2 DEF RouteStep, Cleanup
  <2> QED BY <1>4, <2>1, <2>2, <2>3, <2>4
<1> QED BY <1>2, <1>3, <1>4 DEF Handles

-----------------------------------------------------------------------------
(* The invariant but for the cleanup tasks is kept by publish and remove.   *)
LEMMA RouteStepKeeps ==
    ASSUME TreeInv, NEW d \in Dirs, NEW h \in Handles, NEW n \in Nodes, NEW a, NEW s,
           RouteStep(d, h, n, a, s)
    PROVE  /\ nested' \in [Dirs -> Nodes \cup {None}]
           /\ active' \in [Nodes -> Known]
           /\ backup' \in [Nodes -> Seq(Broadcasts)]
           /\ pending' \in [Consumers -> [Dirs -> PendingUpdate(Broadcasts)]]
           /\ ScanOK' /\ HomeOK' /\ ListenOK' /\ NodesApart' /\ RoutesOK' /\ InUse'
<1>1. /\ nested \in [Dirs -> Nodes \cup {None}] /\ None \notin Nodes
      /\ active \in [Nodes -> Known] /\ backup \in [Nodes -> Seq(Broadcasts)]
      /\ pending \in [Consumers -> [Dirs -> PendingUpdate(Broadcasts)]]
  BY NoneAssumption DEF TreeInv, TypeOK, Known
<1>2. /\ a \in Known /\ s \in Seq(Broadcasts) /\ RouteOK(a, s)
      /\ active' = [active EXCEPT ![n] = a] /\ backup' = [backup EXCEPT ![n] = s]
      /\ UNCHANGED <<layout, listeners, handle, phase, home, scan, seen>>
  BY DEF RouteStep, Routed
<1>3. \/ h = "root" /\ RootFree /\ Entry(d, n) /\ nested' = [nested EXCEPT ![d] = n]
      \/ h = "root" /\ RootFree /\ a = None /\ nested[d] = n /\ nested' = [nested EXCEPT ![d] = None]
      \/ h = "scoped" /\ handle[d] = n /\ nested' = nested
  BY DEF RouteStep
<1>4. nested' \in [Dirs -> Nodes \cup {None}]
  BY <1>1, <1>3
<1>5. active' \in [Nodes -> Known] /\ backup' \in [Nodes -> Seq(Broadcasts)]
  BY <1>1, <1>2
<1>6. pending' \in [Consumers -> [Dirs -> PendingUpdate(Broadcasts)]]
  <2>1. pending' = [c \in Consumers |->
         IF c \in Told(n) THEN [pending[c] EXCEPT ![d] = Update(pending[c][d], active[n], a)]
                          ELSE pending[c]]
    BY DEF RouteStep, Routed
  <2>2. \A c \in Consumers : Update(pending[c][d], active[n], a) \in PendingUpdate(Broadcasts)
    BY <1>1, <1>2, UpdateTypes
  <2>3. \A c \in Consumers : [pending[c] EXCEPT ![d] = Update(pending[c][d], active[n], a)]
                             \in [Dirs -> PendingUpdate(Broadcasts)]
    BY <1>1, <2>2
  <2> QED BY <1>1, <2>1, <2>3
<1>7. ScanOK'
  <2>1. CASE scan = NoScan
    BY <1>2, <2>1 DEF ScanOK, NoScan
  <2>2. CASE scan # NoScan
    <3>1. nested' = nested
      BY <1>3, <2>2 DEF RootFree
    <3> QED BY <1>2, <3>1 DEF TreeInv, ScanOK, NoScan
  <2> QED BY <2>1, <2>2
<1>8. HomeOK' /\ ListenOK'
  BY <1>2 DEF TreeInv, HomeOK, ListenOK
<1>9. \A e \in Dirs, m \in Nodes : nested'[e] = m => nested[e] = m \/ (e = d /\ m = n)
  BY <1>1, <1>3
<1>10. \A e \in Dirs : Refers(e, n) => e = d
  <2>1. CASE Entry(d, n) /\ nested' = [nested EXCEPT ![d] = n]
    BY <2>1, EntryLinks DEF Refers
  <2>2. CASE nested[d] = n \/ handle[d] = n
    BY <2>2 DEF TreeInv, NodesApart, Refers
  <2> QED BY <1>3, <2>1, <2>2
<1>11. NodesApart'
  <2> SUFFICES ASSUME NEW e \in Dirs, NEW f \in Dirs, NEW m \in Nodes,
                      Refers(e, m)', Refers(f, m)'
               PROVE  e = f
    BY DEF NodesApart
  <2>1. (Refers(e, m) \/ (e = d /\ m = n)) /\ (Refers(f, m) \/ (f = d /\ m = n))
    BY <1>2, <1>9 DEF Refers
  <2>2. Refers(e, m) /\ Refers(f, m) => e = f
    BY DEF TreeInv, NodesApart
  <2> QED BY <2>1, <2>2, <1>10
<1>12. RoutesOK'
  <2> SUFFICES ASSUME NEW m \in Nodes PROVE RouteOK(active'[m], backup'[m])
    BY <1>2 DEF RoutesOK, RouteOK
  <2>1. CASE m = n
    BY <1>1, <1>2, <2>1
  <2>2. CASE m # n
    BY <1>1, <1>2, <2>2 DEF TreeInv, RoutesOK
  <2> QED BY <2>1, <2>2
<1>13. InUse'
  <2> SUFFICES ASSUME NEW m \in Nodes, active'[m] # None
               PROVE  \E e \in Dirs : nested'[e] = m \/ handle[e] = m
    BY <1>2 DEF InUse, Refers
  <2>1. CASE m = n
    <3>1. a # None
      BY <1>1, <1>2, <2>1
    <3> QED BY <1>1, <1>3, <2>1, <3>1
  <2>2. CASE m # n
    <3>1. active[m] # None
      BY <1>1, <1>2, <2>2
    <3>2. PICK e \in Dirs : nested[e] = m \/ handle[e] = m
      BY <3>1 DEF TreeInv, InUse, Refers
    <3>3. nested[e] = m => nested'[e] = m
      <4> SUFFICES ASSUME nested[e] = m PROVE nested'[e] = m
        OBVIOUS
      <4>1. CASE Entry(d, n) /\ nested' = [nested EXCEPT ![d] = n]
        BY <4>1, EntryLinks
      <4>2. CASE nested[d] = n /\ nested' = [nested EXCEPT ![d] = None]
        BY <1>1, <2>2, <4>2
      <4>3. CASE nested' = nested
        BY <4>3
      <4> QED BY <1>3, <4>1, <4>2, <4>3
    <3> QED BY <3>2, <3>3
  <2> QED BY <2>1, <2>2
<1> QED BY <1>4, <1>5, <1>6, <1>7, <1>8, <1>11, <1>12, <1>13

(* A layout's parts.                                                        *)
LEMMA LayoutParts ==
    ASSUME TypeOK
    PROVE  /\ layout.producers \subseteq Handles /\ DOMAIN layout.scope \subseteq Consumers
           /\ \A c \in DOMAIN layout.scope : layout.scope[c] \in Dirs \cup {Root}
           /\ layout.broadcasts \subseteq Broadcasts /\ layout.copies \in Nat
BY LayoutsAssumption DEF TypeOK, Handles

(* The invariant holds at the start.                                        *)
LEMMA TreeInit == Init => TreeInv
<1> SUFFICES ASSUME Init PROVE TreeInv
  OBVIOUS
<1>1. TypeOK
  <2>1. pending \in [Consumers -> [Dirs -> PendingUpdate(Broadcasts)]]
    BY NothingTypes DEF Init
  <2>2. tasks \in [Broadcasts \X Dirs \X Handles -> Nat]
    BY DEF Init
  <2>3. backup \in [Nodes -> Seq(Broadcasts)]
    BY DEF Init
  <2> QED BY <2>1, <2>2, <2>3 DEF Init, TypeOK, NoScan
<1>2. ScanOK /\ HomeOK /\ ListenOK
  BY DEF Init, ScanOK, HomeOK, ListenOK
<1>3. NodesApart /\ InUse
  BY NoneAssumption DEF Init, NodesApart, InUse, Refers
<1>4. RoutesOK
  BY DEF Init, RoutesOK, RouteOK, Range
<1>5. TasksOK
  <2>1. \A b \in Broadcasts, d \in Dirs, h \in Handles : tasks[<<b, d, h>>] = 0
    BY DEF Init
  <2> QED BY <2>1 DEF TasksOK
<1> QED BY <1>1, <1>2, <1>3, <1>4, <1>5 DEF TreeInv

(* Publishing keeps the invariant.                                          *)
LEMMA PublishTree ==
    ASSUME TreeInv, NEW b \in Broadcasts, NEW d \in Dirs, NEW h \in Handles, Publish(b, d, h)
    PROVE  TreeInv'
<1>1. PICK n \in Nodes : \E a, s : RouteStep(d, h, n, a, s) /\ (h = "scoped" => handle[d] = n)
  BY PublishIsRouteStep
<1>2. PICK a, s : RouteStep(d, h, n, a, s)
  BY <1>1
<1>3. /\ tasks' = [tasks EXCEPT ![<<b, d, h>>] = @ + 1] /\ uses' = [uses EXCEPT ![b] = @ + 1]
      /\ UNCHANGED <<layout, listeners, handle, phase, home, scan, seen, closed, panicked>>
      /\ b \in layout.broadcasts /\ h \in layout.producers
  BY DEF Publish
<1>4. tasks \in [Broadcasts \X Dirs \X Handles -> Nat] /\ uses \in [Broadcasts -> Nat]
  BY DEF TreeInv, TypeOK
<1>5. tasks' \in [Broadcasts \X Dirs \X Handles -> Nat] /\ uses' \in [Broadcasts -> Nat]
  BY <1>3, <1>4
<1>6. TypeOK'
  BY <1>2, <1>3, <1>5, RouteStepKeeps DEF TreeInv, TypeOK, Known
<1>7. TasksOK'
  <2> SUFFICES ASSUME NEW x \in Broadcasts, NEW e \in Dirs, NEW g \in Handles, tasks'[<<x, e, g>>] > 0
               PROVE  /\ x \in layout.broadcasts /\ g \in layout.producers
                      /\ g = "scoped" => handle[e] # None
    BY <1>3 DEF TasksOK
  <2>1. CASE x = b /\ e = d /\ g = h
    BY <1>1, <1>3, <2>1, NoneAssumption
  <2>2. CASE <<x, e, g>> # <<b, d, h>>
    <3>1. tasks[<<x, e, g>>] > 0
      BY <1>3, <1>4, <2>2
    <3> QED BY <3>1 DEF TreeInv, TasksOK
  <2> QED BY <2>1, <2>2
<1> QED BY <1>2, <1>6, <1>7, RouteStepKeeps DEF TreeInv

(* So does cleaning up.                                                     *)
LEMMA CleanupTree ==
    ASSUME TreeInv, NEW b \in Broadcasts, NEW d \in Dirs, NEW h \in Handles, Cleanup(b, d, h)
    PROVE  TreeInv'
<1>1. /\ tasks' = [tasks EXCEPT ![<<b, d, h>>] = @ - 1] /\ tasks[<<b, d, h>>] > 0
      /\ UNCHANGED <<layout, listeners, handle, phase, home, scan, seen, closed, uses>>
  BY DEF Cleanup
<1>2. tasks \in [Broadcasts \X Dirs \X Handles -> Nat]
  BY DEF TreeInv, TypeOK
<1>3. tasks' \in [Broadcasts \X Dirs \X Handles -> Nat]
  BY <1>1, <1>2
<1>4. TasksOK'
  <2> SUFFICES ASSUME NEW x \in Broadcasts, NEW e \in Dirs, NEW g \in Handles, tasks'[<<x, e, g>>] > 0
               PROVE  /\ x \in layout.broadcasts /\ g \in layout.producers
                      /\ g = "scoped" => handle[e] # None
    BY <1>1 DEF TasksOK
  <2>1. tasks[<<x, e, g>>] > 0
    <3>1. CASE x = b /\ e = d /\ g = h
      BY <1>1, <3>1
    <3>2. CASE <<x, e, g>> # <<b, d, h>>
      BY <1>1, <1>2, <3>2
    <3> QED BY <3>1, <3>2
  <2> QED BY <2>1 DEF TreeInv, TasksOK
<1>5. CASE UNCHANGED <<layout, tree, views, panicked>>
  <2>1. TypeOK'
    BY <1>1, <1>3, <1>5 DEF TreeInv, TypeOK, tree, views
  <2>2. ScanOK' /\ HomeOK' /\ ListenOK'
    BY <1>5, SameConsumers DEF tree, views
  <2>3. NodesApart' /\ RoutesOK' /\ InUse'
    BY <1>5, SameNodes DEF tree, views
  <2> QED BY <1>4, <2>1, <2>2, <2>3 DEF TreeInv
<1>6. CASE \E n \in Nodes : \E a, s : RouteStep(d, h, n, a, s) /\ Asserted(n, b)
  <2>1. PICK n \in Nodes : \E a, s : RouteStep(d, h, n, a, s) /\ Asserted(n, b)
    BY <1>6
  <2>2. PICK a, s : RouteStep(d, h, n, a, s) /\ Asserted(n, b)
    BY <2>1
  <2>3. panicked' \in BOOLEAN
    BY <2>2 DEF Asserted, TreeInv, TypeOK
  <2>4. TypeOK'
    BY <1>1, <1>3, <2>2, <2>3, RouteStepKeeps DEF TreeInv, TypeOK, Known
  <2> QED BY <1>4, <2>2, <2>4, RouteStepKeeps DEF TreeInv
<1> QED BY <1>5, <1>6, CleanupIsRouteStep

(* Making a scoped producer keeps the invariant.                            *)
LEMMA ScopeProducerTree ==
    ASSUME TreeInv, NEW d \in Dirs, ScopeProducer(d)
    PROVE  TreeInv'
<1>1. PICK n \in Nodes : /\ Entry(d, n) /\ nested' = [nested EXCEPT ![d] = n]
                         /\ handle' = [handle EXCEPT ![d] = n]
  BY DEF ScopeProducer
<1>2. /\ RootFree /\ handle[d] = None
      /\ UNCHANGED <<layout, active, backup, listeners, phase, home, scan, pending, seen, closed,
                     uses, tasks, panicked>>
  BY DEF ScopeProducer, views, jobs
<1>3. handle \in [Dirs -> Nodes \cup {None}] /\ None \notin Nodes
  BY NoneAssumption DEF TreeInv, TypeOK
<1>4. handle' \in [Dirs -> Nodes \cup {None}]
  BY <1>1, <1>3
<1>5. TypeOK'
  BY <1>1, <1>2, <1>4, EntryLinks DEF TreeInv, TypeOK
<1>6. ScanOK' /\ HomeOK' /\ ListenOK' /\ RoutesOK'
  <2>1. ScanOK'
    BY <1>2 DEF ScanOK, RootFree, NoScan
  <2>2. HomeOK' /\ ListenOK'
    BY <1>2 DEF TreeInv, HomeOK, ListenOK
  <2>3. RoutesOK'
    BY <1>2 DEF TreeInv, RoutesOK, RouteOK
  <2> QED BY <2>1, <2>2, <2>3
<1>7. \A e \in Dirs, m \in Nodes : Refers(e, m)' <=> Refers(e, m) \/ (e = d /\ m = n)
  <2>1. \A e \in Dirs, m \in Nodes : handle'[e] = m <=> handle[e] = m \/ (e = d /\ m = n)
    BY <1>1, <1>2, <1>3
  <2>2. \A e \in Dirs, m \in Nodes : nested'[e] = m <=> nested[e] = m \/ (e = d /\ m = n)
    BY <1>1, EntryLinks
  <2> QED BY <2>1, <2>2 DEF Refers
<1>8. \A e \in Dirs : Refers(e, n) => e = d
  BY <1>1, EntryLinks DEF Refers
<1>9. NodesApart' /\ InUse'
  <2>1. NodesApart'
    BY <1>7, <1>8 DEF TreeInv, NodesApart
  <2>2. InUse'
    BY <1>2, <1>7 DEF TreeInv, InUse
  <2> QED BY <2>1, <2>2
<1>10. TasksOK'
  <2>1. \A e \in Dirs : handle[e] # None => handle'[e] # None
    BY <1>1, <1>3
  <2> QED BY <1>2, <2>1 DEF TreeInv, TasksOK
<1> QED BY <1>5, <1>6, <1>9, <1>10 DEF TreeInv

(* Finding or making the node of a scoped consumer keeps the invariant ...  *)
LEMMA SelectTree ==
    ASSUME TreeInv, NEW c \in Consumers, Select(c)
    PROVE  TreeInv'
<1> DEFINE d == layout.scope[c]
<1>1. d \in Dirs
  BY LayoutParts DEF TreeInv, Select
<1>2. PICK n \in Nodes : /\ Entry(d, n) /\ nested' = [nested EXCEPT ![d] = n]
                         /\ home' = [home EXCEPT ![c] = n]
  BY DEF Select
<1>3. /\ RootFree /\ phase[c] = "new" /\ phase' = [phase EXCEPT ![c] = "selected"]
      /\ c \in DOMAIN layout.scope
      /\ UNCHANGED <<layout, active, backup, listeners, handle, scan, pending, seen, closed, uses,
                     tasks, panicked>>
  BY DEF Select, jobs
<1> HIDE DEF d
<1>4. /\ home \in [Consumers -> Nodes \cup {Root, None}]
      /\ phase \in [Consumers -> {"new", "selected", "joining", "live", "gone"}]
  BY DEF TreeInv, TypeOK
<1>5. TypeOK'
  <2>1. /\ home' \in [Consumers -> Nodes \cup {Root, None}]
        /\ phase' \in [Consumers -> {"new", "selected", "joining", "live", "gone"}]
    BY <1>2, <1>3, <1>4
  <2>2. nested' \in [Dirs -> Nodes \cup {None}]
    BY <1>1, <1>2, EntryLinks
  <2> QED BY <1>3, <2>1, <2>2 DEF TreeInv, TypeOK
<1>6. ScanOK' /\ RoutesOK' /\ TasksOK'
  <2>1. ScanOK'
    BY <1>3 DEF ScanOK, RootFree, NoScan
  <2>2. RoutesOK'
    BY <1>3 DEF TreeInv, RoutesOK, RouteOK
  <2> QED BY <1>3, <2>1, <2>2, SameTasks
<1>7. HomeOK'
  <2> SUFFICES ASSUME NEW x \in Consumers
               PROVE  HomeOK!(x)'
    BY DEF HomeOK
  <2>1. CASE x = c
    BY <1>1, <1>2, <1>3, <1>4, <2>1 DEF d
  <2>2. CASE x # c
    BY <1>2, <1>3, <1>4, <2>2 DEF TreeInv, HomeOK
  <2> QED BY <2>1, <2>2
<1>8. ListenOK'
  <2> SUFFICES ASSUME NEW m \in Nodes \cup {Root}, NEW x \in Consumers
               PROVE  x \in listeners[m] <=> phase'[x] = "live" /\ home'[x] = m
    BY <1>3 DEF ListenOK
  <2>1. x \in listeners[m] <=> phase[x] = "live" /\ home[x] = m
    BY DEF TreeInv, ListenOK
  <2> QED BY <1>2, <1>3, <1>4, <2>1
<1>9. \A e \in Dirs, m \in Nodes : Refers(e, m)' <=> Refers(e, m) \/ (e = d /\ m = n)
  <2>1. \A e \in Dirs, m \in Nodes : nested'[e] = m <=> nested[e] = m \/ (e = d /\ m = n)
    BY <1>1, <1>2, EntryLinks
  <2> QED BY <1>3, <2>1 DEF Refers
<1>10. \A e \in Dirs : Refers(e, n) => e = d
  BY <1>1, <1>2, EntryLinks DEF Refers
<1>11. NodesApart' /\ InUse'
  BY <1>3, <1>9, <1>10 DEF TreeInv, NodesApart, InUse
<1> QED BY <1>5, <1>6, <1>7, <1>8, <1>11 DEF TreeInv

(* ... and so does registering it there.                                    *)
LEMMA JoinTree ==
    ASSUME TreeInv, NEW c \in Consumers, Join(c)
    PROVE  TreeInv'
<1> DEFINE d == layout.scope[c]
           n == home[c]
<1>1. /\ phase[c] = "selected" /\ phase' = [phase EXCEPT ![c] = "live"]
      /\ listeners' = [listeners EXCEPT ![n] = @ \cup {c}]
      /\ pending' = IF active[n] = None THEN pending
                    ELSE [pending EXCEPT ![c][d] = ApplyAnnounce(@, active[n])]
      /\ UNCHANGED <<layout, nested, active, backup, handle, home, scan, seen, closed, uses, tasks,
                     panicked>>
  BY DEF Join, jobs
<1>2. c \in DOMAIN layout.scope /\ d \in Dirs /\ n \in Nodes
  BY <1>1 DEF TreeInv, HomeOK
<1> HIDE DEF d, n
<1>3. /\ phase \in [Consumers -> {"new", "selected", "joining", "live", "gone"}]
      /\ listeners \in [Nodes \cup {Root} -> SUBSET Consumers]
      /\ pending \in [Consumers -> [Dirs -> PendingUpdate(Broadcasts)]]
      /\ active \in [Nodes -> Known]
  BY DEF TreeInv, TypeOK, Known
<1>4. TypeOK'
  <2>1. /\ phase' \in [Consumers -> {"new", "selected", "joining", "live", "gone"}]
        /\ listeners' \in [Nodes \cup {Root} -> SUBSET Consumers]
    BY <1>1, <1>2, <1>3
  <2>2. pending' \in [Consumers -> [Dirs -> PendingUpdate(Broadcasts)]]
    <3>1. active[n] # None => ApplyAnnounce(pending[c][d], active[n]) \in PendingUpdate(Broadcasts)
      BY <1>2, <1>3, ApplyTypes DEF Known
    <3> QED BY <1>1, <1>2, <1>3, <3>1
  <2> QED BY <1>1, <2>1, <2>2 DEF TreeInv, TypeOK
<1>5. ScanOK'
  <2>1. CASE scan = NoScan
    BY <1>1, <2>1 DEF ScanOK, NoScan
  <2>2. CASE scan # NoScan
    <3>1. scan \in [consumer : Consumers, left : SUBSET Dirs] /\ phase[scan.consumer] = "joining"
      BY <2>2 DEF TreeInv, ScanOK
    <3>2. phase'[scan.consumer] = "joining"
      BY <1>1, <1>3, <3>1
    <3> QED BY <1>1, <2>2, <3>1, <3>2 DEF TreeInv, ScanOK
  <2> QED BY <2>1, <2>2
<1>6. HomeOK'
  <2> SUFFICES ASSUME NEW x \in Consumers
               PROVE  HomeOK!(x)'
    BY DEF HomeOK
  <2>1. CASE x = c
    BY <1>1, <1>2, <1>3, <2>1 DEF d, n
  <2>2. CASE x # c
    BY <1>1, <1>3, <2>2 DEF TreeInv, HomeOK
  <2> QED BY <2>1, <2>2
<1>7. ListenOK'
  <2> SUFFICES ASSUME NEW m \in Nodes \cup {Root}, NEW x \in Consumers
               PROVE  x \in listeners'[m] <=> phase'[x] = "live" /\ home[x] = m
    BY <1>1 DEF ListenOK
  <2>1. x \in listeners[m] <=> phase[x] = "live" /\ home[x] = m
    BY DEF TreeInv, ListenOK
  <2> QED BY <1>1, <1>2, <1>3, <2>1 DEF n
<1>8. NodesApart' /\ RoutesOK' /\ InUse' /\ TasksOK'
  BY <1>1, SameNodes, SameTasks
<1> QED BY <1>4, <1>5, <1>6, <1>7, <1>8 DEF TreeInv

(* Starting to set up a root consumer keeps the invariant ...               *)
LEMMA JoinRootTree ==
    ASSUME TreeInv, NEW c \in Consumers, JoinRoot(c)
    PROVE  TreeInv'
<1>1. /\ phase[c] = "new" /\ phase' = [phase EXCEPT ![c] = "joining"] /\ RootFree
      /\ c \in DOMAIN layout.scope /\ layout.scope[c] = Root
      /\ home' = [home EXCEPT ![c] = Root]
      /\ scan' = [consumer |-> c, left |-> {d \in Dirs : nested[d] # None}]
      /\ UNCHANGED <<layout, nested, active, backup, listeners, handle, pending, seen, closed, uses,
                     tasks, panicked>>
  BY DEF JoinRoot, tree, jobs
<1>2. /\ home \in [Consumers -> Nodes \cup {Root, None}]
      /\ phase \in [Consumers -> {"new", "selected", "joining", "live", "gone"}]
  BY DEF TreeInv, TypeOK
<1>3. TypeOK'
  <2>1. /\ home' \in [Consumers -> Nodes \cup {Root, None}]
        /\ phase' \in [Consumers -> {"new", "selected", "joining", "live", "gone"}]
        /\ scan'.consumer \in Consumers /\ scan'.left \subseteq Dirs
    BY <1>1, <1>2
  <2> QED BY <1>1, <2>1 DEF TreeInv, TypeOK
<1>4. ScanOK'
  BY <1>1, <1>2 DEF ScanOK
<1>5. HomeOK'
  <2> SUFFICES ASSUME NEW x \in Consumers
               PROVE  HomeOK!(x)'
    BY DEF HomeOK
  <2>1. CASE x = c
    BY <1>1, <1>2, <2>1
  <2>2. CASE x # c
    <3>1. phase[x] # "joining"
      BY <1>1, NoneAssumption DEF TreeInv, HomeOK, RootFree, NoScan
    <3> QED BY <1>1, <1>2, <2>2, <3>1 DEF TreeInv, HomeOK
  <2> QED BY <2>1, <2>2
<1>6. ListenOK'
  <2> SUFFICES ASSUME NEW m \in Nodes \cup {Root}, NEW x \in Consumers
               PROVE  x \in listeners[m] <=> phase'[x] = "live" /\ home'[x] = m
    BY <1>1 DEF ListenOK
  <2>1. x \in listeners[m] <=> phase[x] = "live" /\ home[x] = m
    BY DEF TreeInv, ListenOK
  <2> QED BY <1>1, <1>2, <2>1
<1>7. NodesApart' /\ RoutesOK' /\ InUse' /\ TasksOK'
  BY <1>1, SameNodes, SameTasks
<1> QED BY <1>3, <1>4, <1>5, <1>6, <1>7 DEF TreeInv

(* ... and so does a visit of consume_initial ...                           *)
LEMMA VisitTree ==
    ASSUME TreeInv, NEW d \in Dirs, Visit(d)
    PROVE  TreeInv'
<1> DEFINE c == scan.consumer
           n == nested[d]
<1>1. /\ d \in scan.left /\ scan' = [scan EXCEPT !.left = @ \ {d}]
      /\ pending' = IF active[n] = None THEN pending
                    ELSE [pending EXCEPT ![c][d] = ApplyAnnounce(@, active[n])]
      /\ UNCHANGED <<layout, nested, active, backup, listeners, handle, phase, home, seen, closed,
                     uses, tasks, panicked>>
  BY DEF Visit, tree, jobs
<1>2. /\ scan \in [consumer : Consumers, left : SUBSET Dirs] /\ phase[c] = "joining"
      /\ \A e \in scan.left : nested[e] # None
  BY <1>1 DEF TreeInv, ScanOK, NoScan
<1>3. c \in Consumers /\ n \in Nodes
  BY <1>1, <1>2 DEF TreeInv, TypeOK
<1>4. /\ scan'.consumer = c /\ scan'.left = scan.left \ {d}
      /\ scan' \in [consumer : Consumers, left : SUBSET Dirs]
  BY <1>1, <1>2
<1> HIDE DEF n
<1>5. TypeOK'
  <2>1. /\ pending \in [Consumers -> [Dirs -> PendingUpdate(Broadcasts)]]
        /\ active \in [Nodes -> Known]
    BY DEF TreeInv, TypeOK, Known
  <2>2. active[n] # None => ApplyAnnounce(pending[c][d], active[n]) \in PendingUpdate(Broadcasts)
    BY <1>3, <2>1, ApplyTypes DEF Known
  <2>3. pending' \in [Consumers -> [Dirs -> PendingUpdate(Broadcasts)]]
    BY <1>1, <1>3, <2>1, <2>2
  <2> QED BY <1>1, <1>4, <2>3 DEF TreeInv, TypeOK
<1>6. ScanOK'
  BY <1>1, <1>2, <1>4 DEF ScanOK
<1>7. HomeOK' /\ ListenOK'
  BY <1>1, <1>4 DEF TreeInv, HomeOK, ListenOK
<1>8. NodesApart' /\ RoutesOK' /\ InUse' /\ TasksOK'
  BY <1>1, SameNodes, SameTasks
<1> QED BY <1>5, <1>6, <1>7, <1>8 DEF TreeInv

(* ... and the registration that ends it.                                   *)
LEMMA JoinedTree ==
    ASSUME TreeInv, NEW c \in Consumers, Joined(c)
    PROVE  TreeInv'
<1>1. /\ scan = [consumer |-> c, left |-> {}] /\ scan' = NoScan
      /\ listeners' = [listeners EXCEPT ![Root] = @ \cup {c}]
      /\ phase' = [phase EXCEPT ![c] = "live"]
      /\ UNCHANGED <<layout, nested, active, backup, handle, home, pending, seen, closed, uses,
                     tasks, panicked>>
  BY DEF Joined, jobs
<1>2. scan # NoScan /\ scan.consumer = c
  BY <1>1, NoneAssumption DEF NoScan
<1>3. phase[c] = "joining"
  BY <1>2 DEF TreeInv, ScanOK
<1>4. c \in DOMAIN layout.scope /\ layout.scope[c] = Root /\ home[c] = Root
  BY <1>3 DEF TreeInv, HomeOK
<1>5. /\ phase \in [Consumers -> {"new", "selected", "joining", "live", "gone"}]
      /\ listeners \in [Nodes \cup {Root} -> SUBSET Consumers]
  BY DEF TreeInv, TypeOK
<1>6. TypeOK'
  <2>1. /\ phase' \in [Consumers -> {"new", "selected", "joining", "live", "gone"}]
        /\ listeners' \in [Nodes \cup {Root} -> SUBSET Consumers]
    BY <1>1, <1>5
  <2> QED BY <1>1, <2>1 DEF TreeInv, TypeOK, NoScan
<1>7. ScanOK'
  BY <1>1 DEF ScanOK, NoScan
<1>8. HomeOK'
  <2> SUFFICES ASSUME NEW x \in Consumers
               PROVE  HomeOK!(x)'
    BY DEF HomeOK
  <2>1. CASE x = c
    BY <1>1, <1>4, <1>5, <2>1
  <2>2. CASE x # c
    <3>1. phase[x] # "joining"
      BY <1>2, <2>2 DEF TreeInv, HomeOK
    <3> QED BY <1>1, <1>5, <2>2, <3>1 DEF TreeInv, HomeOK
  <2> QED BY <2>1, <2>2
<1>9. ListenOK'
  <2> SUFFICES ASSUME NEW m \in Nodes \cup {Root}, NEW x \in Consumers
               PROVE  x \in listeners'[m] <=> phase'[x] = "live" /\ home[x] = m
    BY <1>1 DEF ListenOK
  <2>1. x \in listeners[m] <=> phase[x] = "live" /\ home[x] = m
    BY DEF TreeInv, ListenOK
  <2> QED BY <1>1, <1>3, <1>4, <1>5, <2>1
<1>10. NodesApart' /\ RoutesOK' /\ InUse' /\ TasksOK'
  BY <1>1, SameNodes, SameTasks
<1> QED BY <1>6, <1>7, <1>8, <1>9, <1>10 DEF TreeInv

(* A take keeps the invariant ...                                           *)
LEMMA TakeTree ==
    ASSUME TreeInv, NEW c \in Consumers, Take(c)
    PROVE  TreeInv'
<1>1. PICK d \in Dirs : /\ seen' = [seen EXCEPT ![c][d] = Delivered(pending[c][d])]
                        /\ pending' = [pending EXCEPT ![c][d] = Rest(@)]
  BY DEF Take
<1>2. UNCHANGED <<layout, nested, active, backup, listeners, handle, phase, home, scan, closed, uses,
                  tasks, panicked>>
  BY DEF Take, tree, jobs
<1>3. /\ pending \in [Consumers -> [Dirs -> PendingUpdate(Broadcasts)]]
      /\ seen \in [Consumers -> [Dirs -> Known]]
  BY DEF TreeInv, TypeOK, Known
<1>4. Rest(pending[c][d]) \in PendingUpdate(Broadcasts) /\ Delivered(pending[c][d]) \in Known
  BY <1>3, TakeTypes
<1>5. /\ pending' \in [Consumers -> [Dirs -> PendingUpdate(Broadcasts)]]
      /\ seen' \in [Consumers -> [Dirs -> Known]]
  BY <1>1, <1>3, <1>4
<1>6. TypeOK'
  BY <1>2, <1>5 DEF TreeInv, TypeOK, Known
<1>7. ScanOK' /\ HomeOK' /\ ListenOK'
  BY <1>2, SameConsumers
<1>8. NodesApart' /\ RoutesOK' /\ InUse' /\ TasksOK'
  BY <1>2, SameNodes, SameTasks
<1> QED BY <1>6, <1>7, <1>8 DEF TreeInv

(* ... and so does the drop of a consumer ...                               *)
LEMMA LeaveTree ==
    ASSUME TreeInv, NEW c \in Consumers, Leave(c)
    PROVE  TreeInv'
<1>1. /\ phase[c] = "live" /\ phase' = [phase EXCEPT ![c] = "gone"]
      /\ listeners' = [listeners EXCEPT ![home[c]] = @ \ {c}]
      /\ home' = [home EXCEPT ![c] = None]
      /\ pending' = [pending EXCEPT ![c] = [d \in Dirs |-> Nothing]]
      /\ seen' = [seen EXCEPT ![c] = [d \in Dirs |-> None]]
      /\ UNCHANGED <<layout, nested, active, backup, handle, scan, closed, uses, tasks, panicked>>
  BY DEF Leave, jobs
<1>2. home[c] \in Nodes \cup {Root}
  BY <1>1 DEF TreeInv, HomeOK
<1>3. /\ phase \in [Consumers -> {"new", "selected", "joining", "live", "gone"}]
      /\ listeners \in [Nodes \cup {Root} -> SUBSET Consumers]
      /\ home \in [Consumers -> Nodes \cup {Root, None}]
      /\ pending \in [Consumers -> [Dirs -> PendingUpdate(Broadcasts)]]
      /\ seen \in [Consumers -> [Dirs -> Known]]
  BY DEF TreeInv, TypeOK, Known
<1>4. TypeOK'
  <2>1. /\ phase' \in [Consumers -> {"new", "selected", "joining", "live", "gone"}]
        /\ home' \in [Consumers -> Nodes \cup {Root, None}]
    BY <1>1, <1>3
  <2>2. listeners' \in [Nodes \cup {Root} -> SUBSET Consumers]
    BY <1>1, <1>3
  <2>3. pending' \in [Consumers -> [Dirs -> PendingUpdate(Broadcasts)]]
    BY <1>1, <1>3, NothingTypes
  <2>4. seen' \in [Consumers -> [Dirs -> Known]]
    BY <1>1, <1>3 DEF Known
  <2> QED BY <1>1, <2>1, <2>2, <2>3, <2>4 DEF TreeInv, TypeOK, Known
<1>5. ScanOK'
  <2>1. CASE scan = NoScan
    BY <1>1, <2>1 DEF ScanOK, NoScan
  <2>2. CASE scan # NoScan
    <3>1. scan \in [consumer : Consumers, left : SUBSET Dirs] /\ phase[scan.consumer] = "joining"
      BY <2>2 DEF TreeInv, ScanOK
    <3>2. phase'[scan.consumer] = "joining"
      BY <1>1, <1>3, <3>1
    <3> QED BY <1>1, <2>2, <3>1, <3>2 DEF TreeInv, ScanOK
  <2> QED BY <2>1, <2>2
<1>6. HomeOK'
  <2> SUFFICES ASSUME NEW x \in Consumers
               PROVE  HomeOK!(x)'
    BY DEF HomeOK
  <2>1. CASE x = c
    BY <1>1, <1>3, <2>1
  <2>2. CASE x # c
    BY <1>1, <1>3, <2>2 DEF TreeInv, HomeOK
  <2> QED BY <2>1, <2>2
<1>7. ListenOK'
  <2> SUFFICES ASSUME NEW m \in Nodes \cup {Root}, NEW x \in Consumers
               PROVE  x \in listeners'[m] <=> phase'[x] = "live" /\ home'[x] = m
    BY <1>1 DEF ListenOK
  <2>1. x \in listeners[m] <=> phase[x] = "live" /\ home[x] = m
    BY DEF TreeInv, ListenOK
  <2> QED BY <1>1, <1>2, <1>3, <2>1
<1>8. NodesApart' /\ RoutesOK' /\ InUse' /\ TasksOK'
  BY <1>1, SameNodes, SameTasks
<1> QED BY <1>4, <1>5, <1>6, <1>7, <1>8 DEF TreeInv

(* ... the close of a broadcast, and a step of something else.              *)
LEMMA IdleTree ==
    ASSUME TreeInv, closed' \subseteq Broadcasts,
           UNCHANGED <<layout, tree, views, uses, tasks, panicked>>
    PROVE  TreeInv'
<1>1. UNCHANGED <<layout, nested, active, backup, listeners, handle, phase, home, scan, pending, seen,
                  uses, tasks, panicked>>
  BY DEF tree, views
<1>2. TypeOK'
  BY <1>1 DEF TreeInv, TypeOK
<1>3. ScanOK' /\ HomeOK' /\ ListenOK'
  BY <1>1, SameConsumers
<1>4. NodesApart' /\ RoutesOK' /\ InUse' /\ TasksOK'
  BY <1>1, SameNodes, SameTasks
<1> QED BY <1>2, <1>3, <1>4 DEF TreeInv

(* Closing a broadcast changes nothing in the tree.                         *)
LEMMA CloseTree ==
    ASSUME TreeInv, NEW b \in Broadcasts, Close(b)
    PROVE  TreeInv'
<1>1. closed' \subseteq Broadcasts
  BY DEF Close, TreeInv, TypeOK
<1> QED BY <1>1, IdleTree DEF Close

(* The invariant of the tree is inductive.                                  *)
LEMMA TreeStep == TreeInv /\ [Next]_vars => TreeInv'
<1> SUFFICES ASSUME TreeInv, [Next]_vars PROVE TreeInv'
  OBVIOUS
<1>1. CASE UNCHANGED vars
  <2>1. closed' \subseteq Broadcasts
    BY <1>1 DEF vars, TreeInv, TypeOK
  <2> QED BY <1>1, <2>1, IdleTree DEF vars, tree, views
<1> QED BY <1>1, ScopeProducerTree, VisitTree, CloseTree, PublishTree, CleanupTree, SelectTree,
           JoinTree, JoinRootTree, JoinedTree, TakeTree, LeaveTree DEF Next

-----------------------------------------------------------------------------
(* Every variable stays in its range, whatever the layout of handles.       *)
THEOREM TypeCorrect == Spec => []TypeOK
<1>1. TreeInv => TypeOK
  BY DEF TreeInv
<1> QED BY TreeInit, TreeStep, <1>1, PTL DEF Spec

(* The active route of a path is one that no queued route beats, for any    *)
(* number of broadcasts, hop counts and hashes, whatever the layout.        *)
THEOREM BestIsActive == Spec => []BestActive
<1>1. TreeInv => BestActive
  <2> SUFFICES ASSUME TreeInv, NEW d \in Dirs, NEW b \in Queued(d)
               PROVE  Lookup(d) # None /\ ~KeyLess(b, Lookup(d))
    BY DEF BestActive
  <2>1. nested[d] # None /\ b \in Range(backup[nested[d]]) /\ Lookup(d) = active[nested[d]]
    BY DEF Queued, Lookup
  <2>2. nested[d] \in Nodes
    BY <2>1 DEF TreeInv, TypeOK
  <2> QED BY <2>1, <2>2 DEF TreeInv, RoutesOK, RouteOK
<1> QED BY TreeInit, TreeStep, <1>1, PTL DEF Spec

=============================================================================

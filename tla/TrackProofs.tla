---------------------------- MODULE TrackProofs ----------------------------
(***************************************************************************)
(* Theorems about the cache of a track and its readers, for any writers,   *)
(* watchers, readers, sequences, ages and number of groups.                *)
(***************************************************************************)
EXTENDS Track, FiniteSetTheorems, WellFoundedInduction, TLAPS

(* The cached groups by arrival, which is all the argument needs.           *)
Kept == [i \in Live |-> Group(i)]

Given == [at : Nat, sequence : Sequences]

Types ==
    /\ groups \in Seq(Groups \cup {None}) /\ offset \in Nat /\ now \in Nat
    /\ max \in Sequences \cup {None}
    /\ closed \in BOOLEAN /\ count \in Int
    /\ pc \in [Writers -> {"none", "held", "clearing", "counting", "closing"}]
    /\ watch \in [Watchers -> {"idle", "waiting", "closing", "done"}]
    /\ mode \in [Readers -> {"recv", "next", "read"}]
    /\ index \in [Readers -> Nat] /\ least \in [Readers -> Nat]
    /\ next \in [Readers -> Sequences]
    /\ got \in [Readers -> Seq(Given)]

(* Somebody can still write.                                                *)
Active == ~closed /\ \E w \in Writers : pc[w] = "held"

(* The filter, the latest group, and that groups arrive in the order of     *)
(* their creation.                                                          *)
CacheInv ==
    /\ duplicates = {Kept[i].sequence : i \in Live}
    /\ \A i, j \in Live : Kept[i].sequence = Kept[j].sequence => i = j
    /\ \A i \in Live : max # None /\ Kept[i].sequence <= max
    /\ max # None /\ Active => \E i \in Live : Kept[i].sequence = max

(* The producer count, and that no writer is left when one clears the cache.*)
Holding == {w \in Writers : pc[w] \in {"held", "clearing", "counting"}}
Waiting == {d \in Watchers : watch[d] = "waiting"}

HandlesInv ==
    /\ count = Cardinality(Holding) + Cardinality(Waiting)
    /\ \A w, v \in Writers : pc[w] = "clearing" => pc[v] # "held"

TimeInv ==
    /\ \A i, j \in Live : i <= j => Kept[i].created <= Kept[j].created
    /\ \A i \in Live : Kept[i].created <= now

-----------------------------------------------------------------------------
LessThan == {p \in Nat \X Nat : p[1] < p[2]}

(* A set of naturals has a least element, which Min is.                     *)
LEMMA MinNat ==
    ASSUME NEW S \in SUBSET Nat, S # {}
    PROVE  Min(S) \in S /\ \A y \in S : Min(S) <= y
<1>1. IsWellFoundedOn(LessThan, Nat)
  BY NatLessThanWellFounded DEF OpToRel, LessThan
<1>2. PICK x \in S : \A y \in S : ~ (<<y, x>> \in LessThan)
  BY <1>1, WFMin
<1>3. ASSUME NEW y \in S PROVE x <= y
  <2>1. x \in Nat /\ y \in Nat /\ ~ (<<y, x>> \in LessThan)
    BY <1>2
  <2>2. ~ (y < x)
    BY <2>1 DEF LessThan
  <2> QED BY <2>1, <2>2
<1> QED BY <1>3 DEF Min

(* A sequence is a number up to u64::MAX.                                   *)
LEMMA Numbers ==
    /\ MaxSequence \in Nat
    /\ \A x \in Sequences : x \in Nat /\ x <= MaxSequence
    /\ \A x \in Nat : x <= MaxSequence => x \in Sequences
<1>1. MaxSequence \in Nat
  BY BoundsAssumption
<1>2. \A x : x \in Sequences <=> x \in Nat /\ x <= MaxSequence
  BY <1>1 DEF Sequences
<1> QED BY <1>1, <1>2, Zenon

(* Strict and weak order on the naturals.                                   *)
LEMMA Chain ==
    ASSUME NEW x \in Nat, NEW y \in Nat, NEW z \in Nat
    PROVE  /\ x < y /\ y <= z => x < z
           /\ x <= y /\ y <= z => x <= z
           /\ x <= y /\ y <= x => x = y
OBVIOUS

(* The cached groups are records at arrivals from offset on.                *)
LEMMA KeptTypes ==
    ASSUME Types
    PROVE  /\ Live \subseteq Nat /\ Kept \in [Live -> Groups] /\ Arrived \in Nat
           /\ \A i \in Live : offset <= i /\ i < Arrived
<1>1. Len(groups) \in Nat /\ offset \in Nat /\ Arrived \in Nat
  BY DEF Types, Arrived
<1>2. \A i \in Live : i \in Nat /\ offset <= i /\ i < Arrived
  BY <1>1 DEF Live
<1>3. \A i \in Live : i - offset + 1 \in 1..Len(groups)
  BY <1>1, <1>2 DEF Arrived
<1>4. \A i \in Live : Group(i) \in Groups
  BY <1>3 DEF Types, Live, Group
<1> QED BY <1>1, <1>2, <1>4 DEF Kept

(* What happens to the cached groups when the deque is left alone.          *)
LEMMA SameCache ==
    ASSUME UNCHANGED <<groups, offset>>
    PROVE  Live' = Live /\ Kept' = Kept /\ Arrived' = Arrived
BY DEF Live, Kept, Group, Arrived

(* abort and the drop of the last producer clear the deque.                 *)
LEMMA ClearedCache ==
    ASSUME Types, groups' = <<>>, offset' = offset
    PROVE  Live' = {} /\ Arrived' <= Arrived
BY DEF Live, Arrived, Types

(* Moving the front of a deque does not move its end.                       *)
LEMMA Cancel ==
    ASSUME NEW m \in Nat, NEW n \in Nat, NEW l \in Nat, l <= n
    PROVE  (m + l) + (n - l) = m + n
OBVIOUS

(* The slots that are trimmed are tombstones.                               *)
LEMMA LeadingTombstones ==
    ASSUME NEW swept \in Seq(Groups \cup {None})
    PROVE  /\ Leading(swept) \in 0..Len(swept)
           /\ \A i \in 1..Leading(swept) : swept[i] = None
<1> DEFINE n == Len(swept)
           S == {i \in DOMAIN swept : swept[i] # None} \cup {n + 1}
<1>1. n \in Nat /\ DOMAIN swept = 1..n /\ S \subseteq Nat /\ S # {} /\ n + 1 \in S
  OBVIOUS
<1>2. PICK m \in S : m = Min(S) /\ \A i \in S : m <= i
  BY <1>1, MinNat
<1>3. Leading(swept) = m - 1
  BY <1>2 DEF Leading
<1>4. m \in 1..(n + 1)
  BY <1>1, <1>2
<1>5. ASSUME NEW i \in 1..(m - 1) PROVE swept[i] = None
  <2>1. i \in 1..n /\ ~ (m <= i)
    BY <1>1, <1>4
  <2>2. i \notin S
    BY <1>2, <2>1
  <2> QED BY <1>1, <2>1, <2>2
<1> QED BY <1>1, <1>3, <1>4, <1>5

(* A swept deque, trimmed in front, holds at each arrival what the sweep    *)
(* left there.                                                              *)
LEMMA TrimKeeps ==
    ASSUME offset \in Nat, NEW swept \in Seq(Groups \cup {None}), NEW l \in 0..Len(swept),
           \A i \in 1..l : swept[i] = None,
           groups' = SubSeq(swept, l + 1, Len(swept)), offset' = offset + l
    PROVE  /\ groups' \in Seq(Groups \cup {None}) /\ offset' \in Nat
           /\ Arrived' = offset + Len(swept)
           /\ Live' = {i \in offset..(offset + Len(swept) - 1) : swept[i - offset + 1] # None}
           /\ Kept' = [i \in Live' |-> swept[i - offset + 1]]
<1>1. PICK n \in Nat : n = Len(swept)
  OBVIOUS
<1>2. groups' \in Seq(Groups \cup {None}) /\ Len(groups') = n - l
  BY <1>1
<1>3. \A j \in 1..(n - l) : groups'[j] = swept[l + j]
  BY <1>1
<1>4. l \in Nat /\ l <= n /\ offset' \in Nat /\ offset' = offset + l
  BY <1>1
<1>5. Arrived' = offset + n
  <2>1. Arrived' = offset' + Len(groups')
    BY DEF Arrived
  <2>2. (offset + l) + (n - l) = offset + n
    BY <1>4, Cancel
  <2> QED BY <2>1, <2>2, <1>2, <1>4, Zenon
<1>6. ASSUME NEW i \in offset'..(Arrived' - 1)
      PROVE  groups'[i - offset' + 1] = swept[i - offset + 1] /\ i \in offset..(offset + n - 1)
  <2>1. i \in Int /\ offset + l <= i /\ i <= offset + n - 1
    BY <1>4, <1>5
  <2>2. i - offset' + 1 \in 1..(n - l) /\ l + (i - offset' + 1) = i - offset + 1
    BY <2>1, <1>4
  <2>3. groups'[i - offset' + 1] = swept[l + (i - offset' + 1)]
    BY <2>2, <1>3
  <2>4. i \in offset..(offset + n - 1)
    BY <2>1, <1>4
  <2> QED BY <2>2, <2>3, <2>4, Zenon
<1>7. ASSUME NEW i \in offset..(offset + n - 1), swept[i - offset + 1] # None
      PROVE  i \in offset'..(Arrived' - 1)
  <2>1. i \in Nat /\ i - offset + 1 \notin 1..l
    BY <1>7
  <2>2. offset + l <= i
    BY <2>1, <1>4
  <2> QED BY <2>1, <2>2, <1>4, <1>5
<1>8. Live' = {i \in offset'..(Arrived' - 1) : groups'[i - offset' + 1] # None}
  BY DEF Live, Group
<1>9. Live' = {i \in offset..(offset + n - 1) : swept[i - offset + 1] # None}
  BY <1>6, <1>7, <1>8
<1>10. Kept' = [i \in Live' |-> swept[i - offset + 1]]
  <2>1. Kept' = [i \in Live' |-> groups'[i - offset' + 1]]
    BY DEF Kept, Group
  <2> QED BY <2>1, <1>6, <1>8
<1> QED BY <1>1, <1>2, <1>4, <1>5, <1>9, <1>10
Latest(s) == IF max = None \/ max < s THEN s ELSE max

(* What create_group and append_group do to the cached groups, eviction     *)
(* included: some go, but not the latest, the new one comes, and what is    *)
(* left is fresh.                                                           *)
LEMMA PushEffect ==
    ASSUME Types, CacheInv, TimeInv, NEW s \in Sequences, s \notin duplicates, Push(s)
    PROVE  /\ groups' \in Seq(Groups \cup {None}) /\ offset' \in Nat
           /\ max' = Latest(s) /\ Arrived' = Arrived + 1
           /\ Live' \subseteq Live \cup {Arrived}
           /\ \A i \in Live' : i \in Live => Kept'[i] = Kept[i]
           /\ Arrived \in Live' => Kept'[Arrived].sequence = s /\ Kept'[Arrived].created = now
           /\ \A i \in Live : Kept[i].sequence = Latest(s) => i \in Live'
           /\ s = Latest(s) => Arrived \in Live'
           /\ duplicates' = {Kept'[i].sequence : i \in Live'}
           /\ \A i \in Live' : Kept'[i].sequence = max' \/ now - Kept'[i].created <= MaxAge
<1> DEFINE new == [sequence |-> s, created |-> now, frame |-> "pending"]
           gs == Append(groups, new)
           top == Latest(s)
           old == Expired(gs, top)
           swept == [i \in DOMAIN gs |-> IF i \in old THEN None ELSE gs[i]]
<1>1. /\ max' = top
      /\ groups' = SubSeq(swept, Leading(swept) + 1, Len(swept))
      /\ offset' = offset + Leading(swept)
      /\ duplicates' = (duplicates \cup {s}) \ {gs[i].sequence : i \in old}
  BY DEF Push, EvictExpired, Latest
<1>2. new \in Groups /\ new # None /\ new.sequence = s /\ new.created = now
  BY NoneAssumption DEF Groups, Types, Frames
<1>3. PICK n \in Nat : n = Len(groups)
  BY DEF Types
<1>4. /\ gs \in Seq(Groups \cup {None}) /\ Len(gs) = n + 1 /\ DOMAIN gs = 1..(n + 1)
      /\ gs[n + 1] = new /\ \A k \in 1..n : gs[k] = groups[k]
  BY <1>2, <1>3 DEF Types
<1>5. old \subseteq 1..(n + 1) /\ \A k \in old : gs[k] # None /\ gs[k].sequence # top
  BY <1>4 DEF Expired
<1>0. /\ SweepEnd(gs, top) \in Nat
      /\ \A k \in 1..(n + 1) : k \notin old /\ gs[k] # None => gs[k].sequence = top \/ SweepEnd(gs, top) <= k
      /\ SweepEnd(gs, top) # n + 2 =>
            SweepEnd(gs, top) \in 1..(n + 1) /\ Fresh(gs[SweepEnd(gs, top)], top)
  <2> DEFINE S == {i \in DOMAIN gs : Fresh(gs[i], top)} \cup {Len(gs) + 1}
  <2>1. S \subseteq Nat /\ S # {} /\ Len(gs) + 1 = n + 2
    BY <1>4
  <2>2. SweepEnd(gs, top) = Min(S)
    BY DEF SweepEnd
  <2>3. SweepEnd(gs, top) \in S
    BY <2>1, <2>2, MinNat
  <2>4. SweepEnd(gs, top) \in Nat
    BY <2>1, <2>3
  <2>5. ASSUME NEW k \in 1..(n + 1), k \notin old, gs[k] # None, gs[k].sequence # top
        PROVE  SweepEnd(gs, top) <= k
    <3>1. ~ (k < SweepEnd(gs, top))
      BY <2>5, <1>4 DEF Expired
    <3> QED BY <3>1, <2>4
  <2> QED BY <2>1, <2>3, <2>4, <2>5, <1>4
<1> HIDE DEF old, gs, new, top
<1>6. /\ swept \in Seq(Groups \cup {None}) /\ Len(swept) = n + 1
      /\ \A k \in 1..(n + 1) : swept[k] = IF k \in old THEN None ELSE gs[k]
  BY <1>4
<1> HIDE DEF swept
<1>7. offset \in Nat /\ Arrived = offset + n
  BY <1>3 DEF Types, Arrived
<1>8. /\ groups' \in Seq(Groups \cup {None}) /\ offset' \in Nat
      /\ Arrived' = offset + (n + 1)
      /\ Live' = {i \in offset..(offset + (n + 1) - 1) : swept[i - offset + 1] # None}
      /\ Kept' = [i \in Live' |-> swept[i - offset + 1]]
  BY <1>1, <1>6, <1>7, LeadingTombstones, TrimKeeps
<1>9. ASSUME NEW i \in offset..Arrived
      PROVE  /\ i - offset + 1 \in 1..(n + 1)
             /\ i = Arrived <=> i - offset + 1 = n + 1
             /\ i # Arrived => i - offset + 1 \in 1..n
  BY <1>7
<1>10. Live = {i \in offset..(Arrived - 1) : groups[i - offset + 1] # None}
  BY DEF Live, Group
<1>11. Kept = [i \in Live |-> groups[i - offset + 1]]
  BY DEF Kept, Group
<1>12. offset..(offset + (n + 1) - 1) = offset..Arrived
  BY <1>7
<1>13. ASSUME NEW i \in Live
       PROVE  /\ i \in offset..Arrived /\ i # Arrived /\ i - offset + 1 \in 1..n
              /\ gs[i - offset + 1] = Kept[i] /\ Kept[i] # None
  <2>1. i \in offset..Arrived /\ i # Arrived
    BY <1>7, <1>10
  <2> QED BY <2>1, <1>4, <1>9, <1>10, <1>11
<1>14. ASSUME NEW i \in Live'
       PROVE  /\ i \in offset..Arrived /\ i - offset + 1 \in 1..(n + 1) /\ i - offset + 1 \notin old
              /\ Kept'[i] = gs[i - offset + 1] /\ gs[i - offset + 1] # None
              /\ i = Arrived \/ i \in Live
  <2>1. i \in offset..Arrived /\ swept[i - offset + 1] # None /\ Kept'[i] = swept[i - offset + 1]
    BY <1>8, <1>12
  <2>2. i - offset + 1 \in 1..(n + 1)
    BY <2>1, <1>9
  <2>3. i - offset + 1 \notin old /\ swept[i - offset + 1] = gs[i - offset + 1]
    BY <2>1, <2>2, <1>6
  <2>4. i # Arrived => i \in offset..(Arrived - 1) /\ i - offset + 1 \in 1..n
    BY <2>1, <1>7, <1>9
  <2>5. i # Arrived => i \in Live
    BY <2>1, <2>3, <2>4, <1>4, <1>10
  <2> QED BY <2>1, <2>2, <2>3, <2>5
<1>15. ASSUME NEW i \in offset..Arrived, i - offset + 1 \notin old, gs[i - offset + 1] # None
       PROVE  i \in Live'
  <2>1. swept[i - offset + 1] # None
    BY <1>15, <1>9, <1>6
  <2> QED BY <2>1, <1>8, <1>12
<1>16. Arrived \in offset..Arrived /\ gs[Arrived - offset + 1] = new
  BY <1>7, <1>9, <1>4
<1>17. \A i \in Live : Kept[i].sequence = top => i \in Live'
  BY <1>13, <1>15, <1>5
<1>18. s = top => Arrived \in Live'
  BY <1>2, <1>5, <1>15, <1>16
<1>19. duplicates' = {Kept'[i].sequence : i \in Live'}
  <2> DEFINE Slot(i) == gs[i - offset + 1]
             All == Live \cup {Arrived}
  <2>1. duplicates \cup {s} = {Slot(i).sequence : i \in All}
    BY <1>2, <1>13, <1>16 DEF CacheInv
  <2>2. \A i, j \in All : Slot(i).sequence = Slot(j).sequence => i = j
    BY <1>2, <1>13, <1>16 DEF CacheInv
  <2>3. ASSUME NEW k \in old
        PROVE  \E j \in All : k = j - offset + 1
    <3>1. k \in 1..(n + 1) /\ gs[k] # None
      BY <1>5
    <3>2. PICK j \in offset..Arrived : k = j - offset + 1
      <4>1. k + offset - 1 \in offset..Arrived /\ k = (k + offset - 1) - offset + 1
        BY <3>1, <1>7
      <4> QED BY <4>1
    <3>3. j # Arrived => j \in offset..(Arrived - 1) /\ k \in 1..n
      BY <3>2, <1>7, <1>9
    <3>4. j # Arrived => j \in Live
      BY <3>1, <3>2, <3>3, <1>4, <1>10
    <3> QED BY <3>2, <3>4
  <2>4. {gs[k].sequence : k \in old} = {Slot(i).sequence : i \in {j \in All : j - offset + 1 \in old}}
    BY <2>3
  <2>5. Live' = {i \in All : i - offset + 1 \notin old}
    <3>1. \A i \in All : i \in offset..Arrived /\ gs[i - offset + 1] # None
      BY <1>2, <1>13, <1>16
    <3> QED BY <3>1, <1>14, <1>15
  <2>6. \A i \in Live' : Kept'[i].sequence = Slot(i).sequence
    BY <1>14
  <2> HIDE DEF Slot, All
  <2>7. {Slot(i).sequence : i \in All} \ {Slot(i).sequence : i \in {j \in All : j - offset + 1 \in old}}
            = {Slot(i).sequence : i \in Live'}
    BY <2>2, <2>5
  <2>8. duplicates' = {Slot(i).sequence : i \in Live'}
    BY <1>1, <2>1, <2>4, <2>7
  <2> QED BY <2>6, <2>8
<1>20. Arrived' = Arrived + 1
  BY <1>7, <1>8
<1>21. \A i \in Live' : i \in Live => Kept'[i] = Kept[i]
  BY <1>13, <1>14
<1>22. Arrived \in Live' => Kept'[Arrived].sequence = s /\ Kept'[Arrived].created = now
  BY <1>2, <1>14, <1>16
<1>23. Live' \subseteq Live \cup {Arrived}
  BY <1>14
<1>24. ASSUME NEW i \in Live', Kept'[i].sequence # top
       PROVE  now - Kept'[i].created <= MaxAge
  <2>1. now \in Nat /\ MaxAge \in Nat
    BY BoundsAssumption DEF Types
  <2>2. CASE i = Arrived
    BY <1>22, <2>1, <2>2
  <2>3. CASE i # Arrived
    <3>1. i \in Live /\ Kept'[i] = Kept[i] /\ i - offset + 1 \in 1..n
      BY <2>3, <1>13, <1>14
    <3>2. PICK e \in Nat : e = SweepEnd(gs, top)
      BY <1>0
    <3>3. e <= i - offset + 1
      <4>1. i - offset + 1 \in 1..(n + 1) /\ i - offset + 1 \notin old
            /\ gs[i - offset + 1] # None /\ gs[i - offset + 1].sequence # top
        BY <1>14, <1>24
      <4> QED BY <4>1, <3>2, <1>0
    <3>4. e # n + 2
      BY <3>1, <3>3
    <3>5. e \in 1..(n + 1) /\ Fresh(gs[e], top)
      BY <3>2, <3>4, <1>0
    <3>6. i \in Nat /\ i <= Arrived - 1
      BY <3>1, <1>10, <1>7
    <3>7. PICK j \in offset..(Arrived - 1) : j - offset + 1 = e /\ j <= i /\ e \in 1..n
      <4>1. /\ e + offset - 1 \in offset..(Arrived - 1) /\ (e + offset - 1) - offset + 1 = e
            /\ e + offset - 1 <= i /\ e \in 1..n
        BY <3>1, <3>3, <3>5, <3>6, <1>7
      <4> QED BY <4>1
    <3>8. j \in Live /\ Kept[j] = gs[e]
      BY <3>5, <3>7, <1>4, <1>10, <1>11 DEF Fresh
    <3>9. now - Kept[j].created <= MaxAge /\ Kept[j].created <= Kept[i].created
      BY <3>1, <3>5, <3>7, <3>8 DEF Fresh, TimeInv
    <3>10. Kept[i].created \in Nat /\ Kept[j].created \in Nat
      BY <3>1, <3>8, KeptTypes DEF Groups
    <3> QED BY <2>1, <3>1, <3>9, <3>10
  <2> QED BY <2>2, <2>3
<1> QED BY <1>1, <1>8, <1>17, <1>18, <1>19, <1>20, <1>21, <1>22, <1>23, <1>24 DEF top
-----------------------------------------------------------------------------
(* The handles.                                                             *)

(* The handles can be counted.                                              *)
LEMMA FiniteHandles ==
    /\ IsFiniteSet(Holding) /\ IsFiniteSet(Waiting)
    /\ Cardinality(Holding) \in Nat /\ Cardinality(Waiting) \in Nat
<1>1. Holding \subseteq Writers /\ Waiting \subseteq Watchers
  BY DEF Holding, Waiting
<1> QED BY <1>1, HandlesAssumption, FS_Subset, FS_CardinalityType

(* A writer that finds the count at one is alone.                           *)
LEMMA LastAlone ==
    ASSUME Types, HandlesInv, NEW w \in Writers, pc[w] = "held", count = 1,
           NEW v \in Writers, pc[v] = "held"
    PROVE  v = w
<1>1. w \in Holding /\ v \in Holding
  BY DEF Holding
<1>2. Cardinality(Holding \ {w}) = Cardinality(Holding) - 1 /\ IsFiniteSet(Holding \ {w})
  BY <1>1, FiniteHandles, FS_RemoveElement
<1>3. Cardinality(Holding \ {w}) \in Nat
  BY <1>2, FS_CardinalityType
<1>4. Cardinality(Holding \ {w}) = 0
  BY <1>2, <1>3, FiniteHandles DEF HandlesInv
<1>5. Holding \ {w} = {}
  BY <1>2, <1>4, FS_EmptySet
<1> QED BY <1>1, <1>5

(* Every step keeps the count, and nobody becomes a writer once none is.    *)
LEMMA HandlesStep ==
    ASSUME Types, HandlesInv, [Next]_vars
    PROVE  HandlesInv' /\ (Active' => Active)
<1>1. CASE UNCHANGED <<count, pc, watch>>
  <2>1. UNCHANGED <<Holding, Waiting>> /\ HandlesInv'
    BY <1>1 DEF HandlesInv, Holding, Waiting
  <2>2. closed => closed'
    BY <1>1 DEF Next, Write, Drop, Read, CreateGroup, AppendGroup, Finish, FinishAt, Abort, Fill, Tick,
           CloneProducer, DropCheck, DropClear, DropCount, DropClose, Watch, WatchDone, WatchClose,
           RecvGroup, ReadFrame, channel, vars
  <2> QED BY <1>1, <2>1, <2>2 DEF Active
<1>2. ASSUME NEW w \in Writers, NEW v \in Writers, CloneProducer(w, v)
      PROVE  HandlesInv' /\ (Active' => Active)
  <2>1. v \notin Holding /\ Holding' = Holding \cup {v} /\ Waiting' = Waiting
    BY <1>2 DEF CloneProducer, Step, Types, Holding, Waiting
  <2>2. Cardinality(Holding') = Cardinality(Holding) + 1
    BY <2>1, FiniteHandles, FS_AddElement
  <2>3. count' = Cardinality(Holding') + Cardinality(Waiting')
    BY <1>2, <2>1, <2>2, FiniteHandles DEF CloneProducer, HandlesInv
  <2>4. \A u, x \in Writers : pc'[u] = "clearing" => pc'[x] # "held"
    BY <1>2 DEF CloneProducer, Step, Types, HandlesInv
  <2>5. Active' => Active
    BY <1>2 DEF CloneProducer, Active
  <2> QED BY <2>3, <2>4, <2>5 DEF HandlesInv
<1>3. ASSUME NEW w \in Writers, DropCheck(w)
      PROVE  HandlesInv' /\ (Active' => Active)
  <2>1. Holding' = Holding /\ Waiting' = Waiting
    BY <1>3 DEF DropCheck, Step, Types, Holding, Waiting
  <2>2. ASSUME NEW u \in Writers, NEW x \in Writers, pc'[u] = "clearing", pc'[x] = "held" PROVE FALSE
    <3>1. pc[x] = "held" /\ x # w /\ pc[w] = "held"
      BY <1>3, <2>2 DEF DropCheck, Step, Types
    <3>2. u = w => count = 1
      BY <1>3, <2>2 DEF DropCheck, Step, Types
    <3>3. u # w => pc[u] = "clearing"
      BY <1>3, <2>2 DEF DropCheck, Step, Types
    <3> QED BY <3>1, <3>2, <3>3, LastAlone DEF HandlesInv
  <2>3. Active' => Active
    BY <1>3 DEF DropCheck, Active
  <2> QED BY <1>3, <2>1, <2>2, <2>3 DEF DropCheck, HandlesInv
<1>4. ASSUME NEW w \in Writers, DropClear(w)
      PROVE  HandlesInv' /\ (Active' => Active)
  <2>1. Holding' = Holding /\ Waiting' = Waiting
    BY <1>4 DEF DropClear, Step, Types, Holding, Waiting
  <2>2. \A u, x \in Writers : pc'[u] = "clearing" => pc'[x] # "held"
    BY <1>4 DEF DropClear, Step, Types, HandlesInv
  <2>3. Active' => Active
    BY <1>4 DEF DropClear, Step, Types, Active
  <2> QED BY <1>4, <2>1, <2>2, <2>3 DEF DropClear, HandlesInv
<1>5. ASSUME NEW w \in Writers, DropCount(w)
      PROVE  HandlesInv' /\ (Active' => Active)
  <2>1. w \in Holding /\ Holding' = Holding \ {w} /\ Waiting' = Waiting
    BY <1>5 DEF DropCount, Step, Types, Holding, Waiting
  <2>2. Cardinality(Holding') = Cardinality(Holding) - 1
    BY <2>1, FiniteHandles, FS_RemoveElement
  <2>3. count' = Cardinality(Holding') + Cardinality(Waiting')
    BY <1>5, <2>1, <2>2, FiniteHandles DEF DropCount, HandlesInv
  <2>4. \A u, x \in Writers : pc'[u] = "clearing" => pc'[x] # "held"
    BY <1>5 DEF DropCount, Step, Types, HandlesInv
  <2>5. Active' => Active
    BY <1>5 DEF DropCount, Step, Types, Active
  <2> QED BY <2>3, <2>4, <2>5 DEF HandlesInv
<1>6. ASSUME NEW w \in Writers, DropClose(w)
      PROVE  HandlesInv' /\ (Active' => Active)
  <2>1. Holding' = Holding /\ Waiting' = Waiting
    BY <1>6 DEF DropClose, Step, Types, Holding, Waiting
  <2>2. \A u, x \in Writers : pc'[u] = "clearing" => pc'[x] # "held"
    BY <1>6 DEF DropClose, Step, Types, HandlesInv
  <2> QED BY <1>6, <2>1, <2>2 DEF DropClose, HandlesInv, Active
<1>7. ASSUME NEW d \in Watchers, Watch(d)
      PROVE  HandlesInv' /\ (Active' => Active)
  <2>1. d \notin Waiting /\ Waiting' = Waiting \cup {d} /\ Holding' = Holding
    BY <1>7 DEF Watch, Types, Holding, Waiting
  <2>2. Cardinality(Waiting') = Cardinality(Waiting) + 1
    BY <2>1, FiniteHandles, FS_AddElement
  <2>3. count' = Cardinality(Holding') + Cardinality(Waiting')
    BY <1>7, <2>1, <2>2, FiniteHandles DEF Watch, HandlesInv
  <2> QED BY <1>7, <2>3 DEF Watch, HandlesInv, Active
<1>8. ASSUME NEW d \in Watchers, WatchDone(d)
      PROVE  HandlesInv' /\ (Active' => Active)
  <2>1. d \in Waiting /\ Waiting' = Waiting \ {d} /\ Holding' = Holding
    BY <1>8 DEF WatchDone, Types, Holding, Waiting
  <2>2. Cardinality(Waiting') = Cardinality(Waiting) - 1
    BY <2>1, FiniteHandles, FS_RemoveElement
  <2>3. count' = Cardinality(Holding') + Cardinality(Waiting')
    BY <1>8, <2>1, <2>2, FiniteHandles DEF WatchDone, HandlesInv
  <2> QED BY <1>8, <2>3 DEF WatchDone, HandlesInv, Active
<1>9. ASSUME NEW d \in Watchers, WatchClose(d)
      PROVE  HandlesInv' /\ (Active' => Active)
  <2>1. Waiting' = Waiting /\ Holding' = Holding
    BY <1>9 DEF WatchClose, Types, Holding, Waiting
  <2> QED BY <1>9, <2>1 DEF WatchClose, HandlesInv, Active
<1>10. ASSUME NEW w \in Writers, Write(w), \A v \in Writers : ~ CloneProducer(w, v)
       PROVE  UNCHANGED <<count, pc, watch>>
  BY <1>10 DEF Write, CreateGroup, AppendGroup, Finish, FinishAt, Abort, channel
<1>11. ASSUME \/ \E i \in Live, f \in Frames : Fill(i, f)
              \/ Tick
              \/ \E r \in Readers : Read(r)
              \/ UNCHANGED vars
       PROVE  UNCHANGED <<count, pc, watch>>
  BY <1>11 DEF Fill, Tick, Read, RecvGroup, ReadFrame, channel, vars
<1> QED
  BY <1>1, <1>2, <1>3, <1>4, <1>5, <1>6, <1>7, <1>8, <1>9, <1>10, <1>11 DEF Next, Drop
-----------------------------------------------------------------------------
(* The cache.                                                               *)

(* A step may leave the groups where they are, clear them when nobody can   *)
(* write any more, or add one.                                              *)
Stays ==
    /\ Live' = Live /\ Arrived' = Arrived /\ max' = max /\ duplicates' = duplicates
    /\ \A i \in Live : Kept'[i].sequence = Kept[i].sequence /\ Kept'[i].created = Kept[i].created

Clears == Live' = {} /\ Arrived' <= Arrived /\ duplicates' = {} /\ max' = max /\ ~Active'

Adds(s) ==
    /\ Active /\ now' = now /\ Arrived < MaxGroups
    /\ s \notin duplicates /\ max' = Latest(s) /\ Arrived' = Arrived + 1
    /\ Live' \subseteq Live \cup {Arrived}
    /\ \A i \in Live' : i \in Live => Kept'[i] = Kept[i]
    /\ Arrived \in Live' => Kept'[Arrived].sequence = s /\ Kept'[Arrived].created = now
    /\ \A i \in Live : Kept[i].sequence = Latest(s) => i \in Live'
    /\ s = Latest(s) => Arrived \in Live'
    /\ duplicates' = {Kept'[i].sequence : i \in Live'}
    /\ \A i \in Live' : Kept'[i].sequence = max' \/ now - Kept'[i].created <= MaxAge

CacheTypes ==
    /\ groups \in Seq(Groups \cup {None}) /\ offset \in Nat /\ now \in Nat
    /\ max \in Sequences \cup {None}

(* The writer of a group changes its frame and nothing else.                *)
LEMMA FillEffect ==
    ASSUME Types, NEW i \in Live, NEW f \in Frames, Fill(i, f)
    PROVE  CacheTypes' /\ Stays
<1>1. PICK k \in 1..Len(groups) : k = i - offset + 1
  BY DEF Types, Live, Arrived
<1>2. groups[k] \in Groups /\ groups[k] # None
  BY <1>1 DEF Types, Live, Group
<1>3. groups' = [groups EXCEPT ![k] = [groups[k] EXCEPT !.frame = f]]
  BY <1>1 DEF Fill
<1> DEFINE g == [groups[k] EXCEPT !.frame = f]
<1>4. g \in Groups /\ g # None /\ g.sequence = groups[k].sequence /\ g.created = groups[k].created
  BY <1>2, NoneAssumption DEF Groups
<1> HIDE DEF g
<1>5. groups' = [groups EXCEPT ![k] = g]
  BY <1>3 DEF g
<1>6. /\ groups' \in Seq(Groups \cup {None}) /\ Len(groups') = Len(groups)
      /\ groups'[k] = g /\ \A j \in 1..Len(groups) : j # k => groups'[j] = groups[j]
  BY <1>4, <1>5 DEF Types
<1>7. offset' = offset /\ max' = max /\ now' = now /\ duplicates' = duplicates
  BY DEF Fill, ends
<1>8. Arrived' = Arrived
  BY <1>6, <1>7 DEF Arrived
<1>9. ASSUME NEW j \in offset..(Arrived - 1)
      PROVE  /\ groups'[j - offset + 1] # None <=> groups[j - offset + 1] # None
             /\ groups[j - offset + 1] # None =>
                  /\ groups'[j - offset + 1].sequence = groups[j - offset + 1].sequence
                  /\ groups'[j - offset + 1].created = groups[j - offset + 1].created
  <2>1. j - offset + 1 \in 1..Len(groups)
    BY DEF Types, Arrived
  <2> QED BY <2>1, <1>2, <1>4, <1>6
<1>10. Live' = Live
  BY <1>7, <1>8, <1>9 DEF Live, Group
<1>11. \A j \in Live : Kept'[j].sequence = Kept[j].sequence /\ Kept'[j].created = Kept[j].created
  BY <1>7, <1>9, <1>10 DEF Live, Kept, Group
<1> QED BY <1>6, <1>7, <1>8, <1>10, <1>11 DEF CacheTypes, Stays, Types

(* append_group does not ask the filter, and need not.                      *)
LEMMA AppendIsNew ==
    ASSUME Types, CacheInv
    PROVE  (IF max = None THEN 0 ELSE max + 1) \notin duplicates
<1>1. CASE max = None
  BY <1>1 DEF CacheInv
<1>2. CASE max # None
  <2>1. max \in Nat
    BY <1>2, Numbers DEF Types
  <2>2. \A i \in Live : Kept[i].sequence \in Nat /\ Kept[i].sequence <= max
    BY KeptTypes, Numbers DEF CacheInv, Groups
  <2>3. \A i \in Live : Kept[i].sequence # max + 1
    BY <2>1, <2>2
  <2> QED BY <1>2, <2>3 DEF CacheInv
<1> QED BY <1>1, <1>2

(* Every step is one of the three.                                          *)
LEMMA CacheStep ==
    ASSUME Types, HandlesInv, CacheInv, TimeInv, [Next]_vars
    PROVE  /\ CacheTypes' /\ now <= now'
           /\ Stays \/ Clears \/ \E s \in Sequences : Adds(s)
<1> DEFINE Goal == /\ CacheTypes' /\ now <= now'
                   /\ Stays \/ Clears \/ \E s \in Sequences : Adds(s)
<1>1. CASE UNCHANGED <<groups, offset, duplicates, max, now>>
  BY <1>1, SameCache DEF Stays, CacheTypes, Types
<1>2. CASE Tick
  BY <1>2, SameCache DEF Tick, Stays, CacheTypes, cache, ends, Types
<1>3. ASSUME NEW i \in Live, NEW f \in Frames, Fill(i, f) PROVE Goal
  <2>1. CacheTypes' /\ Stays
    BY <1>3, FillEffect
  <2>2. now' = now /\ now \in Nat
    BY <1>3 DEF Fill, Types
  <2> QED BY <2>1, <2>2
<1>4. ASSUME NEW w \in Writers, Active, NEW s \in Sequences, s \notin duplicates, Push(s), now' = now,
             Arrived < MaxGroups
      PROVE  Goal
  <2>1. max' \in Sequences \cup {None}
    BY <1>4, PushEffect DEF Latest, Types
  <2>4. now \in Nat /\ now <= now'
    BY <1>4 DEF Types
  <2>2. CacheTypes'
    BY <1>4, <2>1, <2>4, PushEffect DEF CacheTypes
  <2>3. Adds(s)
    BY <1>4, PushEffect DEF Adds
  <2> QED BY <1>4, <2>2, <2>3, <2>4
<1>5. ASSUME NEW w \in Writers, NEW s \in Sequences, CreateGroup(w, s) PROVE Goal
  BY <1>4, <1>5 DEF CreateGroup, Active
<1>6. ASSUME NEW w \in Writers, AppendGroup(w) PROVE Goal
  <2>1. PICK s : s = IF max = None THEN 0 ELSE max + 1
    OBVIOUS
  <2>2. s <= MaxSequence /\ Push(s) /\ Active /\ now' = now /\ Arrived < MaxGroups
    BY <1>6, <2>1 DEF AppendGroup, Active
  <2>3. s \in Sequences
    BY <2>1, <2>2, BoundsAssumption DEF Sequences, Types
  <2> QED BY <1>4, <2>1, <2>2, <2>3, AppendIsNew
<1>7. ASSUME groups' = <<>>, duplicates' = {}, UNCHANGED <<offset, max, now>>, ~Active' PROVE Goal
  BY <1>7, ClearedCache DEF Clears, CacheTypes, Types
<1>8. ASSUME NEW w \in Writers, Abort(w) PROVE Goal
  BY <1>7, <1>8 DEF Abort, Active
<1>9. ASSUME NEW w \in Writers, DropClear(w) PROVE Goal
  <2>1. ~Active'
    BY <1>9 DEF DropClear, HandlesInv, Active, Step, Types
  <2> QED BY <1>1, <1>7, <1>9, <2>1 DEF DropClear, ends
<1>11. ASSUME \/ \E d \in Watchers : Watch(d) \/ WatchDone(d) \/ WatchClose(d)
              \/ \E r \in Readers : Read(r)
              \/ UNCHANGED vars
       PROVE  UNCHANGED <<groups, offset, duplicates, max, now>>
  BY <1>11 DEF Watch, WatchDone, WatchClose, Read, RecvGroup, ReadFrame, cache, ends, vars
<1> HIDE DEF Goal
<1>12. UNCHANGED <<groups, offset, duplicates, max, now>> => Goal
  BY <1>1 DEF Goal
<1>13. Tick => Goal
  BY <1>2 DEF Goal
<1>14. ASSUME NEW w \in Writers, Write(w) \/ DropCheck(w) \/ Drop(w) PROVE Goal
  <2>1. \/ \E s \in Sequences : CreateGroup(w, s)
        \/ AppendGroup(w) \/ Abort(w) \/ DropClear(w)
        \/ UNCHANGED <<groups, offset, duplicates, max, now>>
    <3>1. CASE \/ \E s \in Sequences : CreateGroup(w, s)
               \/ AppendGroup(w) \/ Abort(w) \/ DropClear(w)
      BY <3>1
    <3>2. CASE \/ \E s \in Sequences : FinishAt(w, s)
               \/ Finish(w)
               \/ \E v \in Writers : CloneProducer(w, v)
               \/ DropCheck(w) \/ DropCount(w) \/ DropClose(w)
      BY <3>2 DEF FinishAt, Finish, CloneProducer, DropCheck, DropCount, DropClose, cache, ends
    <3> QED BY <3>1, <3>2, <1>14, Zenon DEF Write, Drop
  <2> QED BY <1>5, <1>6, <1>8, <1>9, <1>12, <2>1
<1>15. Goal
  BY <1>3, <1>11, <1>12, <1>13, <1>14 DEF Next
<1> QED BY <1>15 DEF Goal
(* The filter, the latest group and the order of creation survive each of   *)
(* the three.                                                               *)
LEMMA CacheKept ==
    ASSUME Types, HandlesInv, CacheInv, TimeInv, [Next]_vars
    PROVE  CacheInv' /\ TimeInv'
<1>1. now <= now' /\ now \in Nat /\ now' \in Nat /\ max' \in Sequences \cup {None} /\ (Active' => Active)
  BY CacheStep, HandlesStep DEF Types, CacheTypes
<1>2. \A i \in Live : /\ i \in Nat /\ i < Arrived /\ Kept[i].sequence \in Nat /\ Kept[i].created \in Nat
  BY KeptTypes, Numbers DEF Groups
<1>3. CASE Stays
  <2>1. CacheInv'
    <3>1. Live' = Live /\ max' = max /\ duplicates' = duplicates
          /\ \A i \in Live : Kept'[i].sequence = Kept[i].sequence
      BY <1>3 DEF Stays
    <3>2. duplicates = {Kept'[i].sequence : i \in Live}
      BY <3>1 DEF CacheInv
    <3>3. duplicates' = {Kept'[i].sequence : i \in Live'}
      BY <3>1, <3>2
    <3>4. \A i, j \in Live' : Kept'[i].sequence = Kept'[j].sequence => i = j
      BY <3>1 DEF CacheInv
    <3>5. \A i \in Live' : max' # None /\ Kept'[i].sequence <= max'
      BY <3>1 DEF CacheInv
    <3>6. max' # None /\ Active' => \E i \in Live' : Kept'[i].sequence = max'
      BY <1>1, <3>1 DEF CacheInv
    <3> QED BY <3>3, <3>4, <3>5, <3>6 DEF CacheInv
  <2>2. \A i \in Live : Kept[i].created <= now'
    BY <1>1, <1>2 DEF TimeInv
  <2>3. TimeInv'
    BY <1>3, <2>2 DEF TimeInv, Stays
  <2> QED BY <2>1, <2>3
<1>4. CASE Clears
  BY <1>4 DEF Clears, CacheInv, TimeInv
<1>5. ASSUME NEW s \in Sequences, Adds(s) PROVE CacheInv' /\ TimeInv'
  <2>1. s \in Nat /\ Arrived \in Nat
    BY Numbers, KeptTypes
  <2>2. ASSUME NEW i \in Live'
        PROVE  \/ i \in Live /\ Kept'[i] = Kept[i] /\ i # Arrived
               \/ i = Arrived /\ Kept'[i].sequence = s /\ Kept'[i].created = now
    BY <1>2, <1>5, <2>1 DEF Adds
  <2>3. \A i \in Live : Kept[i].sequence # s
    BY <1>5 DEF Adds, CacheInv
  <2>4. \A i, j \in Live' : Kept'[i].sequence = Kept'[j].sequence => i = j
    BY <2>2, <2>3 DEF CacheInv
  <2>5. /\ max' = Latest(s) /\ max' # None /\ s <= max'
        /\ max # None => max <= max' /\ max \in Nat /\ max' \in Nat
    <3>1. max' = Latest(s)
      BY <1>5 DEF Adds
    <3>2. max # None => max \in Nat
      BY Numbers DEF Types
    <3> QED BY <2>1, <3>1, <3>2, NoneAssumption DEF Latest
  <2>6. ASSUME NEW i \in Live' PROVE Kept'[i].sequence <= max'
    <3>1. CASE i \in Live /\ Kept'[i] = Kept[i]
      <4>1. max # None /\ Kept[i].sequence <= max /\ Kept[i].sequence \in Nat
        BY <1>2, <3>1 DEF CacheInv
      <4> QED BY <2>5, <3>1, <4>1, Chain
    <3>2. CASE Kept'[i].sequence = s
      BY <2>5, <3>2
    <3> QED BY <2>2, <3>1, <3>2
  <2>7. \E i \in Live' : Kept'[i].sequence = max'
    <3>1. CASE s = Latest(s)
      BY <1>5, <3>1, <2>5 DEF Adds
    <3>2. CASE s # Latest(s)
      <4>1. max # None /\ max' = max /\ max = Latest(s)
        BY <3>2, <2>5 DEF Latest
      <4>2. PICK i \in Live : Kept[i].sequence = max
        BY <1>5, <4>1 DEF CacheInv, Adds
      <4>3. i \in Live' /\ Kept'[i] = Kept[i]
        BY <1>5, <4>1, <4>2 DEF Adds
      <4> QED BY <4>1, <4>2, <4>3
    <3> QED BY <3>1, <3>2
  <2>8. CacheInv'
    BY <1>5, <2>4, <2>5, <2>6, <2>7 DEF CacheInv, Adds
  <2>9. now' = now
    BY <1>5 DEF Adds
  <2>10. ASSUME NEW i \in Live' PROVE Kept'[i].created <= now'
    BY <1>1, <2>2, <2>9 DEF TimeInv
  <2>11. ASSUME NEW i \in Live', NEW j \in Live', i <= j PROVE Kept'[i].created <= Kept'[j].created
    <3>1. CASE j = Arrived
      BY <1>2, <2>2, <2>9, <2>10, <3>1
    <3>2. CASE j # Arrived
      <4>1. j \in Live /\ Kept'[j] = Kept[j] /\ i # Arrived
        BY <1>2, <2>1, <2>2, <2>11, <3>2
      <4>2. i \in Live /\ Kept'[i] = Kept[i]
        BY <2>2, <4>1
      <4> QED BY <2>11, <4>1, <4>2 DEF TimeInv
    <3> QED BY <3>1, <3>2
  <2> QED BY <2>8, <2>10, <2>11 DEF TimeInv
<1> QED BY <1>3, <1>4, <1>5, CacheStep

-----------------------------------------------------------------------------
(* The readers.                                                             *)

(* What a reader has been given lies behind its cursor, in order and at or  *)
(* below the latest; a group at the very top of the range is given once     *)
(* because it is the latest, which stays and cannot be created again.       *)
Order(r) ==
    /\ Active => index[r] <= Arrived
    /\ \A k \in DOMAIN got[r] :
          /\ got[r][k].at < index[r]
          /\ max # None /\ got[r][k].sequence <= max
          /\ got[r][k].sequence = MaxSequence =>
                \A i \in Live : Kept[i].sequence = MaxSequence => i < index[r]
          /\ mode[r] # "recv" =>
                \/ got[r][k].sequence < next[r]
                \/ got[r][k].sequence = MaxSequence /\ next[r] = MaxSequence
    /\ \A k \in 1..(Len(got[r]) - 1) :
          /\ got[r][k].at < got[r][k + 1].at
          /\ mode[r] # "recv" => got[r][k].sequence < got[r][k + 1].sequence

Missed(r) ==
    mode[r] # "read" =>
        \A i \in Live : i < index[r] =>
            \/ \E k \in DOMAIN got[r] : got[r][k].at = i
            \/ Kept[i].sequence < least[r]
            \/ mode[r] = "next" /\ Kept[i].sequence < next[r]

(* A step of reader r moves its cursor past group i, and gives it the group *)
(* unless next_group finds it late.                                         *)
Passes(r, i) ==
    /\ i \in Live /\ index[r] <= i
    /\ index' = [index EXCEPT ![r] = i + 1]
    /\ mode[r] # "read" => \A j \in Live : index[r] <= j /\ j < i => Kept[j].sequence < least[r]
    /\ \/ /\ mode[r] = "next" /\ Kept[i].sequence < next[r]
          /\ UNCHANGED <<next, got>>
       \/ /\ got' = [got EXCEPT ![r] = Append(@, [at |-> i, sequence |-> Kept[i].sequence])]
          /\ mode[r] # "recv" => next[r] <= Kept[i].sequence
          /\ next' = IF mode[r] = "recv" THEN next ELSE [next EXCEPT ![r] = After(Kept[i].sequence)]

(* RecvGroup and ReadFrame either leave the cursor or pass a group.         *)
LEMMA ReadEffect ==
    ASSUME Types, NEW r \in Readers, Read(r)
    PROVE  /\ UNCHANGED <<groups, offset, max, closed, pc, mode, least>>
           /\ UNCHANGED <<index, next, got>> \/ \E i \in Live : Passes(r, i)
<1>1. UNCHANGED <<groups, offset, max, closed, pc, mode, least>>
  BY DEF Read, RecvGroup, ReadFrame, cache, ends, channel
<1>2. \A i \in Live : Kept[i] = Group(i) /\ Kept[i].sequence \in Nat /\ i \in Nat
  <2>1. \A i \in Live : Kept[i] = Group(i)
    BY DEF Kept
  <2>2. \A i \in Live : i \in Nat /\ Kept[i].sequence \in Sequences
    BY KeptTypes DEF Groups
  <2> QED BY <2>1, <2>2, Numbers, Zenon
<1>3. index[r] \in Nat /\ least[r] \in Nat /\ next[r] \in Nat /\ mode[r] \in {"recv", "next", "read"}
  <2>1. next[r] \in Sequences /\ index[r] \in Nat /\ least[r] \in Nat /\ mode[r] \in {"recv", "next", "read"}
    BY DEF Types
  <2>2. \A x \in Sequences : x \in Nat
    BY Numbers, Zenon
  <2> QED BY <2>1, <2>2
<1>4. CASE RecvGroup(r)
  <2> DEFINE ahead == Ahead(r, least[r])
  <2>1. CASE ahead = {}
    <3>1. UNCHANGED <<index, next, got>>
      BY <1>4, <2>1, Zenon DEF RecvGroup, NothingLeft
    <3> QED BY <1>1, <3>1
  <2>2. CASE ahead # {}
    <3>1. ahead \subseteq Nat /\ ahead \subseteq Live
      BY <1>2 DEF Ahead
    <3>2. PICK i \in ahead : i = Min(ahead) /\ \A j \in ahead : i <= j
      BY <2>2, <3>1, MinNat
    <3>3. mode[r] # "read"
      BY <1>4 DEF RecvGroup, Reading
    <3>4. /\ index' = [index EXCEPT ![r] = i + 1]
          /\ IF mode[r] = "next" /\ Group(i).sequence < next[r]
             THEN UNCHANGED <<next, got>>
             ELSE /\ Deliver(r, i)
                  /\ next' = IF mode[r] = "next"
                             THEN [next EXCEPT ![r] = After(Group(i).sequence)] ELSE next
      BY <1>4, <2>2, <3>2 DEF RecvGroup
    <3>5. i \in Live /\ index[r] <= i /\ Group(i) = Kept[i]
      BY <1>2, <1>3, <3>1, <3>2 DEF Ahead
    <3>6. ASSUME NEW j \in Live, index[r] <= j, j < i PROVE Kept[j].sequence < least[r]
      <4>1. j \notin ahead /\ j \in Nat
        BY <1>2, <3>1, <3>2, <3>6
      <4>2. ~ (Kept[j].sequence >= least[r])
        BY <1>2, <1>3, <3>6, <4>1 DEF Ahead
      <4> QED BY <1>2, <1>3, <4>2
    <3>9. \A j \in Live : index[r] <= j /\ j < i => Kept[j].sequence < least[r]
      BY <3>6
    <3> HIDE DEF ahead
    <3>7. CASE mode[r] = "next" /\ Kept[i].sequence < next[r]
      <4>1. UNCHANGED <<next, got>>
        BY <3>4, <3>5, <3>7
      <4>2. Passes(r, i)
        BY <3>4, <3>5, <3>7, <3>9, <4>1, Zenon DEF Passes
      <4> QED BY <1>1, <3>5, <4>2
    <3>8. CASE ~ (mode[r] = "next" /\ Kept[i].sequence < next[r])
      <4>1. mode[r] # "recv" => mode[r] = "next" /\ next[r] <= Kept[i].sequence
        <5>1. ~ (Kept[i].sequence < next[r]) => next[r] <= Kept[i].sequence
          BY <1>2, <1>3, <3>5
        <5> QED BY <1>3, <3>3, <3>8, <5>1
      <4>2. /\ got' = [got EXCEPT ![r] = Append(@, [at |-> i, sequence |-> Kept[i].sequence])]
            /\ next' = IF mode[r] = "recv" THEN next ELSE [next EXCEPT ![r] = After(Kept[i].sequence)]
        BY <3>4, <3>5, <3>8, <4>1 DEF Deliver
      <4>3. Passes(r, i)
        BY <3>4, <3>5, <3>9, <4>1, <4>2, Zenon DEF Passes
      <4> QED BY <1>1, <3>5, <4>3
    <3> QED BY <3>7, <3>8
  <2> QED BY <1>1, <2>1, <2>2
<1>5. CASE ReadFrame(r)
  <2> DEFINE bound == IF least[r] > next[r] THEN least[r] ELSE next[r]
             ahead == Ahead(r, bound)
             telling == {j \in ahead : Group(j).frame \in {"ready", "error"}}
  <2>1. \/ UNCHANGED <<index, next, got>>
        \/ /\ telling # {} /\ Deliver(r, Min(telling))
           /\ index' = [index EXCEPT ![r] = Min(telling) + 1]
           /\ next' = [next EXCEPT ![r] = After(Group(Min(telling)).sequence)]
    <3>1. CASE UNCHANGED <<index, next, got>>
      BY <3>1
    <3>2. CASE ~ UNCHANGED <<index, next, got>>
      BY <1>5, <3>2, Zenon DEF ReadFrame, NothingLeft
    <3> QED BY <3>1, <3>2
  <2> HIDE DEF bound
  <2>2. CASE telling # {} /\ ~ UNCHANGED <<index, next, got>>
    <3>1. telling \subseteq Nat /\ telling \subseteq ahead /\ ahead \subseteq Live
      BY <1>2 DEF Ahead
    <3>2. PICK i \in ahead : i = Min(telling)
      BY <2>2, <3>1, MinNat
    <3>3. i \in Live /\ index[r] <= i /\ Kept[i].sequence >= bound /\ Group(i) = Kept[i]
      BY <1>2, <1>3, <3>1, <3>2 DEF Ahead
    <3>4. next[r] <= Kept[i].sequence
      <4>1. bound \in Nat /\ next[r] <= bound
        BY <1>3 DEF bound
      <4>2. Kept[i].sequence \in Nat /\ bound <= Kept[i].sequence
        BY <1>2, <3>3, <4>1
      <4> QED BY <1>3, <4>1, <4>2, Chain
    <3>5. mode[r] = "read"
      BY <1>5 DEF ReadFrame, Reading
    <3>8. /\ Deliver(r, i) /\ index' = [index EXCEPT ![r] = i + 1]
          /\ next' = [next EXCEPT ![r] = After(Group(i).sequence)]
      BY <2>1, <2>2, <3>2, Zenon
    <3>6. /\ index' = [index EXCEPT ![r] = i + 1]
          /\ got' = [got EXCEPT ![r] = Append(@, [at |-> i, sequence |-> Kept[i].sequence])]
          /\ next' = [next EXCEPT ![r] = After(Kept[i].sequence)]
      BY <3>3, <3>8 DEF Deliver
    <3>7. Passes(r, i)
      BY <3>3, <3>4, <3>5, <3>6 DEF Passes
    <3> QED BY <1>1, <3>3, <3>7
  <2>3. CASE UNCHANGED <<index, next, got>>
    BY <1>1, <2>3
  <2>4. CASE telling = {} /\ ~ UNCHANGED <<index, next, got>>
    BY <2>1, <2>4, Zenon
  <2> QED BY <2>2, <2>3, <2>4, Zenon
<1> QED BY <1>4, <1>5 DEF Read
(* The step is not a reader's, or is a reader's.                            *)
NoReader == UNCHANGED <<mode, index, least, next, got>>
OnlyReader == UNCHANGED <<groups, offset, max, closed, pc, mode, least>>

(* Arithmetic around a cursor x that moves past i.                          *)
LEMMA PastCursor ==
    ASSUME NEW x \in Nat, NEW i \in Nat, x <= i
    PROVE  /\ i < i + 1 /\ ~ (i < x) /\ i + 1 \in Nat
           /\ \A j \in Nat : j < i + 1 => j < x \/ (x <= j /\ j < i) \/ j = i
           /\ \A j \in Nat : j < x => j < i /\ j < i + 1
           /\ \A j \in Nat : i < j => i + 1 <= j
OBVIOUS

(* What the saturating addition does to next_sequence.                      *)
LEMMA AfterRises ==
    ASSUME MaxSequence \in Nat, NEW q \in Nat, q <= MaxSequence
    PROVE  /\ After(q) \in Nat /\ After(q) <= MaxSequence /\ q <= After(q)
           /\ q < After(q) \/ (q = MaxSequence /\ After(q) = MaxSequence)
BY DEF After

(* What Append does to the entries of a reader's log.                       *)
LEMMA AppendSlots ==
    ASSUME NEW l \in Seq(Given), NEW g \in Given, NEW n \in Nat, n = Len(l), NEW m, m = Append(l, g)
    PROVE  /\ DOMAIN m = 1..(n + 1) /\ Len(m) = n + 1
           /\ m[n + 1] = g
           /\ \A k \in 1..n : m[k] = l[k]
OBVIOUS

(* The ranges that the argument about a reader uses.                        *)
LEMMA ReaderTypes ==
    ASSUME Types, NEW r \in Readers
    PROVE  /\ Arrived \in Nat /\ index[r] \in Nat /\ MaxSequence \in Nat
           /\ next[r] \in Nat /\ next[r] <= MaxSequence
           /\ \A j \in Live : j \in Nat /\ j < Arrived /\ Kept[j].sequence \in Nat /\ Kept[j].sequence <= MaxSequence
           /\ \A k \in DOMAIN got[r] : /\ got[r][k].at \in Nat
                                      /\ got[r][k].sequence \in Nat /\ got[r][k].sequence <= MaxSequence
           /\ max # None => max \in Nat /\ max <= MaxSequence
<1>0. MaxSequence \in Nat
  BY Numbers
<1>1. \A x \in Sequences : x \in Nat /\ x <= MaxSequence
  BY Numbers
<1>2. index[r] \in Nat /\ next[r] \in Sequences /\ (max # None => max \in Sequences) /\ got[r] \in Seq(Given)
  BY DEF Types
<1>3. \A j \in Live : j \in Nat /\ j < Arrived /\ Kept[j] \in Groups
  BY KeptTypes
<1>4. \A j \in Live : Kept[j].sequence \in Sequences
  BY <1>3 DEF Groups
<1>5. \A k \in DOMAIN got[r] : got[r][k] \in Given
  <2>1. got[r] \in Seq(Given)
    BY <1>2
  <2> QED BY <2>1
<1>6. \A k \in DOMAIN got[r] : got[r][k].at \in Nat /\ got[r][k].sequence \in Sequences
  BY <1>5 DEF Given
<1>7. Arrived \in Nat
  BY KeptTypes
<1> QED BY <1>0, <1>1, <1>2, <1>3, <1>4, <1>6, <1>7, Zenon

(* What the rest of the track does to a reader's view.                      *)
LEMMA OthersKeepOrder ==
    ASSUME Types, HandlesInv, CacheInv, TimeInv, [Next]_vars, NEW r \in Readers, Order(r), Missed(r),
           NoReader
    PROVE  Order(r)' /\ Missed(r)'
<1>0. mode' = mode /\ index' = index /\ least' = least /\ next' = next /\ got' = got
  BY DEF NoReader
<1>1. Active' => Active
  BY HandlesStep
<1>2. Arrived \in Nat /\ index[r] \in Nat /\ MaxSequence \in Nat
  BY ReaderTypes
<1>3. CASE Stays
  BY <1>0, <1>1, <1>3 DEF Stays, Order, Missed
<1>4. CASE Clears
  BY <1>0, <1>4 DEF Clears, Order, Missed
<1>5. ASSUME NEW s \in Sequences, Adds(s) PROVE Order(r)' /\ Missed(r)'
  <2>1. index[r] <= Arrived /\ Arrived' = Arrived + 1
    BY <1>5 DEF Adds, Order
  <2>2. /\ max' # None /\ max' \in Nat /\ s \in Nat /\ s <= MaxSequence
        /\ max # None => max \in Nat /\ max <= max' /\ max <= MaxSequence
    <3>1. max' = Latest(s)
      BY <1>5 DEF Adds
    <3>2. s \in Nat /\ s <= MaxSequence
      BY <1>2 DEF Sequences
    <3>3. max # None => max \in Nat /\ max <= MaxSequence
      BY ReaderTypes
    <3> QED BY <3>1, <3>2, <3>3, NoneAssumption DEF Latest
  <2>3. \A i \in Live' : i < index[r] => i \in Live /\ Kept'[i] = Kept[i]
    <3>1. ~ (Arrived < index[r])
      BY <1>2, <2>1
    <3> QED BY <1>5, <3>1 DEF Adds
  <2>4. Missed(r)'
    BY <1>0, <2>3 DEF Missed
  <2>5. index[r] <= Arrived'
    BY <1>2, <2>1
  <2>6. ASSUME NEW k \in DOMAIN got[r] PROVE max' # None /\ got[r][k].sequence <= max'
    <3>1. max # None /\ got[r][k].sequence <= max
      BY DEF Order
    <3>2. got[r][k].sequence \in Nat
      BY ReaderTypes
    <3> QED BY <2>2, <3>1, <3>2, Chain
  <2>7. ASSUME NEW k \in DOMAIN got[r], got[r][k].sequence = MaxSequence,
               NEW i \in Live', Kept'[i].sequence = MaxSequence
        PROVE  i < index[r]
    <3>1. max # None /\ max = MaxSequence
      <4>1. max # None /\ MaxSequence <= max
        BY <2>7 DEF Order
      <4> QED BY <1>2, <2>2, <4>1, Chain
    <3>2. \E j \in Live : Kept[j].sequence = MaxSequence
      BY <1>5, <3>1 DEF Adds, CacheInv
    <3>3. s # MaxSequence
      BY <1>5, <3>2 DEF Adds, CacheInv
    <3>4. i \in Live /\ Kept'[i] = Kept[i]
      BY <1>5, <2>7, <3>3 DEF Adds
    <3> QED BY <2>7, <3>4 DEF Order
  <2>8. Order(r)'
    BY <1>0, <2>5, <2>6, <2>7 DEF Order
  <2> QED BY <2>4, <2>8
<1> QED BY <1>3, <1>4, <1>5, CacheStep

(* What a step of the reader itself does.                                   *)
LEMMA PassKeepsOrder ==
    ASSUME Types, CacheInv, NEW r \in Readers, Order(r), Missed(r), NEW i \in Live, Passes(r, i),
           OnlyReader
    PROVE  Order(r)' /\ Missed(r)'
<1>0. max' = max /\ mode' = mode /\ least' = least
  BY DEF OnlyReader
<1>1. Live' = Live /\ Kept' = Kept /\ Arrived' = Arrived /\ (Active' <=> Active)
  BY SameCache DEF Active, OnlyReader
<1>2. /\ Arrived \in Nat /\ index[r] \in Nat /\ MaxSequence \in Nat
      /\ next[r] \in Nat /\ next[r] <= MaxSequence /\ i \in Nat /\ i < Arrived
  BY ReaderTypes
<1>8. index'[r] = i + 1 /\ index[r] <= i
  BY DEF Types, Passes
<1>9. \A j \in Live : j \in Nat /\ Kept[j].sequence \in Nat /\ Kept[j].sequence <= MaxSequence
  BY ReaderTypes
<1>10. \A k \in DOMAIN got[r] : got[r][k].sequence \in Nat /\ got[r][k].at \in Nat
  BY ReaderTypes
<1>4. /\ i < i + 1 /\ ~ (i < index[r])
      /\ \A j \in Nat : j < i + 1 => j < index[r] \/ (index[r] <= j /\ j < i) \/ j = i
  BY <1>2, <1>8, PastCursor
<1>5. \A j \in Nat : j < index[r] => j < i /\ j < i + 1
  BY <1>2, <1>8, PastCursor
<1>3. index'[r] <= Arrived'
  BY <1>1, <1>2, <1>8, PastCursor
<1>6. CASE UNCHANGED <<next, got>> /\ mode[r] = "next" /\ Kept[i].sequence < next[r]
  <2>1. Missed(r)'
    <3>1. ASSUME NEW j \in Live, j < i + 1
          PROVE  \/ \E k \in DOMAIN got[r] : got[r][k].at = j
                 \/ Kept[j].sequence < least[r]
                 \/ mode[r] = "next" /\ Kept[j].sequence < next[r]
      <4>1. j < index[r] \/ (index[r] <= j /\ j < i) \/ j = i
        BY <1>4, <1>9, <3>1
      <4> QED BY <1>6, <4>1, Zenon DEF Missed, Passes
    <3> QED BY <1>0, <1>1, <1>6, <1>8, <3>1 DEF Missed
  <2>2. ASSUME NEW k \in DOMAIN got[r]
        PROVE  /\ got[r][k].at < i + 1
               /\ got[r][k].sequence = MaxSequence =>
                     \A j \in Live : Kept[j].sequence = MaxSequence => j < i + 1
    BY <1>5, <1>9, <1>10, Zenon DEF Order
  <2>3. Order(r)'
    BY <1>0, <1>1, <1>3, <1>6, <1>8, <2>2 DEF Order
  <2> QED BY <2>1, <2>3
<1>7. ASSUME got' = [got EXCEPT ![r] = Append(@, [at |-> i, sequence |-> Kept[i].sequence])],
             mode[r] # "recv" => next[r] <= Kept[i].sequence,
             next' = IF mode[r] = "recv" THEN next ELSE [next EXCEPT ![r] = After(Kept[i].sequence)]
      PROVE  Order(r)' /\ Missed(r)'
  <2>1. PICK n \in Nat : n = Len(got[r]) /\ DOMAIN got[r] = 1..n
    BY DEF Types
  <2>2. PICK q : q = Kept[i].sequence
    OBVIOUS
  <2>3. q \in Nat /\ q <= MaxSequence /\ max # None /\ q <= max
    BY <1>9, <2>2 DEF CacheInv
  <2>4. /\ DOMAIN got'[r] = 1..(n + 1) /\ Len(got'[r]) = n + 1
        /\ got'[r][n + 1].at = i /\ got'[r][n + 1].sequence = q
        /\ \A k \in 1..n : got'[r][k] = got[r][k]
    <3>1. got[r] \in Seq(Given) /\ got'[r] = Append(got[r], [at |-> i, sequence |-> q])
      BY <1>7, <2>2 DEF Types
    <3>2. [at |-> i, sequence |-> q] \in Given
      <4>1. q \in Sequences
        BY <2>3, Numbers, Zenon
      <4> QED BY <1>2, <4>1 DEF Given
    <3>3. PICK g \in Given : g = [at |-> i, sequence |-> q] /\ g.at = i /\ g.sequence = q
      BY <3>2
    <3>4. got'[r] = Append(got[r], g)
      BY <3>1, <3>3, Zenon
    <3>5. /\ DOMAIN got'[r] = 1..(n + 1) /\ Len(got'[r]) = n + 1
          /\ got'[r][n + 1] = g
          /\ \A k \in 1..n : got'[r][k] = got[r][k]
      <4>1. PICK l \in Seq(Given) : l = got[r]
        BY <3>1
      <4>4. PICK m : m = got'[r]
        OBVIOUS
      <4>2. n = Len(l) /\ m = Append(l, g)
        BY <2>1, <3>4, <4>1, <4>4, Zenon
      <4>3. /\ DOMAIN m = 1..(n + 1) /\ Len(m) = n + 1
            /\ m[n + 1] = g
            /\ \A k \in 1..n : m[k] = l[k]
        BY <4>2, AppendSlots
      <4> QED BY <4>1, <4>3, <4>4, Zenon
    <3> QED BY <3>3, <3>5, Zenon
  <2>12. got'[r][n + 1].at = i /\ got'[r][n + 1].sequence = q
    BY <2>4, Zenon
  <2>13. Len(got'[r]) - 1 = n /\ n + 1 \in DOMAIN got'[r] /\ \A k \in 1..n : k \in DOMAIN got'[r]
    <3>1. DOMAIN got'[r] = 1..(n + 1) /\ Len(got'[r]) = n + 1
      BY <2>4, Zenon
    <3>2. (n + 1) - 1 = n /\ n + 1 \in 1..(n + 1) /\ \A k \in 1..n : k \in 1..(n + 1)
      OBVIOUS
    <3> QED BY <3>1, <3>2, Zenon
  <2>14. \A k \in 1..n : got'[r][k] = got[r][k]
    BY <2>4, Zenon
  <2>5. /\ mode[r] = "recv" => next'[r] = next[r]
        /\ mode[r] # "recv" => next[r] <= q /\ next'[r] = After(q)
    BY <1>7, <2>2 DEF Types
  <2>6. /\ After(q) \in Nat /\ q <= After(q)
        /\ q < After(q) \/ (q = MaxSequence /\ After(q) = MaxSequence)
    BY <1>2, <2>3, AfterRises
  <2>7. Missed(r)'
    <3>1. mode[r] # "recv" => next[r] <= next'[r]
      BY <1>2, <2>3, <2>5, <2>6, Chain
    <3>2. ASSUME NEW j \in Live, mode[r] = "next", Kept[j].sequence < next[r]
          PROVE  Kept[j].sequence < next'[r]
      <4>1. next'[r] \in Nat /\ next[r] <= next'[r] /\ Kept[j].sequence \in Nat
        BY <1>9, <2>5, <2>6, <3>1, <3>2
      <4> QED BY <1>2, <3>2, <4>1, Chain
    <3>3. ASSUME NEW j \in Live, j < i + 1, mode[r] # "read"
          PROVE  \/ \E k \in DOMAIN got'[r] : got'[r][k].at = j
                 \/ Kept[j].sequence < least[r]
                 \/ mode[r] = "next" /\ Kept[j].sequence < next'[r]
      <4>1. CASE j < index[r]
        <5>1. CASE \E k \in DOMAIN got[r] : got[r][k].at = j
          <6>1. PICK k \in 1..n : got[r][k].at = j
            BY <2>1, <5>1
          <6>2. k \in DOMAIN got'[r] /\ got'[r][k] = got[r][k]
            BY <2>13, <2>14, Zenon
          <6> QED BY <6>1, <6>2
        <5>2. CASE ~ \E k \in DOMAIN got[r] : got[r][k].at = j
          BY <3>2, <3>3, <4>1, <5>2 DEF Missed
        <5> QED BY <5>1, <5>2
      <4>2. CASE index[r] <= j /\ j < i
        BY <3>3, <4>2 DEF Passes
      <4>3. CASE j = i
        <5>1. n + 1 \in DOMAIN got'[r] /\ got'[r][n + 1].at = j
          BY <2>12, <2>13, <4>3, Zenon
        <5> QED BY <5>1
      <4> QED BY <1>4, <1>9, <3>3, <4>1, <4>2, <4>3, Zenon
    <3> QED BY <1>0, <1>1, <1>8, <3>3 DEF Missed
  <2>8. ASSUME NEW k \in 1..n
        PROVE  /\ got[r][k].at < i + 1 /\ got[r][k].at < i
               /\ got[r][k].sequence <= max
               /\ got[r][k].sequence = MaxSequence =>
                    /\ \A j \in Live : Kept[j].sequence = MaxSequence => j < i + 1
                    /\ q # MaxSequence
               /\ mode[r] # "recv" => got[r][k].sequence < q /\ got[r][k].sequence < After(q)
    <3>1. /\ got[r][k].at < i + 1 /\ got[r][k].at < i /\ got[r][k].sequence <= max
      BY <1>5, <1>10, <2>1, Zenon DEF Order
    <3>2. ASSUME got[r][k].sequence = MaxSequence
          PROVE  /\ \A j \in Live : Kept[j].sequence = MaxSequence => j < i + 1
                 /\ q # MaxSequence
      <4>1. \A j \in Live : Kept[j].sequence = MaxSequence => j < index[r]
        BY <2>1, <3>2 DEF Order
      <4> QED BY <1>4, <1>5, <1>9, <2>2, <4>1, Zenon
    <3>3. ASSUME mode[r] # "recv" PROVE got[r][k].sequence < q /\ got[r][k].sequence < After(q)
      <4>1. next[r] <= q
        BY <2>5, <3>3
      <4>2. \/ got[r][k].sequence < next[r]
            \/ got[r][k].sequence = MaxSequence /\ next[r] = MaxSequence
        BY <2>1, <3>3 DEF Order
      <4>3. CASE got[r][k].sequence < next[r]
        <5>1. got[r][k].sequence \in Nat
          BY <1>10, <2>1
        <5>2. got[r][k].sequence < q
          BY <1>2, <2>3, <4>1, <4>3, <5>1, Chain
        <5> QED BY <2>3, <2>6, <5>1, <5>2, Chain
      <4>4. CASE got[r][k].sequence = MaxSequence /\ next[r] = MaxSequence
        <5>1. q = MaxSequence
          BY <1>2, <2>3, <4>1, <4>4, Chain
        <5> QED BY <3>2, <4>4, <5>1
      <4> QED BY <4>2, <4>3, <4>4
    <3> QED BY <3>1, <3>2, <3>3
  <2>9. ASSUME NEW k \in 1..(n + 1)
        PROVE  /\ got'[r][k].at < i + 1
               /\ got'[r][k].sequence <= max
               /\ got'[r][k].sequence = MaxSequence =>
                    \A j \in Live : Kept[j].sequence = MaxSequence => j < i + 1
               /\ mode[r] # "recv" =>
                    \/ got'[r][k].sequence < next'[r]
                    \/ got'[r][k].sequence = MaxSequence /\ next'[r] = MaxSequence
    <3>1. CASE k \in 1..n
      BY <2>5, <2>8, <2>14, <3>1, Zenon
    <3>2. CASE k = n + 1
      <4>1. got'[r][k].at = i /\ got'[r][k].sequence = q
        BY <2>12, <3>2, Zenon
      <4>2. q = MaxSequence => \A j \in Live : Kept[j].sequence = MaxSequence => j < i + 1
        <5>1. i < i + 1
          BY <1>4
        <5>2. q = MaxSequence => \A j \in Live : Kept[j].sequence = MaxSequence => j = i
          BY <2>2 DEF CacheInv
        <5> QED BY <5>1, <5>2
      <4> QED BY <1>4, <2>3, <2>5, <2>6, <4>1, <4>2, Zenon
    <3>3. k \in 1..n \/ k = n + 1
      OBVIOUS
    <3> QED BY <3>1, <3>2, <3>3, Zenon
  <2>10. ASSUME NEW k \in 1..n
         PROVE  /\ got'[r][k].at < got'[r][k + 1].at
                /\ mode[r] # "recv" => got'[r][k].sequence < got'[r][k + 1].sequence
    <3>1. CASE k = n
      BY <2>8, <2>12, <2>14, <3>1, Zenon
    <3>2. CASE k # n
      <4>1. k \in 1..(n - 1) /\ k + 1 \in 1..n
        BY <3>2
      <4>2. got'[r][k] = got[r][k] /\ got'[r][k + 1] = got[r][k + 1]
        BY <2>14, <4>1
      <4> QED BY <2>1, <4>1, <4>2 DEF Order
    <3> QED BY <3>1, <3>2
  <2>11. Order(r)'
    <3>1. Len(got'[r]) - 1 = n /\ DOMAIN got'[r] = 1..(n + 1)
      BY <2>4, <2>13, Zenon
    <3> QED BY <1>0, <1>1, <1>3, <1>8, <2>3, <2>9, <2>10, <3>1 DEF Order
  <2> QED BY <2>7, <2>11
<1> QED BY <1>6, <1>7 DEF Passes
-----------------------------------------------------------------------------
(* The theorems.                                                            *)

IInv ==
    /\ Types /\ HandlesInv /\ CacheInv /\ TimeInv
    /\ \A r \in Readers : Order(r) /\ Missed(r)

(* A track starts empty, with one handle.                                   *)
LEMMA InitIInv == Init => IInv
<1> SUFFICES ASSUME Init PROVE IInv
  OBVIOUS
<1>1. First \in Writers
  BY HandlesAssumption DEF First
<1>2. groups = <<>> /\ offset = 0 /\ Len(groups) = 0 /\ groups \in Seq(Groups \cup {None})
  BY DEF Init
<1>3. Live = {} /\ Arrived = 0
  BY <1>2 DEF Live, Arrived
<1>4. Types
  <2>1. 0 \in Sequences /\ <<>> \in Seq(Given) /\ 0..1 \subseteq Nat
    <3>1. 0 \in Nat /\ 0 <= MaxSequence
      BY Numbers
    <3>2. 0 \in Sequences
      BY <3>1, Numbers, Zenon
    <3>3. <<>> \in Seq(Given)
      OBVIOUS
    <3>4. 0..1 \subseteq Nat
      OBVIOUS
    <3> QED BY <3>2, <3>3, <3>4
  <2>2. least \in [Readers -> Nat]
    BY <2>1 DEF Init
  <2>3. /\ index \in [Readers -> Nat] /\ next \in [Readers -> Sequences]
        /\ got \in [Readers -> Seq(Given)] /\ mode \in [Readers -> {"recv", "next", "read"}]
    BY <2>1 DEF Init
  <2>4. /\ pc \in [Writers -> {"none", "held", "clearing", "counting", "closing"}]
        /\ watch \in [Watchers -> {"idle", "waiting", "closing", "done"}]
    BY DEF Init
  <2>5. offset = 0 /\ now = 0 /\ count = 1 /\ max = None /\ closed = FALSE
    BY DEF Init
  <2>6. offset \in Nat /\ now \in Nat /\ count \in Int
    BY <2>5
  <2>7. max \in Sequences \cup {None} /\ closed \in BOOLEAN
    BY <2>5, Zenon
  <2> QED BY <1>2, <2>2, <2>3, <2>4, <2>6, <2>7 DEF Types
<1>5. HandlesInv
  <2>1. Holding = {} \cup {First} /\ Waiting = {}
    <3>1. \A w \in Writers : pc[w] = IF w = First THEN "held" ELSE "none"
      BY DEF Init
    <3>2. \A w \in Writers : pc[w] \in {"held", "clearing", "counting"} <=> w = First
      BY <3>1
    <3>3. \A d \in Watchers : watch[d] = "idle"
      BY DEF Init
    <3> QED BY <1>1, <3>2, <3>3 DEF Holding, Waiting
  <2>2. Cardinality(Holding) = 1 /\ Cardinality(Waiting) = 0
    <3>1. IsFiniteSet({}) /\ Cardinality({}) = 0 /\ First \notin {}
      BY FS_EmptySet
    <3>2. Cardinality({} \cup {First}) = Cardinality({}) + 1
      BY <3>1, FS_AddElement, Zenon
    <3> QED BY <2>1, <3>1, <3>2
  <2> QED BY <2>2 DEF Init, HandlesInv
<1>6. CacheInv /\ TimeInv
  BY <1>3 DEF Init, CacheInv, TimeInv
<1>7. ASSUME NEW r \in Readers PROVE Order(r) /\ Missed(r)
  <2>1. index[r] = 0 /\ got[r] = <<>> /\ Len(got[r]) = 0 /\ DOMAIN got[r] = {}
    BY DEF Init
  <2>2. 1..(Len(got[r]) - 1) = {}
    BY <2>1
  <2>3. index[r] <= Arrived
    BY <1>3, <2>1
  <2> QED BY <1>3, <2>1, <2>2, <2>3, Zenon DEF Order, Missed
<1> QED BY <1>4, <1>5, <1>6, <1>7 DEF IInv

(* Only a reader's own step moves it.                                       *)
LEMMA ReadersOrOthers ==
    ASSUME [Next]_vars
    PROVE  UNCHANGED <<mode, index, least, next, got>> \/ \E r \in Readers : Read(r)
<1>1. ASSUME NEW w \in Writers, Write(w) \/ DropCheck(w) \/ Drop(w)
      PROVE  UNCHANGED <<mode, index, least, next, got>>
  BY <1>1 DEF Write, CreateGroup, AppendGroup, Finish, FinishAt, Abort, CloneProducer, DropCheck,
         Drop, DropClear, DropCount, DropClose, readers
<1>2. ASSUME \/ \E d \in Watchers : Watch(d) \/ WatchDone(d) \/ WatchClose(d)
             \/ \E i \in Live, f \in Frames : Fill(i, f)
             \/ Tick \/ UNCHANGED vars
      PROVE  UNCHANGED <<mode, index, least, next, got>>
  BY <1>2 DEF Watch, WatchDone, WatchClose, Fill, Tick, readers, vars
<1> QED BY <1>1, <1>2 DEF Next

(* A step keeps every variable in its range.                                *)
LEMMA TypesStep ==
    ASSUME Types, HandlesInv, CacheInv, TimeInv, [Next]_vars
    PROVE  Types'
<1>1. CacheTypes'
  BY CacheStep
<1>2. count' \in Int
  <2>1. HandlesInv' /\ Cardinality(Holding)' \in Nat /\ Cardinality(Waiting)' \in Nat
    <3>1. Holding' \subseteq Writers /\ Waiting' \subseteq Watchers
      BY DEF Holding, Waiting
    <3> QED BY <3>1, HandlesStep, HandlesAssumption, FS_Subset, FS_CardinalityType
  <2> QED BY <2>1 DEF HandlesInv
<1> DEFINE Rest == /\ closed' \in BOOLEAN
                   /\ pc' \in [Writers -> {"none", "held", "clearing", "counting", "closing"}]
                   /\ watch' \in [Watchers -> {"idle", "waiting", "closing", "done"}]
<1>3. Rest
  <2>1. CASE UNCHANGED <<closed, pc, watch>>
    BY <2>1 DEF Types
  <2>2. ASSUME NEW w \in Writers, Write(w) \/ DropCheck(w) \/ Drop(w) PROVE Rest
    BY <2>2 DEF Write, CreateGroup, AppendGroup, Finish, FinishAt, Abort, CloneProducer, DropCheck,
           Drop, DropClear, DropCount, DropClose, Step, Types, channel
  <2>3. ASSUME NEW d \in Watchers, Watch(d) \/ WatchDone(d) \/ WatchClose(d) PROVE Rest
    BY <2>3 DEF Watch, WatchDone, WatchClose, Types
  <2>4. ASSUME \/ \E i \in Live, f \in Frames : Fill(i, f)
               \/ Tick \/ (\E r \in Readers : Read(r)) \/ UNCHANGED vars
        PROVE  UNCHANGED <<closed, pc, watch>>
    BY <2>4 DEF Fill, Tick, Read, RecvGroup, ReadFrame, channel, vars
  <2> QED BY <2>1, <2>2, <2>3, <2>4 DEF Next
<1>4. ASSUME NEW r \in Readers, NEW i \in Live, Passes(r, i)
      PROVE  index' \in [Readers -> Nat] /\ next' \in [Readers -> Sequences] /\ got' \in [Readers -> Seq(Given)]
  <2>1. i \in Nat /\ Kept[i].sequence \in Nat /\ Kept[i].sequence <= MaxSequence /\ MaxSequence \in Nat
    BY <1>4, ReaderTypes
  <2>2. After(Kept[i].sequence) \in Sequences
    BY <2>1, AfterRises, Numbers
  <2>3. [at |-> i, sequence |-> Kept[i].sequence] \in Given
    <3>1. Kept[i].sequence \in Sequences
      BY <2>1, Numbers, Zenon
    <3> QED BY <2>1, <3>1 DEF Given
  <2>4. Append(got[r], [at |-> i, sequence |-> Kept[i].sequence]) \in Seq(Given)
    BY <2>3 DEF Types
  <2>5. index' \in [Readers -> Nat]
    <3>1. index' = [index EXCEPT ![r] = i + 1]
      BY <1>4 DEF Passes
    <3>2. i + 1 \in Nat
      BY <2>1
    <3> QED BY <3>1, <3>2 DEF Types
  <2>6. next' \in [Readers -> Sequences]
    BY <1>4, <2>2 DEF Passes, Types
  <2>7. got' \in [Readers -> Seq(Given)]
    <3>1. got' = got \/ got' = [got EXCEPT ![r] = Append(got[r], [at |-> i, sequence |-> Kept[i].sequence])]
      BY <1>4 DEF Passes
    <3> QED BY <2>4, <3>1 DEF Types
  <2> QED BY <2>5, <2>6, <2>7
<1>5. UNCHANGED <<mode, index, least, next, got>> \/ \E r \in Readers : Read(r)
  BY ReadersOrOthers
<1> DEFINE Reads == /\ mode' \in [Readers -> {"recv", "next", "read"}]
                    /\ index' \in [Readers -> Nat] /\ least' \in [Readers -> Nat]
                    /\ next' \in [Readers -> Sequences]
                    /\ got' \in [Readers -> Seq(Given)]
<1>6. Reads
  <2>1. CASE UNCHANGED <<mode, index, least, next, got>>
    BY <2>1 DEF Types
  <2>2. ASSUME NEW r \in Readers, Read(r) PROVE Reads
    BY <1>4, <2>1, <2>2, ReadEffect DEF Types
  <2> QED BY <1>5, <2>1, <2>2
<1> QED BY <1>1, <1>2, <1>3, <1>6 DEF Types, CacheTypes
(* Every step keeps the invariant.                                          *)
LEMMA NextIInv == IInv /\ [Next]_vars => IInv'
<1> SUFFICES ASSUME IInv, [Next]_vars PROVE IInv'
  OBVIOUS
<1>1. Types /\ HandlesInv /\ CacheInv /\ TimeInv /\ \A r \in Readers : Order(r) /\ Missed(r)
  BY DEF IInv
<1>2. Types' /\ HandlesInv' /\ CacheInv' /\ TimeInv'
  BY <1>1, TypesStep, HandlesStep, CacheKept
<1>3. ASSUME NEW r \in Readers PROVE Order(r)' /\ Missed(r)'
  <2>1. CASE UNCHANGED <<mode, index, least, next, got>>
    BY <1>1, <2>1, OthersKeepOrder DEF NoReader
  <2>2. ASSUME NEW q \in Readers, Read(q) PROVE Order(r)' /\ Missed(r)'
    <3>1. UNCHANGED <<groups, offset, max, closed, pc, mode, least>>
      BY <1>1, <2>2, ReadEffect
    <3>2. CASE UNCHANGED <<index, next, got>>
      BY <2>1, <3>1, <3>2
    <3>3. ASSUME NEW i \in Live, Passes(q, i) PROVE Order(r)' /\ Missed(r)'
      <4>1. CASE q = r
        BY <1>1, <3>1, <3>3, <4>1, PassKeepsOrder DEF OnlyReader
      <4>2. CASE q # r
        <5>1. index'[r] = index[r] /\ next'[r] = next[r] /\ got'[r] = got[r]
          BY <1>1, <3>3, <4>2 DEF Passes, Types
        <5>2. Live' = Live /\ Kept' = Kept /\ Arrived' = Arrived /\ (Active' <=> Active)
          BY <3>1, SameCache DEF Active
        <5>3. mode' = mode /\ least' = least /\ max' = max /\ Order(r) /\ Missed(r)
          BY <1>1, <3>1
        <5>4. Order(r)'
          BY <5>1, <5>2, <5>3 DEF Order
        <5>5. Missed(r)'
          BY <5>1, <5>2, <5>3 DEF Missed
        <5> QED BY <5>4, <5>5
      <4> QED BY <4>1, <4>2
    <3> QED BY <1>1, <2>2, <3>2, <3>3, ReadEffect
  <2> QED BY <2>1, <2>2, ReadersOrOthers
<1> QED BY <1>2, <1>3 DEF IInv

(* The inductive invariant always holds.                                    *)
LEMMA TrackInvariant == Spec => []IInv
BY InitIInv, NextIInv, PTL DEF Spec

(* The duplicate filter of State is exact although append_group never asks  *)
(* it and evict_expired takes entries out.                                  *)
THEOREM FilterIsExact == Spec => []FilterExact
<1>1. IInv => FilterExact
  <2> SUFFICES ASSUME IInv PROVE FilterExact
    OBVIOUS
  <2>1. \A i \in Live : Kept[i] = Group(i)
    BY DEF Kept
  <2>2. {Kept[i].sequence : i \in Live} = {Group(i).sequence : i \in Live}
    BY <2>1
  <2> QED BY <2>1, <2>2 DEF IInv, CacheInv, FilterExact
<1> QED BY <1>1, TrackInvariant, PTL

(* evict_expired never takes the latest group, and neither does the Drop    *)
(* of a TrackProducer while another one is in use.                          *)
THEOREM LatestIsKept == Spec => []LatestKept
<1>1. IInv => LatestKept
  <2> SUFFICES ASSUME IInv PROVE LatestKept
    OBVIOUS
  <2>1. \A i \in Live : Kept[i] = Group(i)
    BY DEF Kept
  <2> QED BY <2>1 DEF IInv, CacheInv, LatestKept, Active
<1> QED BY <1>1, TrackInvariant, PTL

(* recv_group, next_group and read_frame give a reader no group twice and   *)
(* keep the order of arrival, whatever is trimmed under the cursor.         *)
THEOREM ReadersInOrder == Spec => []OnceInOrder
<1>1. IInv => OnceInOrder
  BY DEF IInv, Order, OnceInOrder
<1> QED BY <1>1, TrackInvariant, PTL

(* next_group and read_frame return ever higher sequences, although the     *)
(* addition that moves next_sequence saturates at u64::MAX.                 *)
THEOREM SequencesRise == Spec => []EverHigher
<1>1. IInv => EverHigher
  BY DEF IInv, Order, EverHigher
<1> QED BY <1>1, TrackInvariant, PTL

(* Behind the cursor of recv_group and next_group are only groups that were *)
(* given, not asked for, or late.                                           *)
THEOREM NoneIsMissed == Spec => []NothingMissed
<1>1. IInv => NothingMissed
  <2> SUFFICES ASSUME IInv PROVE NothingMissed
    OBVIOUS
  <2>1. \A i \in Live : Kept[i] = Group(i)
    BY DEF Kept
  <2> QED BY <2>1 DEF IInv, Missed, NothingMissed
<1> QED BY <1>1, TrackInvariant, PTL

(* The sweep of evict_expired may stop at the first fresh group: the groups *)
(* behind it are younger.                                                   *)
THEOREM SweepCompletes == Spec => SweepIsComplete
<1> DEFINE A == Arrived' > Arrived =>
        \A i \in Live' : Group(i)'.sequence = max' \/ now - Group(i)'.created <= MaxAge
<1>1. IInv /\ IInv' /\ [Next]_vars => [A]_vars
  <2> SUFFICES ASSUME IInv, IInv', [Next]_vars, Arrived' > Arrived, NEW i \in Live'
               PROVE  Group(i)'.sequence = max' \/ now - Group(i)'.created <= MaxAge
    OBVIOUS
  <2>1. Arrived \in Nat /\ Arrived' \in Nat
    <3>1. Types /\ Types'
      BY DEF IInv
    <3>2. offset \in Nat /\ Len(groups) \in Nat /\ offset' \in Nat /\ Len(groups') \in Nat
      BY <3>1 DEF Types
    <3> QED BY <3>2 DEF Arrived
  <2>2. Stays \/ Clears \/ \E s \in Sequences : Adds(s)
    BY CacheStep DEF IInv
  <2>3. PICK s \in Sequences : Adds(s)
    <3>1. Arrived' # Arrived /\ ~ (Arrived' <= Arrived)
      BY <2>1
    <3> QED BY <2>2, <3>1, Zenon DEF Stays, Clears
  <2>4. Kept'[i] = Group(i)'
    BY DEF Kept
  <2> QED BY <2>3, <2>4 DEF Adds
<1> QED BY <1>1, TrackInvariant, PTL DEF Spec, SweepIsComplete

-----------------------------------------------------------------------------
(* The ranges that the argument above does not need.                        *)
Ranges ==
    /\ Arrived <= MaxGroups /\ now <= MaxTime
    /\ final \in Sequences \cup {None} /\ aborted \in BOOLEAN
    /\ \A r \in Readers : index[r] <= MaxGroups
    /\ result \in [Readers -> {"none", "end", "error"}]

(* A step keeps them: a cursor stays at or before the last arrival.         *)
LEMMA RangesStep ==
    ASSUME IInv, Ranges, [Next]_vars
    PROVE  Ranges'
<1>1. Types /\ HandlesInv /\ CacheInv /\ TimeInv
  BY DEF IInv
<1>2. {MaxGroups, MaxTime} \subseteq Nat /\ Arrived \in Nat /\ now \in Nat
  BY <1>1, BoundsAssumption, KeptTypes DEF Types
<1>3. Arrived' <= MaxGroups
  <2>1. Arrived' = Arrived \/ Arrived' <= Arrived \/ (Arrived' = Arrived + 1 /\ Arrived < MaxGroups)
    BY <1>1, CacheStep DEF Stays, Clears, Adds
  <2>2. Arrived' \in Nat
    <3>1. Types'
      BY <1>1, TypesStep
    <3> QED BY <3>1 DEF Types, Arrived
  <2> QED BY <1>2, <2>1, <2>2 DEF Ranges
<1>4. ASSUME NEW w \in Writers, Write(w) \/ DropCheck(w) \/ Drop(w)
      PROVE  UNCHANGED <<now, index, result>> /\ final' \in Sequences \cup {None} /\ aborted' \in BOOLEAN
  <2>1. UNCHANGED <<now, index, result>>
    BY <1>4 DEF Write, CreateGroup, AppendGroup, Finish, FinishAt, Abort, CloneProducer, DropCheck,
           Drop, DropClear, DropCount, DropClose, readers
  <2>2. aborted' = aborted \/ aborted' = TRUE
    BY <1>4 DEF Write, CreateGroup, AppendGroup, Finish, FinishAt, Abort, CloneProducer, DropCheck,
           Drop, DropClear, DropCount, DropClose, ends
  <2>3. final' = final \/ final' = 0 \/ (max \in Sequences /\ max < MaxSequence /\ final' = max + 1)
    BY <1>1, <1>4 DEF Write, CreateGroup, AppendGroup, Finish, FinishAt, Abort, CloneProducer,
           DropCheck, Drop, DropClear, DropCount, DropClose, ends, Types
  <2>4. \A x \in Sequences : x < MaxSequence => x + 1 \in Sequences
    BY BoundsAssumption DEF Sequences
  <2>5. 0 \in Sequences
    BY BoundsAssumption DEF Sequences
  <2>6. aborted' \in BOOLEAN
    BY <2>2 DEF Ranges
  <2>7. final' \in Sequences \cup {None}
    BY <2>3, <2>4, <2>5 DEF Ranges
  <2> QED BY <2>1, <2>6, <2>7
<1>5. ASSUME \/ \E d \in Watchers : Watch(d) \/ WatchDone(d) \/ WatchClose(d)
             \/ \E i \in Live, f \in Frames : Fill(i, f)
             \/ UNCHANGED vars
      PROVE  UNCHANGED <<now, index, result, final, aborted>>
  BY <1>5 DEF Watch, WatchDone, WatchClose, Fill, ends, readers, vars
<1>6. ASSUME Tick
      PROVE  UNCHANGED <<index, result, final, aborted>> /\ now' <= MaxTime
  BY <1>2, <1>6 DEF Tick, ends, readers
<1>7. ASSUME NEW r \in Readers, Read(r)
      PROVE  /\ UNCHANGED <<now, final, aborted>>
             /\ \A q \in Readers : index'[q] <= MaxGroups
             /\ result' \in [Readers -> {"none", "end", "error"}]
  <2>1. UNCHANGED <<now, final, aborted>>
    BY <1>7 DEF Read, RecvGroup, ReadFrame, ends
  <2>2. \/ result' = result
        \/ \E x \in {"end", "error"} : result' = [result EXCEPT ![r] = x]
    BY <1>7 DEF Read, RecvGroup, ReadFrame, NothingLeft
  <2>3. result' \in [Readers -> {"none", "end", "error"}]
    BY <2>2 DEF Ranges
  <2>4. ASSUME NEW i \in Live, Passes(r, i), NEW q \in Readers PROVE index'[q] <= MaxGroups
    <3>1. i \in Nat /\ i < Arrived
      BY <1>1, KeptTypes
    <3>2. i + 1 <= MaxGroups
      BY <1>2, <3>1 DEF Ranges
    <3>3. index'[q] = i + 1 \/ index'[q] = index[q]
      BY <1>1, <2>4 DEF Passes, Types
    <3> QED BY <3>2, <3>3 DEF Ranges
  <2>5. \A q \in Readers : index'[q] <= MaxGroups
    BY <1>1, <1>7, <2>4, ReadEffect DEF Ranges
  <2> QED BY <2>1, <2>3, <2>5
<1> QED BY <1>3, <1>4, <1>5, <1>6, <1>7 DEF Next, Ranges

(* Every variable stays in its range; in particular no creation time is     *)
(* ahead of the clock and no cursor is past the last group that arrived.    *)
THEOREM TypeCorrect == Spec => []TypeOK
<1>1. Init => Ranges
  <2> SUFFICES ASSUME Init PROVE Ranges
    OBVIOUS
  <2>1. Arrived = 0 /\ now = 0 /\ \A r \in Readers : index[r] = 0
    BY DEF Init, Arrived
  <2>2. 0 <= MaxGroups /\ 0 <= MaxTime
    BY BoundsAssumption
  <2>3. final = None /\ aborted = FALSE /\ result \in [Readers -> {"none", "end", "error"}]
    BY DEF Init
  <2> QED BY <2>1, <2>2, <2>3 DEF Ranges
<1>2. IInv /\ Ranges => TypeOK
  <2> SUFFICES ASSUME IInv, Ranges PROVE TypeOK
    OBVIOUS
  <2>1. Types /\ HandlesInv /\ CacheInv /\ TimeInv /\ \A r \in Readers : Order(r)
    BY DEF IInv
  <2>2. MaxGroups \in Nat /\ MaxTime \in Nat
    BY BoundsAssumption
  <2>3. groups \in Seq([sequence : Sequences, created : 0..MaxTime, frame : Frames] \cup {None})
    <3>1. ASSUME NEW k \in 1..Len(groups), groups[k] # None
          PROVE  groups[k] \in [sequence : Sequences, created : 0..MaxTime, frame : Frames]
      <4>1. k + offset - 1 \in offset..(Arrived - 1) /\ (k + offset - 1) - offset + 1 = k
        BY <2>1 DEF Types, Arrived
      <4>2. k + offset - 1 \in Live /\ Kept[k + offset - 1] = groups[k]
        BY <3>1, <4>1 DEF Live, Kept, Group
      <4>3. groups[k] \in Groups
        BY <2>1, <3>1 DEF Types
      <4>4. groups[k].created <= now
        BY <2>1, <4>2 DEF TimeInv
      <4>5. groups[k].created \in 0..MaxTime
        <5>1. groups[k].created \in Nat /\ now \in Nat /\ now <= MaxTime
          BY <2>1, <4>3 DEF Types, Groups, Ranges
        <5> QED BY <2>2, <4>4, <5>1
      <4> QED BY <4>3, <4>5 DEF Groups
    <3>2. Len(groups) \in Nat /\ DOMAIN groups = 1..Len(groups) /\ groups \in Seq(Groups \cup {None})
      BY <2>1 DEF Types
    <3> DEFINE T == [sequence : Sequences, created : 0..MaxTime, frame : Frames] \cup {None}
    <3>3. \A k \in 1..Len(groups) : groups[k] \in T
      BY <3>1
    <3> HIDE DEF T
    <3>4. groups \in Seq(T)
      BY <3>2, <3>3
    <3> QED BY <3>4 DEF T
  <2>4. duplicates \subseteq Sequences
    BY <2>1, KeptTypes DEF CacheInv, Groups
  <2>5. offset \in 0..MaxGroups /\ now \in 0..MaxTime
    BY <2>1, <2>2 DEF Types, Ranges, Arrived
  <2>6. count \in Nat
    BY <2>1, FiniteHandles DEF HandlesInv
  <2>7. index \in [Readers -> 0..MaxGroups]
    BY <2>1, <2>2 DEF Types, Ranges
  <2>8. got \in [Readers -> Seq([at : 0..MaxGroups, sequence : Sequences])]
    <3>1. ASSUME NEW r \in Readers PROVE got[r] \in Seq([at : 0..MaxGroups, sequence : Sequences])
      <4>1. got[r] \in Seq(Given) /\ index[r] \in 0..MaxGroups
        BY <2>1, <2>7 DEF Types
      <4>2. \A k \in DOMAIN got[r] : got[r][k] \in Given /\ got[r][k].at < index[r]
        BY <2>1, <4>1 DEF Order
      <4>3. \A k \in DOMAIN got[r] : got[r][k] \in [at : 0..MaxGroups, sequence : Sequences]
        BY <2>2, <4>1, <4>2 DEF Given
      <4> DEFINE T == [at : 0..MaxGroups, sequence : Sequences]
      <4> HIDE DEF T
      <4>4. got[r] \in Seq(T)
        <5>1. \A k \in DOMAIN got[r] : got[r][k] \in T
          BY <4>3 DEF T
        <5> QED BY <4>1, <5>1
      <4> QED BY <4>4 DEF T
    <3> QED BY <2>1, <3>1 DEF Types
  <2> QED BY <2>1, <2>3, <2>4, <2>5, <2>6, <2>7, <2>8 DEF TypeOK, Types, Ranges
<1>3. IInv /\ Ranges /\ [Next]_vars => Ranges'
  BY RangesStep
<1> QED BY <1>1, <1>2, <1>3, InitIInv, TrackInvariant, PTL DEF Spec

=============================================================================

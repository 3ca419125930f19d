------------------------------- MODULE Track -------------------------------
(***************************************************************************)
(* A track (model/track.rs): the cache of its groups in arrival order, the *)
(* eviction of old ones, the end of the track, and the readers.            *)
(*                                                                         *)
(* The state is in a kio channel, so an action is one critical section, or *)
(* one operation on the channel's producer count.  Of a group only what    *)
(* read_frame asks for is kept: how far its first frame is.                *)
(***************************************************************************)
EXTENDS Integers, Sequences, FiniteSetsExt

CONSTANTS
    Writers,        \* the places that can own a TrackProducer
    Readers,        \* the owners of a TrackConsumer
    Watchers,       \* the callers of TrackDemand::closed
    MaxSequence,    \* u64::MAX
    MaxAge,         \* MAX_GROUP_AGE
    MaxTime,        \* bound: the clock stops there
    MaxGroups,      \* bound: the number of groups ever cached
    None

ASSUME BoundsAssumption == {MaxSequence, MaxAge, MaxTime, MaxGroups} \subseteq Nat
ASSUME HandlesAssumption == Writers # {} /\ IsFiniteSet(Writers) /\ IsFiniteSet(Watchers)

VARIABLES
    groups,     \* State::groups, None for a tombstone
    duplicates, \* State::duplicates
    offset,     \* State::offset
    max,        \* State::max_sequence
    final,      \* State::final_sequence
    aborted,    \* whether State::abort is set
    closed,     \* the channel is closed
    count,      \* the channel's producer count
    now,        \* the clock
    pc,         \* the life of each TrackProducer
    watch,      \* the life of each TrackDemand::closed future
    mode,       \* how each reader reads: recv_group, next_group or read_frame
    index,      \* TrackConsumer::index
    least,      \* TrackConsumer::min_sequence
    next,       \* TrackConsumer::next_sequence
    got,        \* the groups each reader has been given, in order
    result      \* how its reading ended

cache == <<groups, duplicates, offset>>
ends == <<max, final, aborted>>
channel == <<closed, count, pc, watch>>
readers == <<mode, index, least, next, got, result>>
vars == <<groups, duplicates, offset, max, final, aborted, closed, count, pc, watch, now,
          mode, index, least, next, got, result>>

Sequences == 0..MaxSequence
Frames == {"pending", "ready", "none", "error"}
Groups == [sequence : Sequences, created : Nat, frame : Frames]

ASSUME NoneAssumption == None \notin Nat /\ None \notin Groups

(* The TrackProducer that Track::produce returns.                           *)
First == CHOOSE w \in Writers : TRUE

Init ==
    /\ groups = <<>> /\ duplicates = {} /\ offset = 0
    /\ max = None /\ final = None /\ aborted = FALSE
    /\ closed = FALSE /\ count = 1
    /\ now = 0
    /\ pc = [w \in Writers |-> IF w = First THEN "held" ELSE "none"]
    /\ watch = [w \in Watchers |-> "idle"]
    /\ mode \in [Readers -> {"recv", "next", "read"}]
    /\ index = [r \in Readers |-> 0]
    /\ least \in [Readers -> 0..1]
    /\ next = [r \in Readers |-> 0]
    /\ got = [r \in Readers |-> <<>>]
    /\ result = [r \in Readers |-> "none"]

(* Groups are addressed by their arrival, which eviction does not change.   *)
Arrived == offset + Len(groups)
Group(i) == groups[i - offset + 1]
Live == {i \in offset..(Arrived - 1) : Group(i) # None}

-----------------------------------------------------------------------------
(* Writing.                                                                 *)

(* The first slot that ends the sweep: fresh, and not the latest group.     *)
Fresh(g, top) == g # None /\ g.sequence # top /\ now - g.created <= MaxAge

(* Mutant: the latest group ends the sweep instead of being passed over.    *)
SweepEndAtLatest(gs, top) ==
    Min({i \in DOMAIN gs : gs[i] # None /\ (gs[i].sequence = top \/ Fresh(gs[i], top))}
            \cup {Len(gs) + 1})

SweepEnd(gs, top) ==
    Min({i \in DOMAIN gs : Fresh(gs[i], top)} \cup {Len(gs) + 1})

(* Mutant: the latest group expires like any other.                         *)
ExpiredAny(gs, top) == {i \in DOMAIN gs : i < SweepEnd(gs, top) /\ gs[i] # None}

(* The slots before it that hold anything but the latest group.             *)
Expired(gs, top) ==
    {i \in DOMAIN gs : i < SweepEnd(gs, top) /\ gs[i] # None /\ gs[i].sequence # top}

Leading(gs) == Min({i \in DOMAIN gs : gs[i] # None} \cup {Len(gs) + 1}) - 1

(* Mutant: evicted groups stay in the duplicate filter.                     *)
EvictExpiredForgets(gs, dups, top) ==
    LET old == Expired(gs, top)
        swept == [i \in DOMAIN gs |-> IF i \in old THEN None ELSE gs[i]]
    IN  /\ groups' = SubSeq(swept, Leading(swept) + 1, Len(swept))
        /\ offset' = offset + Leading(swept)
        /\ duplicates' = dups

(* State::evict_expired: tombstones for the expired, then a trim in front.  *)
EvictExpired(gs, dups, top) ==
    LET old == Expired(gs, top)
        swept == [i \in DOMAIN gs |-> IF i \in old THEN None ELSE gs[i]]
    IN  /\ groups' = SubSeq(swept, Leading(swept) + 1, Len(swept))
        /\ offset' = offset + Leading(swept)
        /\ duplicates' = dups \ {gs[i].sequence : i \in old}

(* The check of create_group and append_group against final_sequence.           *)
Open(s) == final # None => s < final

Push(s) ==
    LET top == IF max = None \/ max < s THEN s ELSE max
    IN  /\ max' = top
        /\ EvictExpired(Append(groups, [sequence |-> s, created |-> now, frame |-> "pending"]),
                        duplicates \cup {s}, top)

CreateGroup(w, s) ==
    /\ pc[w] = "held" /\ ~closed /\ Arrived < MaxGroups
    /\ Open(s) /\ s \notin duplicates
    /\ Push(s)
    /\ UNCHANGED <<final, aborted, channel, now, readers>>

(* append_group does not look at duplicates.  The addition is checked.      *)
AppendGroup(w) ==
    /\ pc[w] = "held" /\ ~closed /\ Arrived < MaxGroups
    /\ LET s == IF max = None THEN 0 ELSE max + 1
       IN  s <= MaxSequence /\ Open(s) /\ Push(s)
    /\ UNCHANGED <<final, aborted, channel, now, readers>>

Finish(w) ==
    /\ pc[w] = "held" /\ ~closed /\ final = None
    /\ max # None => max < MaxSequence
    /\ final' = IF max = None THEN 0 ELSE max + 1
    /\ UNCHANGED <<cache, max, aborted, channel, now, readers>>

FinishAt(w, s) ==
    /\ pc[w] = "held" /\ ~closed /\ final = None
    /\ max # None /\ s = max /\ max < MaxSequence
    /\ final' = max + 1
    /\ UNCHANGED <<cache, max, aborted, channel, now, readers>>

Abort(w) ==
    /\ pc[w] = "held" /\ ~closed
    /\ aborted' = TRUE /\ closed' = TRUE
    /\ groups' = <<>> /\ duplicates' = {}
    /\ UNCHANGED <<offset, max, final, count, pc, watch, now, readers>>

(* The writer of a group gets on with its first frame, or gives up.         *)
Fill(i, f) ==
    /\ i \in Live
    /\ \E r \in Readers : mode[r] = "read"     \* bound: nobody else asks
    /\ \/ Group(i).frame = "pending" /\ f # "pending"
       \/ Group(i).frame = "ready" /\ f = "error"
    /\ groups' = [groups EXCEPT ![i - offset + 1].frame = f]
    /\ UNCHANGED <<duplicates, offset, ends, channel, now, readers>>

Tick ==
    /\ now < MaxTime
    /\ now' = now + 1
    /\ UNCHANGED <<cache, ends, channel, readers>>

-----------------------------------------------------------------------------
(* The handles of the channel.                                              *)

Step(w, l) == pc' = [pc EXCEPT ![w] = l]

CloneProducer(w, v) ==
    /\ pc[w] = "held" /\ pc[v] = "none"
    /\ count' = count + 1
    /\ Step(v, "held")
    /\ UNCHANGED <<cache, ends, closed, watch, now, readers>>

(* Drop for TrackProducer asks whether it is the last one ...               *)
DropCheck(w) ==
    /\ pc[w] = "held"
    /\ Step(w, IF count = 1 THEN "clearing" ELSE "counting")
    /\ UNCHANGED <<cache, ends, closed, count, watch, now, readers>>

(* ... and if so lets go of the cache of a track that is not finished; ...  *)
DropClear(w) ==
    /\ pc[w] = "clearing"
    /\ Step(w, "counting")
    /\ IF ~closed /\ final = None
       THEN groups' = <<>> /\ duplicates' = {}
       ELSE UNCHANGED <<groups, duplicates>>
    /\ UNCHANGED <<offset, ends, closed, count, watch, now, readers>>

(* ... then the channel's own handle is dropped.                            *)
DropCount(w) ==
    /\ pc[w] = "counting"
    /\ count' = count - 1
    /\ Step(w, IF count = 1 THEN "closing" ELSE "none")
    /\ UNCHANGED <<cache, ends, closed, watch, now, readers>>

DropClose(w) ==
    /\ pc[w] = "closing"
    /\ closed' = TRUE
    /\ Step(w, "none")
    /\ UNCHANGED <<cache, ends, count, watch, now, readers>>

(* TrackDemand::closed upgrades its weak handle for as long as it waits.    *)
Watch(d) ==
    /\ watch[d] = "idle" /\ ~closed
    /\ count' = count + 1
    /\ watch' = [watch EXCEPT ![d] = "waiting"]
    /\ UNCHANGED <<cache, ends, closed, pc, now, readers>>

(* The future ends, or is dropped, and gives the upgraded handle up.        *)
WatchDone(d) ==
    /\ watch[d] = "waiting"
    /\ count' = count - 1
    /\ watch' = [watch EXCEPT ![d] = IF count = 1 THEN "closing" ELSE "done"]
    /\ UNCHANGED <<cache, ends, closed, pc, now, readers>>

WatchClose(d) ==
    /\ watch[d] = "closing"
    /\ closed' = TRUE
    /\ watch' = [watch EXCEPT ![d] = "done"]
    /\ UNCHANGED <<cache, ends, count, pc, now, readers>>

-----------------------------------------------------------------------------
(* Reading.                                                                 *)

(* Mutant: writers that vanish without abort are not an end.                *)
NothingLeftUnlessAborted(r) ==
    /\ final # None \/ aborted
    /\ result' = [result EXCEPT ![r] = IF final # None THEN "end" ELSE "error"]
    /\ UNCHANGED <<index, next, got>>

(* What a reader is told when it finds no group.                            *)
NothingLeft(r) ==
    /\ final # None \/ closed
    /\ result' = [result EXCEPT ![r] = IF final # None THEN "end" ELSE "error"]
    /\ UNCHANGED <<index, next, got>>

Deliver(r, i) ==
    got' = [got EXCEPT ![r] = Append(@, [at |-> i, sequence |-> Group(i).sequence])]

(* Mutants: next_sequence is not kept; it overflows at the top.             *)
AfterForgotten(s) == 0

AfterOverflowing(s) == s + 1

(* sequence.saturating_add(1)                                               *)
After(s) == IF s = MaxSequence THEN s ELSE s + 1

(* Mutants: the offset is subtracted twice; the group at the cursor is      *)
(* taken for one that has been read.                                        *)
AheadTwice(r, bound) == {i \in Live : i >= index[r] - offset /\ Group(i).sequence >= bound}

AheadPast(r, bound) == {i \in Live : i > index[r] /\ Group(i).sequence >= bound}

(* The groups at or past the cursor that are not below a bound.             *)
Ahead(r, bound) == {i \in Live : i >= index[r] /\ Group(i).sequence >= bound}

Reading(r, modes) == mode[r] \in modes /\ result[r] = "none"

(* recv_group, and one turn of the loop in next_group, which discards a     *)
(* late group.                                                              *)
RecvGroup(r) ==
    /\ Reading(r, {"recv", "next"})
    /\ LET ahead == Ahead(r, least[r])
           i == Min(ahead)
       IN  \/ /\ ahead # {}
              /\ index' = [index EXCEPT ![r] = i + 1]
              /\ IF mode[r] = "next" /\ Group(i).sequence < next[r]
                 THEN UNCHANGED <<next, got>>
                 ELSE /\ Deliver(r, i)
                      /\ next' = IF mode[r] = "next"
                                 THEN [next EXCEPT ![r] = After(Group(i).sequence)] ELSE next
              /\ UNCHANGED result
           \/ ahead = {} /\ NothingLeft(r)
    /\ UNCHANGED <<cache, ends, channel, now, mode, least>>

(* read_frame takes the first group whose first frame is whole, passing     *)
(* over groups that are not there yet; a group that failed stops it.        *)
ReadFrame(r) ==
    /\ Reading(r, {"read"})
    /\ LET ahead == Ahead(r, IF least[r] > next[r] THEN least[r] ELSE next[r])
           telling == {i \in ahead : Group(i).frame \in {"ready", "error"}}
           i == Min(telling)
       IN  \/ /\ telling # {} /\ Group(i).frame = "ready"
              /\ Deliver(r, i)
              /\ index' = [index EXCEPT ![r] = i + 1]
              /\ next' = [next EXCEPT ![r] = After(Group(i).sequence)]
              /\ UNCHANGED result
           \/ /\ telling # {} /\ Group(i).frame = "error"
              /\ result' = [result EXCEPT ![r] = "error"]
              /\ UNCHANGED <<index, next, got>>
           \/ /\ telling = {} /\ \A j \in ahead : Group(j).frame = "none"
              /\ NothingLeft(r)
           \/ /\ telling = {} /\ \E j \in ahead : Group(j).frame = "pending"
              /\ closed
              /\ result' = [result EXCEPT ![r] = "error"]
              /\ UNCHANGED <<index, next, got>>
    /\ UNCHANGED <<cache, ends, channel, now, mode, least>>

-----------------------------------------------------------------------------
Write(w) ==
    \/ \E s \in Sequences : CreateGroup(w, s) \/ FinishAt(w, s)
    \/ AppendGroup(w)
    \/ Finish(w)
    \/ Abort(w)
    \/ \E v \in Writers : CloneProducer(w, v)

Drop(w) == DropClear(w) \/ DropCount(w) \/ DropClose(w)

Read(r) == RecvGroup(r) \/ ReadFrame(r)

Next ==
    \/ \E w \in Writers : Write(w) \/ DropCheck(w) \/ Drop(w)
    \/ \E d \in Watchers : Watch(d) \/ WatchDone(d) \/ WatchClose(d)
    \/ \E i \in Live, f \in Frames : Fill(i, f)
    \/ Tick
    \/ \E r \in Readers : Read(r)

(* A drop that has begun runs to its end, a watcher whose track has closed  *)
(* returns, and a reader keeps reading.                                     *)
Fairness ==
    /\ \A w \in Writers : WF_vars(Drop(w))
    /\ \A d \in Watchers : WF_vars(closed /\ WatchDone(d)) /\ WF_vars(WatchClose(d))
    /\ \A r \in Readers : WF_vars(Read(r))

Spec == Init /\ [][Next]_vars

FairSpec == Spec /\ Fairness

-----------------------------------------------------------------------------
(* Every variable stays in its range.                                       *)
TypeOK ==
    /\ groups \in Seq([sequence : Sequences, created : 0..MaxTime, frame : Frames] \cup {None})
    /\ duplicates \subseteq Sequences
    /\ offset \in 0..MaxGroups
    /\ max \in Sequences \cup {None} /\ final \in Sequences \cup {None}
    /\ aborted \in BOOLEAN /\ closed \in BOOLEAN
    /\ count \in Nat /\ now \in 0..MaxTime
    /\ pc \in [Writers -> {"none", "held", "clearing", "counting", "closing"}]
    /\ watch \in [Watchers -> {"idle", "waiting", "closing", "done"}]
    /\ mode \in [Readers -> {"recv", "next", "read"}]
    /\ index \in [Readers -> 0..MaxGroups]
    /\ least \in [Readers -> Nat] /\ next \in [Readers -> Sequences]
    /\ got \in [Readers -> Seq([at : 0..MaxGroups, sequence : Sequences])]
    /\ result \in [Readers -> {"none", "end", "error"}]

(* The duplicate filter holds exactly the sequences in the cache, each once,*)
(* although append_group never asks it and eviction takes entries out.      *)
FilterExact ==
    /\ duplicates = {Group(i).sequence : i \in Live}
    /\ \A i, j \in Live : Group(i).sequence = Group(j).sequence => i = j

(* The latest group is never evicted: a reader that joins an open track     *)
(* finds it, however old it is.                                             *)
LatestKept ==
    max # None /\ (\E w \in Writers : pc[w] = "held") /\ ~closed =>
        max \in {Group(i).sequence : i \in Live}

(* A new group drives out every expired one but the latest: stopping the    *)
(* sweep at the first fresh group leaves no old one behind it.              *)
SweepIsComplete ==
    [][Arrived' > Arrived =>
        \A i \in Live' : Group(i)'.sequence = max' \/ now - Group(i)'.created <= MaxAge]_vars

(* A reader is given groups in the order they arrived and none twice,       *)
(* whatever is evicted and trimmed under its cursor.                        *)
OnceInOrder ==
    \A r \in Readers : \A k \in 1..(Len(got[r]) - 1) : got[r][k].at < got[r][k + 1].at

(* next_group and read_frame return ever higher sequences, also when an     *)
(* evicted sequence is created again and at the top of the number range.    *)
EverHigher ==
    \A r \in Readers : mode[r] # "recv" =>
        \A k \in 1..(Len(got[r]) - 1) : got[r][k].sequence < got[r][k + 1].sequence

(* No cached group is passed over by a reader: behind its cursor are only   *)
(* groups it was given, asked not to get, or (next_group) came late.        *)
NothingMissed ==
    \A r \in Readers : mode[r] # "read" =>
        \A i \in Live : i < index[r] =>
            \/ \E k \in DOMAIN got[r] : got[r][k].at = i
            \/ Group(i).sequence < least[r]
            \/ mode[r] = "next" /\ Group(i).sequence < next[r]

(* No TrackProducer is left, and no TrackDemand::closed is waiting.         *)
WritersGone == \A w \in Writers : pc[w] = "none"
NobodyWatches == \A d \in Watchers : watch[d] \in {"idle", "done"}

(* Once the handles are gone, every reader comes to an end: it drains what  *)
(* is cached and is told of the end or of an error.                         *)
ReadersEnd ==
    \A r \in Readers : WritersGone /\ NobodyWatches ~> result[r] # "none"

(* What the module's documentation says: with all writers dropped the track *)
(* is closed; a handle that only watches demand does not count.             *)
WritersGoneCloses ==
    WritersGone /\ (\A d \in Watchers : watch[d] # "closing") => closed

=============================================================================

-------------------------- MODULE BroadcastProofs --------------------------
(***************************************************************************)
(* The safety properties of module Broadcast for any number of subscribers,*)
(* tracks and names.                                                       *)
(***************************************************************************)
EXTENDS Broadcast, FiniteSetTheorems, TLAPS

(* Every entry of the lookup is a track of that name; what is not yet       *)
(* created, and what the owner created, has no tasks.                       *)
TracksInv ==
    /\ \A n \in Names : tracks[n] # 0 => tracks[n] <= Created /\ name[tracks[n]] = n
    /\ \A i \in Ids : i > Created => dyn[i] = "none" /\ cleanup[i] = "none"
    /\ \A i \in static : dyn[i] = "none" /\ cleanup[i] = "none"

(* A request is queued once, and queued or popped before it is served.      *)
QueueInv ==
    /\ \A j, k \in DOMAIN requests : requests[j] = requests[k] => j = k
    /\ \A i \in Queued : i <= Created /\ dyn[i] = "none" /\ i \notin static /\ i # popped
    /\ popped # 0 <=> dyn[0] = "popped"
    /\ popped # 0 => popped <= Created /\ dyn[popped] = "none" /\ popped \notin static
    /\ dyn[0] \notin {"none", "unused"} /\ \A i \in Ids : dyn[i] # "popped"

(* A handle that read is_last stays the only one of the owner and the       *)
(* dynamic handles.                                                         *)
LastInv ==
    /\ owner = "last" => \A e \in Dyns : dyn[e] \in NoHandle
    /\ \A d \in Dyns : dyn[d] = "last" => \A e \in Dyns \ {d} : dyn[e] \in NoHandle

Inv ==
    /\ TypeOK /\ TracksInv /\ QueueInv /\ LastInv
    /\ DynamicExact /\ NoOrphan

(* The invariant holds of a broadcast as start_announce leaves it.          *)
LEMMA InvInit == Init => Inv
<1> SUFFICES ASSUME Init PROVE Inv
  OBVIOUS
<1> USE BroadcastAssumption DEF Init
<1>0. 0 \in Dyns /\ MaxTracks \in Nat
  BY DEF Dyns
<1>1. TypeOK
  BY <1>0 DEF TypeOK, ChannelOK, TracksOK, TasksOK, Created, Ids, Dyns
<1>2. TracksInv /\ LastInv
  BY DEF TracksInv, LastInv, NoHandle, Ids, Dyns, Created
<1>3. QueueInv
  BY <1>0 DEF QueueInv, Queued, Ids, Dyns
<1>4. DynamicExact
  <2>1. Counted = {0}
    BY <1>0 DEF Counted
  <2> QED BY <2>1, FS_Singleton DEF DynamicExact
<1>5. NoOrphan
  BY DEF NoOrphan
<1> QED BY <1>1, <1>2, <1>3, <1>4, <1>5 DEF Inv

(* Every step keeps the types of the channel's state.                       *)
LEMMA ChannelTypes == Inv /\ [Next]_vars => ChannelOK'
<1> SUFFICES ASSUME Inv, [Next]_vars PROVE ChannelOK'
  OBVIOUS
<1> USE BroadcastAssumption DEF Ids, Dyns, Created, NoTracks, state, trackVars, handlers, subs
<1>0. TypeOK
  BY DEF Inv
<1> USE <1>0 DEF TypeOK, ChannelOK, TracksOK, TasksOK
<1>1. ASSUME UNCHANGED <<tracks, requests, dynamic, closed>> PROVE ChannelOK'
  BY <1>1 DEF Created
<1>2. ASSUME NEW n \in Names, CreateTrack(n) PROVE ChannelOK'
  BY <1>2 DEF CreateTrack, Created
<1>3. ASSUME NEW n \in Names, RemoveTrack(n) PROVE ChannelOK'
  BY <1>3 DEF RemoveTrack, Created
<1>4. ASSUME Abort PROVE ChannelOK'
  BY <1>4 DEF Abort, Drain
<1>5. ASSUME OwnerClears PROVE ChannelOK'
  <2>1. <<>> \in Seq(Ids) /\ [n \in Names |-> 0] \in [Names -> 0..MaxTracks]
    OBVIOUS
  <2>2. CASE closed
    BY <1>5, <2>2 DEF OwnerClears
  <2>3. CASE ~closed
    BY <1>5, <2>1, <2>3 DEF OwnerClears, Drain
  <2> QED BY <2>2, <2>3
<1>6. ASSUME OwnerGone PROVE ChannelOK'
  BY <1>6 DEF OwnerGone, Release
<1>7. ASSUME RequestedTrack PROVE ChannelOK'
  <2>1. requests \in Seq(Ids) /\ requests # <<>>
    BY <1>7 DEF RequestedTrack
  <2>2. SubSeq(requests, 1, Len(requests) - 1) \in Seq(Ids)
    BY <2>1
  <2> QED BY <1>7, <2>2 DEF RequestedTrack
<1>8. ASSUME SpawnSubscribe PROVE ChannelOK'
  BY <1>8 DEF SpawnSubscribe, Created
<1>9. ASSUME NEW i \in Ids, CleanupRemoves(i) PROVE ChannelOK'
  <2>1. tracks \in [Names -> 0..MaxTracks] /\ 0 \in 0..MaxTracks
    OBVIOUS
  <2> HIDE <1>0
  <2>2. \A x : [tracks EXCEPT ![x] = 0] \in [Names -> 0..MaxTracks]
    BY <2>1
  <2> USE <1>0
  <2> QED BY <1>9, <2>2 DEF CleanupRemoves
<1>10. ASSUME NEW i \in Ids, CleanupEnds(i) PROVE ChannelOK'
  BY <1>10 DEF CleanupEnds, Release
<1>11. ASSUME NEW d \in Dyns, Uncount(d) PROVE ChannelOK'
  <2>1. CASE closed
    BY <1>11, <2>1 DEF Uncount
  <2>2. CASE ~closed
    <3>1. tracks' \in [Names -> 0..MaxTracks]
      BY <1>11, <2>2 DEF Uncount
    <3>2. dynamic' \in Nat
      BY <1>11, <2>2 DEF Uncount
    <3>3. requests' = requests \/ requests' = <<>>
      BY <1>11, <2>2 DEF Uncount, Drain
    <3>4. requests' \in Seq(Ids)
      BY <3>3, requests \in Seq(Ids), <<>> \in Seq(Ids)
    <3> QED BY <1>11, <3>1, <3>2, <3>4 DEF Uncount
  <2> QED BY <2>1, <2>2
<1>12. ASSUME NEW d \in Dyns, DynamicGone(d) PROVE ChannelOK'
  BY <1>12 DEF DynamicGone, Release
<1>13. ASSUME NEW s \in Subs, NotFound(s) PROVE ChannelOK'
  BY <1>13 DEF NotFound, Created
<1>14. ASSUME NEW s \in Subs, Request(s) PROVE ChannelOK'
  BY <1>14 DEF Request, Created
<1>15. ASSUME NEW s \in Subs, Downgrade(s) PROVE ChannelOK'
  BY <1>15 DEF Downgrade, Release
<1>16. ASSUME NEW d \in Dyns, RemoveEntry(d) PROVE ChannelOK'
  BY <1>16 DEF RemoveEntry, Created
<1>17. ASSUME NEW i \in Ids, RecvGroup(i) PROVE ChannelOK'
  BY <1>17 DEF RecvGroup, Created
<1>18. CASE UNCHANGED vars
  BY <1>1, <1>18 DEF vars, state, trackVars, handlers, subs
<1> QED
  BY <1>1, <1>2, <1>3, <1>4, <1>5, <1>6, <1>7, <1>8, <1>9, <1>10, <1>11, <1>12, <1>13, <1>14, <1>15, <1>16, <1>17, <1>18 DEF Next, Owner, RunBroadcast, Serve, Cleanup, DropDynamic, Section, state, trackVars, handlers, subs, EndTrack, OwnerReadsLast, StopServing, Unused, AbortTrack, Upstream, CleanupFires, CleanupUpgrades, ReadLast, Leave, SubscribeClosed, Reuse, Upgrade

(* Every step keeps the tracks numbered in the order of their creation.     *)
LEMMA TrackTypes == Inv /\ [Next]_vars => TracksOK'
<1> SUFFICES ASSUME Inv, [Next]_vars PROVE TracksOK'
  OBVIOUS
<1> USE BroadcastAssumption DEF Ids, Dyns, Created, NoTracks, state, trackVars, handlers, subs
<1>0. TypeOK
  BY DEF Inv
<1> USE <1>0 DEF TypeOK, ChannelOK, TracksOK, TasksOK
<1>1. ASSUME UNCHANGED <<name, open, static>> PROVE TracksOK'
  BY <1>1 DEF Created
<1>2. ASSUME NEW n \in Names, CreateTrack(n) PROVE TracksOK'
  <2>1. name \in Seq(Names) /\ n \in Names /\ Len(name) + 1 \in 1..MaxTracks
    BY <1>2 DEF CreateTrack
  <2>2. Append(name, n) \in Seq(Names) /\ Len(Append(name, n)) = Len(name) + 1
    BY <2>1
  <2>3. open \subseteq 1..Len(name) /\ static \subseteq 1..Len(name) /\ Len(name) \in Nat
    OBVIOUS
  <2>4. open' \subseteq 1..(Len(name) + 1) /\ static' \subseteq 1..(Len(name) + 1)
    <3>1. 1..Len(name) \subseteq 1..(Len(name) + 1) /\ Len(name) + 1 \in 1..(Len(name) + 1)
      BY <2>3
    <3> QED BY <1>2, <2>3, <3>1 DEF CreateTrack
  <2>5. name' = Append(name, n)
    BY <1>2 DEF CreateTrack
  <2> QED BY <2>1, <2>2, <2>4, <2>5
<1>3. ASSUME NEW i \in Ids, EndTrack(i) PROVE TracksOK'
  BY <1>3 DEF EndTrack, Created
<1>4. ASSUME Abort PROVE TracksOK'
  BY <1>4 DEF Abort, Drain
<1>5. ASSUME OwnerClears PROVE TracksOK'
  BY <1>5 DEF OwnerClears, Drain
<1>6. ASSUME NEW i \in Ids, AbortTrack(i) PROVE TracksOK'
  BY <1>6 DEF AbortTrack, Created
<1>7. ASSUME NEW i \in Ids, Upstream(i) PROVE TracksOK'
  BY <1>7 DEF Upstream, Created
<1>8. ASSUME NEW d \in Dyns, Uncount(d) PROVE TracksOK'
  BY <1>8 DEF Uncount, Drain
<1>9. ASSUME NEW d \in Dyns, DynamicGone(d) PROVE TracksOK'
  BY <1>9 DEF DynamicGone, Created
<1>10. ASSUME NEW s \in Subs, Request(s) PROVE TracksOK'
  <2>1. name \in Seq(Names) /\ want[s] \in Names /\ Len(name) + 1 \in 1..MaxTracks
    BY <1>10 DEF Request
  <2>2. Append(name, want[s]) \in Seq(Names) /\ Len(Append(name, want[s])) = Len(name) + 1
    BY <2>1
  <2>3. open \subseteq 1..Len(name) /\ static \subseteq 1..Len(name) /\ Len(name) \in Nat
    OBVIOUS
  <2>4. open' \subseteq 1..(Len(name) + 1) /\ static' \subseteq 1..(Len(name) + 1)
    <3>1. 1..Len(name) \subseteq 1..(Len(name) + 1) /\ Len(name) + 1 \in 1..(Len(name) + 1)
      BY <2>3
    <3> QED BY <1>10, <2>3, <3>1 DEF Request
  <2>5. name' = Append(name, want[s])
    BY <1>10 DEF Request
  <2> QED BY <2>1, <2>2, <2>4, <2>5
<1>11. ASSUME NEW d \in Dyns, RemoveEntry(d) PROVE TracksOK'
  BY <1>11 DEF RemoveEntry, Created
<1>12. ASSUME NEW i \in Ids, RecvGroup(i) PROVE TracksOK'
  BY <1>12 DEF RecvGroup, Created
<1>13. CASE UNCHANGED vars
  BY <1>1, <1>13 DEF vars, state, trackVars, handlers, subs
<1> QED
  BY <1>1, <1>2, <1>3, <1>4, <1>5, <1>6, <1>7, <1>8, <1>9, <1>10, <1>11, <1>12, <1>13 DEF Next, Owner, RunBroadcast, Serve, Cleanup, DropDynamic, Section, state, trackVars, handlers, subs, RemoveTrack, OwnerReadsLast, OwnerGone, RequestedTrack, SpawnSubscribe, StopServing, Unused, CleanupFires, CleanupUpgrades, CleanupRemoves, CleanupEnds, ReadLast, Leave, SubscribeClosed, Reuse, NotFound, Downgrade, Upgrade

(* Every step keeps the types of the tasks.                                 *)
LEMMA TaskTypes == Inv /\ [Next]_vars => TasksOK'
<1> SUFFICES ASSUME Inv, [Next]_vars PROVE TasksOK'
  OBVIOUS
<1> USE BroadcastAssumption DEF Ids, Dyns, Created, NoTracks, state, trackVars, handlers, subs
<1>0. TypeOK
  BY DEF Inv
<1> USE <1>0 DEF TypeOK, ChannelOK, TracksOK, TasksOK
<1>1. ASSUME NEW n \in Names, CreateTrack(n) PROVE TasksOK'
  BY <1>1 DEF CreateTrack, Created
<1>2. ASSUME NEW n \in Names, RemoveTrack(n) PROVE TasksOK'
  BY <1>2 DEF RemoveTrack, Created
<1>3. ASSUME NEW i \in Ids, EndTrack(i) PROVE TasksOK'
  BY <1>3 DEF EndTrack, Created
<1>4. ASSUME Abort PROVE TasksOK'
  BY <1>4 DEF Abort, Created
<1>5. ASSUME OwnerReadsLast PROVE TasksOK'
  BY <1>5 DEF OwnerReadsLast, Created
<1>6. ASSUME OwnerClears PROVE TasksOK'
  BY <1>6 DEF OwnerClears, Created
<1>7. ASSUME OwnerGone PROVE TasksOK'
  BY <1>7 DEF OwnerGone, Created
<1>8. ASSUME RequestedTrack PROVE TasksOK'
  BY <1>8 DEF RequestedTrack, Created
<1>9. ASSUME SpawnSubscribe PROVE TasksOK'
  BY <1>9 DEF SpawnSubscribe, Created
<1>10. ASSUME StopServing PROVE TasksOK'
  BY <1>10 DEF StopServing, Created
<1>11. ASSUME NEW i \in Ids, Unused(i) PROVE TasksOK'
  BY <1>11 DEF Unused, Created
<1>12. ASSUME NEW i \in Ids, AbortTrack(i) PROVE TasksOK'
  BY <1>12 DEF AbortTrack, Created
<1>13. ASSUME NEW i \in Ids, Upstream(i) PROVE TasksOK'
  BY <1>13 DEF Upstream, Created
<1>14. ASSUME NEW i \in Ids, CleanupFires(i) PROVE TasksOK'
  BY <1>14 DEF CleanupFires, Created
<1>15. ASSUME NEW i \in Ids, CleanupUpgrades(i) PROVE TasksOK'
  BY <1>15 DEF CleanupUpgrades, Created
<1>16. ASSUME NEW i \in Ids, CleanupRemoves(i) PROVE TasksOK'
  BY <1>16 DEF CleanupRemoves, Created
<1>17. ASSUME NEW i \in Ids, CleanupEnds(i) PROVE TasksOK'
  BY <1>17 DEF CleanupEnds, Created
<1>18. ASSUME NEW d \in Dyns, ReadLast(d) PROVE TasksOK'
  BY <1>18 DEF ReadLast, Created
<1>19. ASSUME NEW d \in Dyns, Uncount(d) PROVE TasksOK'
  BY <1>19 DEF Uncount, Created
<1>20. ASSUME NEW d \in Dyns, DynamicGone(d) PROVE TasksOK'
  BY <1>20 DEF DynamicGone, Created
<1>21. ASSUME NEW s \in Subs, Leave(s) PROVE TasksOK'
  BY <1>21 DEF Leave, Created
<1>22. ASSUME NEW s \in Subs, SubscribeClosed(s) PROVE TasksOK'
  BY <1>22 DEF SubscribeClosed, Created
<1>23. ASSUME NEW s \in Subs, Reuse(s) PROVE TasksOK'
  BY <1>23 DEF Reuse, Created
<1>24. ASSUME NEW s \in Subs, NotFound(s) PROVE TasksOK'
  BY <1>24 DEF NotFound, Created
<1>25. ASSUME NEW s \in Subs, Request(s) PROVE TasksOK'
  BY <1>25 DEF Request, Created
<1>26. ASSUME NEW s \in Subs, Downgrade(s) PROVE TasksOK'
  BY <1>26 DEF Downgrade, Created
<1>27. ASSUME NEW s \in Subs, NEW n \in Names, Upgrade(s, n) PROVE TasksOK'
  BY <1>27 DEF Upgrade, Created
<1>28. ASSUME NEW d \in Dyns, RemoveEntry(d) PROVE TasksOK'
  BY <1>28 DEF RemoveEntry, Created
<1>29. ASSUME NEW i \in Ids, RecvGroup(i) PROVE TasksOK'
  BY <1>29 DEF RecvGroup, Created
<1>30. CASE UNCHANGED vars
  BY <1>30 DEF vars, state, trackVars, handlers, subs, Created
<1> QED
  BY <1>1, <1>2, <1>3, <1>4, <1>5, <1>6, <1>7, <1>8, <1>9, <1>10, <1>11, <1>12, <1>13, <1>14, <1>15, <1>16, <1>17, <1>18, <1>19, <1>20, <1>21, <1>22, <1>23, <1>24, <1>25, <1>26, <1>27, <1>28, <1>29, <1>30 DEF Next, Owner, RunBroadcast, Serve, Cleanup, DropDynamic, Section

(* Every step keeps the type invariant.                                     *)
LEMMA TypesStep == Inv /\ [Next]_vars => TypeOK'
  BY ChannelTypes, TrackTypes, TaskTypes DEF TypeOK

(* Every step keeps the lookup to tracks of its names.                      *)
LEMMA TracksStep == Inv /\ [Next]_vars => TracksInv'
<1> SUFFICES ASSUME Inv, [Next]_vars PROVE TracksInv'
  OBVIOUS
<1> USE BroadcastAssumption DEF Ids, Dyns, Created, NoTracks, state, trackVars, handlers, subs
<1>0. TypeOK /\ TracksInv /\ QueueInv
  BY DEF Inv
<1> USE <1>0 DEF TypeOK, ChannelOK, TracksOK, TasksOK
<1>1. ASSUME UNCHANGED <<tracks, name, static, dyn, cleanup>> PROVE TracksInv'
  BY <1>1 DEF TracksInv
<1>2. ASSUME NEW n \in Names, CreateTrack(n) PROVE TracksInv'
  <2>1. name \in Seq(Names) /\ Len(name) \in Nat
    OBVIOUS
  <2>2. Len(name') = Len(name) + 1 /\ name'[Len(name) + 1] = n
    BY <1>2, <2>1 DEF CreateTrack
  <2>3. \A j \in 1..Len(name) : name'[j] = name[j]
    BY <1>2, <2>1 DEF CreateTrack
  <2>4. ASSUME NEW m \in Names, tracks'[m] # 0 PROVE tracks'[m] <= Len(name') /\ name'[tracks'[m]] = m
    <3>1. CASE m = n
      BY <1>2, <2>2, <3>1 DEF CreateTrack
    <3>2. CASE m # n
      <4>1. tracks'[m] = tracks[m] /\ tracks[m] \in 1..Len(name) /\ name[tracks[m]] = m
        BY <1>2, <2>1, <2>4, <3>2 DEF CreateTrack, TracksInv
      <4> QED BY <2>1, <2>2, <2>3, <4>1
    <3> QED BY <3>1, <3>2
  <2>5. ASSUME NEW i \in Ids, i > Len(name') PROVE dyn'[i] = "none" /\ cleanup'[i] = "none"
    BY <1>2, <2>1, <2>2, <2>5 DEF CreateTrack, TracksInv
  <2>6. ASSUME NEW i \in static' PROVE dyn'[i] = "none" /\ cleanup'[i] = "none"
    BY <1>2, <2>1, <2>6 DEF CreateTrack, TracksInv
  <2> QED BY <2>4, <2>5, <2>6 DEF TracksInv
<1>3. ASSUME NEW n \in Names, RemoveTrack(n) PROVE TracksInv'
  BY <1>3 DEF RemoveTrack, TracksInv
<1>4. ASSUME Abort PROVE TracksInv'
  BY <1>4 DEF Abort, TracksInv
<1>5. ASSUME OwnerClears PROVE TracksInv'
  BY <1>5 DEF OwnerClears, TracksInv
<1>6. ASSUME RequestedTrack PROVE TracksInv'
  BY <1>6 DEF RequestedTrack, TracksInv
<1>7. ASSUME SpawnSubscribe PROVE TracksInv'
  BY <1>7 DEF SpawnSubscribe, TracksInv, QueueInv
<1>8. ASSUME StopServing PROVE TracksInv'
  BY <1>8 DEF StopServing, TracksInv
<1>9. ASSUME NEW i \in Ids, Unused(i) PROVE TracksInv'
  BY <1>9 DEF Unused, TracksInv
<1>10. ASSUME NEW i \in Ids, AbortTrack(i) PROVE TracksInv'
  BY <1>10 DEF AbortTrack, TracksInv
<1>11. ASSUME NEW i \in Ids, Upstream(i) PROVE TracksInv'
  BY <1>11 DEF Upstream, TracksInv
<1>12. ASSUME NEW i \in Ids, CleanupFires(i) PROVE TracksInv'
  BY <1>12 DEF CleanupFires, TracksInv
<1>13. ASSUME NEW i \in Ids, CleanupUpgrades(i) PROVE TracksInv'
  BY <1>13 DEF CleanupUpgrades, TracksInv
<1>14. ASSUME NEW i \in Ids, CleanupRemoves(i) PROVE TracksInv'
  BY <1>14 DEF CleanupRemoves, TracksInv
<1>15. ASSUME NEW i \in Ids, CleanupEnds(i) PROVE TracksInv'
  BY <1>15 DEF CleanupEnds, TracksInv
<1>16. ASSUME NEW d \in Dyns, ReadLast(d) PROVE TracksInv'
  BY <1>16 DEF ReadLast, TracksInv
<1>17. ASSUME NEW d \in Dyns, Uncount(d) PROVE TracksInv'
  BY <1>17 DEF Uncount, TracksInv
<1>18. ASSUME NEW d \in Dyns, DynamicGone(d) PROVE TracksInv'
  BY <1>18 DEF DynamicGone, TracksInv
<1>19. ASSUME NEW s \in Subs, NotFound(s) PROVE TracksInv'
  BY <1>19 DEF NotFound, TracksInv
<1>20. ASSUME NEW s \in Subs, Request(s) PROVE TracksInv'
  <2>1. name \in Seq(Names) /\ Len(name) \in Nat
    OBVIOUS
  <2>2. Len(name') = Len(name) + 1 /\ name'[Len(name) + 1] = want[s]
    BY <1>20, <2>1 DEF Request
  <2>3. \A j \in 1..Len(name) : name'[j] = name[j]
    BY <1>20, <2>1 DEF Request
  <2>4. ASSUME NEW m \in Names, tracks'[m] # 0 PROVE tracks'[m] <= Len(name') /\ name'[tracks'[m]] = m
    <3>1. CASE m = want[s]
      BY <1>20, <2>2, <3>1 DEF Request
    <3>2. CASE m # want[s]
      <4>1. tracks'[m] = tracks[m] /\ tracks[m] \in 1..Len(name) /\ name[tracks[m]] = m
        BY <1>20, <2>1, <2>4, <3>2 DEF Request, TracksInv
      <4> QED BY <2>1, <2>2, <2>3, <4>1
    <3> QED BY <3>1, <3>2
  <2>5. ASSUME NEW i \in Ids, i > Len(name') PROVE dyn'[i] = "none" /\ cleanup'[i] = "none"
    BY <1>20, <2>1, <2>2, <2>5 DEF Request, TracksInv
  <2>6. ASSUME NEW i \in static' PROVE dyn'[i] = "none" /\ cleanup'[i] = "none"
    BY <1>20, <2>1, <2>6 DEF Request, TracksInv
  <2> QED BY <2>4, <2>5, <2>6 DEF TracksInv
<1>21. ASSUME NEW d \in Dyns, RemoveEntry(d) PROVE TracksInv'
  BY <1>21 DEF RemoveEntry, TracksInv
<1>22. ASSUME NEW i \in Ids, RecvGroup(i) PROVE TracksInv'
  BY <1>22 DEF RecvGroup, TracksInv
<1>23. CASE UNCHANGED vars
  BY <1>1, <1>23 DEF vars, state, trackVars, handlers, subs
<1> QED
  BY <1>1, <1>2, <1>3, <1>4, <1>5, <1>6, <1>7, <1>8, <1>9, <1>10, <1>11, <1>12, <1>13, <1>14, <1>15, <1>16, <1>17, <1>18, <1>19, <1>20, <1>21, <1>22, <1>23 DEF Next, Owner, RunBroadcast, Serve, Cleanup, DropDynamic, Section, state, trackVars, handlers, subs, EndTrack, OwnerReadsLast, OwnerGone, Leave, SubscribeClosed, Reuse, Downgrade, Upgrade

(* What is queued is a track.                                               *)
LEMMA QueuedIds == TypeOK => Queued \subseteq Ids
  BY DEF TypeOK, ChannelOK, TracksOK, TasksOK, Queued

(* Every step keeps the queue free of duplicates and of served tracks.      *)
LEMMA QueueStep == Inv /\ [Next]_vars => QueueInv'
<1> SUFFICES ASSUME Inv, [Next]_vars PROVE QueueInv'
  OBVIOUS
<1> USE BroadcastAssumption DEF Ids, Dyns, Created, NoTracks, state, trackVars, handlers, subs
<1>0. TypeOK /\ TracksInv /\ QueueInv
  BY DEF Inv
<1> USE <1>0 DEF TypeOK, ChannelOK, TracksOK, TasksOK
<1>1. ASSUME UNCHANGED <<requests, name, static, dyn, popped>> PROVE QueueInv'
  <2> HIDE <1>0
  <2>1. Queued' = Queued
    BY <1>1 DEF Queued
  <2> QED BY <1>0, <1>1, <2>1 DEF QueueInv
<1>2. ASSUME NEW n \in Names, CreateTrack(n) PROVE QueueInv'
  <2>1. Len(name) \in Nat /\ Len(name') = Len(name) + 1 /\ static' = static \cup {Len(name) + 1}
    BY <1>2 DEF CreateTrack
  <2>2. UNCHANGED <<requests, dyn, popped>> /\ Queued' = Queued
    BY <1>2 DEF CreateTrack, Queued
  <2>3. \A i \in Queued : i <= Len(name') /\ i # Len(name) + 1
    <3> HIDE <1>0
    <3>1. \A i \in Queued : i \in Nat /\ i <= Len(name)
      BY <1>0, QueuedIds DEF QueueInv, Ids, Created
    <3> QED BY <2>1, <3>1
  <2>4. popped # 0 => popped <= Len(name') /\ popped # Len(name) + 1
    BY <2>1 DEF QueueInv
  <2> QED BY <2>1, <2>2, <2>3, <2>4 DEF QueueInv
<1>3. ASSUME Abort PROVE QueueInv'
  BY <1>3 DEF Abort, Drain, QueueInv, Queued
<1>4. ASSUME OwnerClears PROVE QueueInv'
  BY <1>4 DEF OwnerClears, Drain, QueueInv, Queued
<1>5. ASSUME RequestedTrack PROVE QueueInv'
  <2> DEFINE m == Len(requests)
  <2>1. requests \in Seq(Ids) /\ m \in Nat \ {0} /\ popped' = requests[m]
    BY <1>5 DEF RequestedTrack
  <2>2. /\ DOMAIN requests' = 1..(m - 1) /\ DOMAIN requests = 1..m
        /\ \A k \in 1..(m - 1) : requests'[k] = requests[k]
    <3>1. requests' = SubSeq(requests, 1, Len(requests) - 1)
      BY <1>5 DEF RequestedTrack
    <3> HIDE <1>0
    <3> QED BY <2>1, <3>1
  <2>3. 1..(m - 1) \subseteq 1..m /\ m \in 1..m /\ m \notin 1..(m - 1)
    <3> HIDE <1>0 DEF m
    <3> QED BY <2>1
  <2> HIDE DEF m
  <2>4. Queued' \subseteq Queued /\ popped' \in Queued /\ popped' \notin Queued'
    <3> HIDE <1>0
    <3> QED BY <1>0, <2>1, <2>2, <2>3 DEF Queued, QueueInv
  <2>5. dyn'[0] = "popped" /\ \A i \in Ids : dyn'[i] = dyn[i]
    BY <1>5 DEF RequestedTrack
  <2>6. \A i \in Queued' : i <= Len(name') /\ dyn'[i] = "none" /\ i \notin static' /\ i # popped'
    BY <1>5, <2>4, <2>5, QueuedIds DEF RequestedTrack, QueueInv
  <2>7. popped' # 0 /\ popped' <= Len(name') /\ dyn'[popped'] = "none" /\ popped' \notin static'
    BY <1>5, <2>4, <2>5, QueuedIds DEF RequestedTrack, QueueInv
  <2>8. \A j, k \in DOMAIN requests' : requests'[j] = requests'[k] => j = k
    <3> HIDE <1>0
    <3> QED BY <1>0, <2>2, <2>3 DEF QueueInv
  <2> QED BY <2>5, <2>6, <2>7, <2>8 DEF QueueInv
<1>6. ASSUME SpawnSubscribe PROVE QueueInv'
  BY <1>6 DEF SpawnSubscribe, QueueInv, Queued
<1>7. ASSUME StopServing PROVE QueueInv'
  BY <1>7 DEF StopServing, QueueInv, Queued
<1>8. ASSUME NEW i \in Ids, Unused(i) PROVE QueueInv'
  BY <1>8 DEF Unused, QueueInv, Queued
<1>9. ASSUME NEW i \in Ids, AbortTrack(i) PROVE QueueInv'
  BY <1>9 DEF AbortTrack, QueueInv, Queued
<1>10. ASSUME NEW i \in Ids, Upstream(i) PROVE QueueInv'
  BY <1>10 DEF Upstream, QueueInv, Queued
<1>11. ASSUME NEW d \in Dyns, ReadLast(d) PROVE QueueInv'
  BY <1>11 DEF ReadLast, QueueInv, Queued
<1>12. ASSUME NEW d \in Dyns, Uncount(d) PROVE QueueInv'
  BY <1>12 DEF Uncount, Drain, QueueInv, Queued
<1>13. ASSUME NEW d \in Dyns, DynamicGone(d) PROVE QueueInv'
  BY <1>13 DEF DynamicGone, QueueInv, Queued
<1>14. ASSUME NEW s \in Subs, Request(s) PROVE QueueInv'
  <2> DEFINE c == Len(name) + 1
  <2>1. requests \in Seq(Ids) /\ Len(requests) \in Nat /\ Len(name) \in Nat /\ c \in Ids
    BY <1>14 DEF Request
  <2>2. requests' = Append(requests, c) /\ Len(name') = c /\ UNCHANGED <<static, dyn, popped>>
    BY <1>14 DEF Request
  <2>3. dyn[c] = "none" /\ c \notin static /\ c # popped /\ c \notin Queued
    BY <2>1 DEF TracksInv, QueueInv
  <2>4. Len(requests') = Len(requests) + 1 /\ requests'[Len(requests) + 1] = c
        /\ \A k \in 1..Len(requests) : requests'[k] = requests[k]
    BY <2>1, <2>2
  <2>5. Queued' = Queued \cup {c}
    <3>1. DOMAIN requests = 1..Len(requests) /\ DOMAIN requests' = 1..(Len(requests) + 1)
      BY <2>1, <2>2
    <3>2. 1..(Len(requests) + 1) = 1..Len(requests) \cup {Len(requests) + 1}
      BY <2>1
    <3> HIDE <1>0 DEF c
    <3> QED BY <2>4, <3>1, <3>2 DEF Queued
  <2> HIDE DEF c
  <2>6. \A i \in Queued' : i <= Len(name') /\ dyn'[i] = "none" /\ i \notin static' /\ i # popped'
    <3>1. \A i \in Queued : i <= c
      <4> HIDE <1>0
      <4>1. Queued \subseteq Nat
        BY <1>0, QueuedIds
      <4>2. \A i \in Queued : i <= Len(name)
        BY <1>0 DEF QueueInv
      <4> QED BY <2>1, <4>1, <4>2 DEF c
    <3> QED BY <2>1, <2>2, <2>3, <2>5, <3>1 DEF QueueInv
  <2>7. \A j, k \in DOMAIN requests' : requests'[j] = requests'[k] => j = k
    <3>1. \A k \in 1..Len(requests) : requests[k] # c
      BY <2>1, <2>3 DEF Queued
    <3> QED BY <2>1, <2>2, <2>4, <3>1 DEF QueueInv
  <2>8. popped # 0 => popped <= Len(name')
    BY <2>1, <2>2 DEF c, QueueInv
  <2> QED BY <2>2, <2>6, <2>7, <2>8 DEF QueueInv
<1>15. ASSUME NEW d \in Dyns, RemoveEntry(d) PROVE QueueInv'
  <2>1. PICK v \in {"receiving", "gone"} : dyn' = [dyn EXCEPT ![d] = v]
    BY <1>15 DEF RemoveEntry
  <2>2. UNCHANGED <<requests, name, static, popped>>
    BY <1>15 DEF RemoveEntry
  <2>3. Queued' = Queued /\ dyn[d] = "released"
    BY <1>15, <2>2 DEF RemoveEntry, Queued
  <2> QED BY <2>1, <2>2, <2>3 DEF QueueInv
<1>16. ASSUME NEW i \in Ids, RecvGroup(i) PROVE QueueInv'
  BY <1>16 DEF RecvGroup, QueueInv, Queued
<1>17. CASE UNCHANGED vars
  BY <1>1, <1>17 DEF vars, state, trackVars, handlers, subs
<1> QED
  BY <1>1, <1>2, <1>3, <1>4, <1>5, <1>6, <1>7, <1>8, <1>9, <1>10, <1>11, <1>12, <1>13, <1>14, <1>15, <1>16, <1>17 DEF Next, Owner, RunBroadcast, Serve, Cleanup, DropDynamic, Section, state, trackVars, handlers, subs, RemoveTrack, EndTrack, OwnerReadsLast, OwnerGone, CleanupFires, CleanupUpgrades, CleanupRemoves, CleanupEnds, Leave, SubscribeClosed, Reuse, NotFound, Downgrade, Upgrade

(* A kio producer that is the last leaves no live dynamic handle but itself. *)
LEMMA OnlyHolder ==
    ASSUME NEW h, IsLast(h), NEW e \in Dyns, <<"dynamic", e>> # h
    PROVE  dyn[e] \in NoHandle
<1>1. dyn[e] \notin NoHandle => <<"dynamic", e>> \in Holders
  BY DEF Holders
<1> QED BY <1>1 DEF IsLast

(* Every step keeps the last handle the last.                               *)
LEMMA LastStep == Inv /\ [Next]_vars => LastInv'
<1> SUFFICES ASSUME Inv, [Next]_vars PROVE LastInv'
  OBVIOUS
<1> USE BroadcastAssumption DEF Ids, Dyns, Created, NoTracks, state, trackVars, handlers, subs
<1>0. TypeOK /\ LastInv /\ QueueInv
  BY DEF Inv
<1> USE <1>0 DEF NoHandle, TypeOK, ChannelOK, TracksOK, TasksOK
<1>1. ASSUME UNCHANGED <<owner, dyn>> PROVE LastInv'
  BY <1>1 DEF LastInv
<1>2. ASSUME OwnerReadsLast PROVE LastInv'
  <2>1. CASE IsLast(<<"owner", 0>>)
    <3>1. \A e \in Dyns : dyn[e] \in NoHandle
      BY <2>1, OnlyHolder
    <3> QED BY <1>2, <3>1 DEF OwnerReadsLast, LastInv
  <2>2. CASE ~IsLast(<<"owner", 0>>)
    BY <1>2, <2>2 DEF OwnerReadsLast, LastInv
  <2> QED BY <2>1, <2>2
<1>3. ASSUME OwnerClears PROVE LastInv'
  BY <1>3 DEF OwnerClears, LastInv
<1>4. ASSUME OwnerGone PROVE LastInv'
  BY <1>4 DEF OwnerGone, LastInv
<1>5. ASSUME RequestedTrack PROVE LastInv'
  BY <1>5 DEF RequestedTrack, LastInv
<1>6. ASSUME SpawnSubscribe PROVE LastInv'
  <2>1. 0 \in Dyns /\ dyn[0] = "popped" /\ popped \in Dyns
    BY <1>6 DEF SpawnSubscribe
  <2>2. owner # "last" /\ \A d \in Dyns : dyn[d] # "last"
    BY <2>1 DEF LastInv
  <2> QED BY <1>6, <2>1, <2>2 DEF SpawnSubscribe, LastInv
<1>7. ASSUME StopServing PROVE LastInv'
  BY <1>7 DEF StopServing, LastInv
<1>8. ASSUME NEW i \in Ids, Unused(i) PROVE LastInv'
  BY <1>8 DEF Unused, LastInv
<1>9. ASSUME NEW i \in Ids, AbortTrack(i) PROVE LastInv'
  BY <1>9 DEF AbortTrack, LastInv
<1>10. ASSUME NEW i \in Ids, Upstream(i) PROVE LastInv'
  BY <1>10 DEF Upstream, LastInv
<1>11. ASSUME NEW d \in Dyns, ReadLast(d) PROVE LastInv'
  <2>1. CASE IsLast(<<"dynamic", d>>)
    <3>1. \A e \in Dyns \ {d} : dyn[e] \in NoHandle
      BY <2>1, OnlyHolder
    <3> QED BY <1>11, <3>1 DEF ReadLast, LastInv
  <2>2. CASE ~IsLast(<<"dynamic", d>>)
    BY <1>11, <2>2 DEF ReadLast, LastInv
  <2> QED BY <2>1, <2>2
<1>12. ASSUME NEW d \in Dyns, Uncount(d) PROVE LastInv'
  BY <1>12 DEF Uncount, LastInv
<1>13. ASSUME NEW d \in Dyns, DynamicGone(d) PROVE LastInv'
  BY <1>13 DEF DynamicGone, LastInv
<1>14. ASSUME NEW d \in Dyns, RemoveEntry(d) PROVE LastInv'
  <2>1. PICK v \in {"receiving", "gone"} : dyn' = [dyn EXCEPT ![d] = v]
    BY <1>14 DEF RemoveEntry
  <2>2. owner' = owner
    BY <1>14 DEF RemoveEntry
  <2>3. \A e \in Dyns : dyn[e] \in NoHandle => dyn'[e] \in NoHandle
    BY <2>1
  <2>4. \A e \in Dyns : dyn'[e] = "last" => dyn[e] = "last"
    BY <2>1
  <2> QED BY <2>2, <2>3, <2>4 DEF LastInv
<1>15. ASSUME NEW i \in Ids, RecvGroup(i) PROVE LastInv'
  BY <1>15 DEF RecvGroup, LastInv
<1>16. CASE UNCHANGED vars
  BY <1>1, <1>16 DEF vars, state, trackVars, handlers, subs
<1> QED
  BY <1>1, <1>2, <1>3, <1>4, <1>5, <1>6, <1>7, <1>8, <1>9, <1>10, <1>11, <1>12, <1>13, <1>14, <1>15, <1>16 DEF Next, Owner, RunBroadcast, Serve, Cleanup, DropDynamic, Section, state, trackVars, handlers, subs, CreateTrack, RemoveTrack, EndTrack, Abort, CleanupFires, CleanupUpgrades, CleanupRemoves, CleanupEnds, Leave, SubscribeClosed, Reuse, NotFound, Request, Downgrade, Upgrade

(* The counted handles are finitely many.                                   *)
LEMMA CountedFinite == IsFiniteSet(Counted) /\ Cardinality(Counted) \in Nat
<1>1. IsFiniteSet(Dyns)
  BY BroadcastAssumption, FS_Interval DEF Dyns
<1>2. Counted \subseteq Dyns
  BY DEF Counted
<1> QED BY <1>1, <1>2, FS_Subset, FS_CardinalityType

(* When the last kio producer goes and is not a counted handle, nothing is  *)
(* queued.                                                                  *)
LEMMA LastLeavesNothing ==
    ASSUME DynamicExact, ~closed, NEW h, IsLast(h), \A e \in Counted : <<"dynamic", e>> # h
    PROVE  requests = <<>>
<1>1. Counted = {}
  BY OnlyHolder DEF Counted, NoHandle
<1> QED BY <1>1, FS_EmptySet DEF DynamicExact

(* Every step keeps the count of the dynamic handles exact.                 *)
LEMMA CountStep == Inv /\ [Next]_vars => DynamicExact'
<1> SUFFICES ASSUME Inv, [Next]_vars PROVE DynamicExact'
  OBVIOUS
<1>0. TypeOK /\ DynamicExact /\ QueueInv
  BY DEF Inv
<1> USE <1>0 DEF TypeOK, ChannelOK, TracksOK, TasksOK, state, trackVars, handlers, subs
<1>1. ASSUME UNCHANGED <<requests, dynamic, closed, dyn>> PROVE DynamicExact'
  BY <1>1 DEF DynamicExact, Counted
<1>2. ASSUME Abort PROVE DynamicExact'
  BY <1>2 DEF Abort, Drain, DynamicExact
<1>3. ASSUME OwnerClears PROVE DynamicExact'
  BY <1>3 DEF OwnerClears, Drain, DynamicExact, Counted
<1>4. ASSUME OwnerGone PROVE DynamicExact'
  <2>1. ~closed /\ IsLast(<<"owner", 0>>) => requests = <<>>
    BY <1>4, LastLeavesNothing DEF OwnerGone, Counted
  <2>2. UNCHANGED <<requests, dynamic>> /\ Counted' = Counted /\ closed' = (closed \/ IsLast(<<"owner", 0>>))
    BY <1>4 DEF OwnerGone, Counted, Release
  <2> QED BY <2>1, <2>2 DEF DynamicExact
<1>5. ASSUME RequestedTrack PROVE DynamicExact'
  <2>1. Counted' = Counted
    BY <1>5 DEF RequestedTrack, Counted
  <2>2. ~closed /\ ~closed' /\ dynamic # 0 /\ dynamic' = dynamic
    BY <1>5 DEF RequestedTrack, DynamicExact
  <2> QED BY <2>1, <2>2 DEF DynamicExact
<1>6. ASSUME SpawnSubscribe PROVE DynamicExact'
  <2>1. popped \in Dyns /\ 0 \in Dyns /\ popped # 0 /\ dyn[0] = "popped" /\ dyn[popped] = "none"
    BY <1>6, BroadcastAssumption DEF SpawnSubscribe, QueueInv, Dyns
  <2>2. Counted' = Counted \cup {popped} /\ popped \notin Counted
    BY <1>6, <2>1 DEF SpawnSubscribe, Counted
  <2>3. Cardinality(Counted') = Cardinality(Counted) + 1
    BY <2>2, CountedFinite, FS_AddElement
  <2> QED BY <1>6, <2>3, CountedFinite DEF SpawnSubscribe, DynamicExact
<1>7. ASSUME StopServing PROVE DynamicExact'
  <2>1. Counted' = Counted
    BY <1>7 DEF StopServing, Counted
  <2> QED BY <1>7, <2>1 DEF StopServing, DynamicExact
<1>8. ASSUME NEW i \in Ids, Unused(i) PROVE DynamicExact'
  <2>1. Counted' = Counted
    BY <1>8 DEF Unused, Counted
  <2> QED BY <1>8, <2>1 DEF Unused, DynamicExact
<1>9. ASSUME NEW i \in Ids, AbortTrack(i) PROVE DynamicExact'
  <2>1. Counted' = Counted
    BY <1>9 DEF AbortTrack, Counted
  <2> QED BY <1>9, <2>1 DEF AbortTrack, DynamicExact
<1>10. ASSUME NEW i \in Ids, Upstream(i) PROVE DynamicExact'
  <2>1. Counted' = Counted
    BY <1>10 DEF Upstream, Counted
  <2> QED BY <1>10, <2>1 DEF Upstream, DynamicExact
<1>11. ASSUME NEW i \in Ids, CleanupEnds(i) PROVE DynamicExact'
  <2>1. ~closed /\ IsLast(<<"cleanup", i>>) => requests = <<>>
    BY <1>11, LastLeavesNothing DEF CleanupEnds, Counted
  <2>2. UNCHANGED <<requests, dynamic>> /\ Counted' = Counted /\ closed' = (closed \/ IsLast(<<"cleanup", i>>))
    BY <1>11 DEF CleanupEnds, Counted, Release
  <2> QED BY <2>1, <2>2 DEF DynamicExact
<1>12. ASSUME NEW d \in Dyns, ReadLast(d) PROVE DynamicExact'
  <2>1. Counted' = Counted
    BY <1>12 DEF ReadLast, Counted
  <2> QED BY <1>12, <2>1 DEF ReadLast, DynamicExact
<1>13. ASSUME NEW d \in Dyns, Uncount(d) PROVE DynamicExact'
  <2>1. CASE closed
    BY <1>13, <2>1 DEF Uncount, DynamicExact
  <2>2. CASE ~closed
    <3>1. Counted' = Counted \ {d} /\ d \in Counted
      BY <1>13 DEF Uncount, Counted
    <3>2. Cardinality(Counted') = Cardinality(Counted) - 1
      BY <3>1, CountedFinite, FS_RemoveElement
    <3>3. dynamic = Cardinality(Counted) /\ dynamic # 0
      BY <2>2, <3>1, CountedFinite, FS_EmptySet DEF DynamicExact
    <3>4. dynamic' = dynamic - 1 /\ ~closed' /\ (dynamic' = 0 => requests' = <<>>)
      BY <1>13, <2>2, <3>3 DEF Uncount, Drain
    <3> QED BY <3>2, <3>3, <3>4 DEF DynamicExact
  <2> QED BY <2>1, <2>2
<1>14. ASSUME NEW d \in Dyns, DynamicGone(d) PROVE DynamicExact'
  <2>1. ~closed /\ IsLast(<<"dynamic", d>>) => requests = <<>>
    BY <1>14, LastLeavesNothing DEF DynamicGone, Counted
  <2>2. UNCHANGED <<requests, dynamic>> /\ Counted' = Counted /\ closed' = (closed \/ IsLast(<<"dynamic", d>>))
    BY <1>14 DEF DynamicGone, Counted, Release
  <2> QED BY <2>1, <2>2 DEF DynamicExact
<1>15. ASSUME NEW s \in Subs, Request(s) PROVE DynamicExact'
  <2>1. Counted' = Counted
    BY <1>15 DEF Request, Counted
  <2>2. ~closed /\ ~closed' /\ dynamic # 0 /\ dynamic' = dynamic
    BY <1>15 DEF Request
  <2> QED BY <2>1, <2>2 DEF DynamicExact
<1>16. ASSUME NEW s \in Subs, Downgrade(s) PROVE DynamicExact'
  <2>1. ~closed /\ IsLast(<<"sub", s>>) => requests = <<>>
    BY <1>16, LastLeavesNothing DEF Downgrade, Counted
  <2>2. UNCHANGED <<requests, dynamic>> /\ Counted' = Counted /\ closed' = (closed \/ IsLast(<<"sub", s>>))
    BY <1>16 DEF Downgrade, Counted, Release
  <2> QED BY <2>1, <2>2 DEF DynamicExact
<1>17. ASSUME NEW d \in Dyns, RemoveEntry(d) PROVE DynamicExact'
  BY <1>17 DEF RemoveEntry, DynamicExact, Counted
<1>18. ASSUME NEW i \in Ids, RecvGroup(i) PROVE DynamicExact'
  BY <1>18 DEF RecvGroup, DynamicExact, Counted
<1>19. CASE UNCHANGED vars
  BY <1>1, <1>19 DEF vars, state, trackVars, handlers, subs
<1> QED
  BY <1>1, <1>2, <1>3, <1>4, <1>5, <1>6, <1>7, <1>8, <1>9, <1>10, <1>11, <1>12, <1>13, <1>14, <1>15, <1>16, <1>17, <1>18, <1>19 DEF Next, Owner, RunBroadcast, Serve, Cleanup, DropDynamic, Section, state, trackVars, handlers, subs, CreateTrack, RemoveTrack, EndTrack, OwnerReadsLast, CleanupFires, CleanupUpgrades, CleanupRemoves, Leave, SubscribeClosed, Reuse, NotFound, Upgrade

(* A request that is popped leaves the queue and no other does.             *)
LEMMA QueuePops == TypeOK /\ RequestedTrack => Queued = Queued' \cup {popped'}
<1> SUFFICES ASSUME TypeOK, RequestedTrack PROVE Queued = Queued' \cup {popped'}
  OBVIOUS
<1> DEFINE m == Len(requests)
<1>1. requests \in Seq(Ids) /\ m \in Nat \ {0} /\ popped' = requests[m]
  BY DEF TypeOK, ChannelOK, TracksOK, TasksOK, RequestedTrack
<1>2. requests' = SubSeq(requests, 1, m - 1)
  BY DEF RequestedTrack
<1>3. /\ DOMAIN requests' = 1..(m - 1) /\ DOMAIN requests = 1..m
      /\ \A k \in 1..(m - 1) : requests'[k] = requests[k]
  BY <1>1, <1>2
<1> HIDE DEF m
<1>4. 1..m = 1..(m - 1) \cup {m}
  BY <1>1
<1> QED BY <1>1, <1>3, <1>4 DEF Queued

(* A call of subscribe_track queues the track it creates.                   *)
LEMMA QueuePushes == ASSUME NEW s \in Subs, TypeOK, Request(s) PROVE Queued' = Queued \cup {Created + 1}
<1> DEFINE m == Len(requests)
           c == Created + 1
<1>1. requests \in Seq(Ids) /\ m \in Nat /\ c \in Ids
  BY DEF TypeOK, ChannelOK, TracksOK, TasksOK, Request
<1>2. requests' = Append(requests, c)
  BY DEF Request
<1> HIDE DEF c
<1>3. /\ DOMAIN requests' = 1..(m + 1) /\ DOMAIN requests = 1..m /\ requests'[m + 1] = c
      /\ \A k \in 1..m : requests'[k] = requests[k]
  BY <1>1, <1>2
<1> HIDE DEF m
<1>4. 1..(m + 1) = 1..m \cup {m + 1}
  BY <1>1
<1>5. Queued' = Queued \cup {c}
  BY <1>3, <1>4 DEF Queued
<1> QED BY <1>5 DEF c

(* Every step leaves each open track with somebody who answers for it.      *)
LEMMA OrphanStep == Inv /\ [Next]_vars => NoOrphan'
<1> SUFFICES ASSUME Inv, [Next]_vars PROVE NoOrphan'
  OBVIOUS
<1>0. TypeOK /\ TracksInv /\ QueueInv /\ NoOrphan /\ BroadcastAssumption
  BY BroadcastAssumption DEF Inv
<1> USE <1>0 DEF TypeOK, ChannelOK, TracksOK, TasksOK, Created, Ids, Dyns, state, trackVars, handlers, subs
<1>1. ASSUME UNCHANGED <<open, requests, popped, static, dyn>> PROVE NoOrphan'
  BY <1>1 DEF NoOrphan, Queued
<1>2. ASSUME NEW n \in Names, CreateTrack(n) PROVE NoOrphan'
  <2>1. UNCHANGED <<requests, popped, dyn>> /\ Queued' = Queued
    BY <1>2 DEF CreateTrack, Queued
  <2>2. open' = open \cup {Created + 1} /\ static' = static \cup {Created + 1}
    BY <1>2 DEF CreateTrack
  <2> QED BY <2>1, <2>2 DEF NoOrphan
<1>3. ASSUME NEW i \in Ids, EndTrack(i) PROVE NoOrphan'
  BY <1>3 DEF EndTrack, NoOrphan, Queued
<1>4. ASSUME Abort PROVE NoOrphan'
  BY <1>4 DEF Abort, Drain, NoOrphan, Queued
<1>5. ASSUME OwnerClears PROVE NoOrphan'
  <2>1. UNCHANGED <<requests, open>> \/ (requests' = <<>> /\ open' = open \ Queued)
    BY <1>5 DEF OwnerClears, Drain
  <2>2. open' \subseteq open /\ \A i \in open' : i \in Queued => i \in Queued'
    BY <2>1 DEF Queued
  <2> QED BY <1>5, <2>2 DEF OwnerClears, NoOrphan
<1>6. ASSUME RequestedTrack PROVE NoOrphan'
  <2>1. Queued = Queued' \cup {popped'}
    BY <1>6, QueuePops
  <2>2. popped = 0 /\ 0 \notin open
    BY <1>6 DEF RequestedTrack, QueueInv
  <2>3. UNCHANGED <<open, static>> /\ \A i \in open : dyn'[i] = dyn[i]
    BY <1>6, <2>2 DEF RequestedTrack
  <2> QED BY <2>1, <2>2, <2>3 DEF NoOrphan
<1>7. ASSUME SpawnSubscribe PROVE NoOrphan'
  BY <1>7 DEF SpawnSubscribe, NoOrphan, Queued
<1>8. ASSUME StopServing PROVE NoOrphan'
  BY <1>8 DEF StopServing, NoOrphan, Queued
<1>9. ASSUME NEW i \in Ids, Unused(i) PROVE NoOrphan'
  BY <1>9 DEF Unused, NoOrphan, Queued
<1>10. ASSUME NEW i \in Ids, AbortTrack(i) PROVE NoOrphan'
  BY <1>10 DEF AbortTrack, NoOrphan, Queued
<1>11. ASSUME NEW i \in Ids, Upstream(i) PROVE NoOrphan'
  BY <1>11 DEF Upstream, NoOrphan, Queued
<1>12. ASSUME NEW d \in Dyns, ReadLast(d) PROVE NoOrphan'
  BY <1>12 DEF ReadLast, NoOrphan, Queued
<1>13. ASSUME NEW d \in Dyns, Uncount(d) PROVE NoOrphan'
  <2>1. dyn'[d] = "left" /\ \A e \in Dyns \ {d} : dyn'[e] = dyn[e]
    BY <1>13 DEF Uncount
  <2>2. UNCHANGED <<popped, static>>
    BY <1>13 DEF Uncount
  <2>3. UNCHANGED <<requests, open>> \/ (requests' = <<>> /\ open' = open \ Queued)
    BY <1>13 DEF Uncount, Drain
  <2>4. open' \subseteq open /\ \A i \in open' : i \in Queued => i \in Queued'
    BY <2>3 DEF Queued
  <2> QED BY <2>1, <2>2, <2>4 DEF NoOrphan
<1>14. ASSUME NEW d \in Dyns, DynamicGone(d) PROVE NoOrphan'
  BY <1>14 DEF DynamicGone, NoOrphan, Queued
<1>15. ASSUME NEW s \in Subs, Request(s) PROVE NoOrphan'
  <2>1. Queued' = Queued \cup {Created + 1}
    BY <1>15, QueuePushes
  <2> QED BY <1>15, <2>1 DEF Request, NoOrphan
<1>16. ASSUME NEW d \in Dyns, RemoveEntry(d) PROVE NoOrphan'
  <2>1. UNCHANGED <<requests, name, static, popped>>
    BY <1>16 DEF RemoveEntry
  <2>2. Queued' = Queued
    BY <2>1 DEF Queued
  <2>3. CASE dyn' = [dyn EXCEPT ![d] = "gone"] /\ open' = open \ {d}
    BY <2>1, <2>2, <2>3 DEF NoOrphan
  <2>4. CASE dyn' = [dyn EXCEPT ![d] = "receiving"] /\ UNCHANGED open
    <3>1. \A i \in Dyns : dyn[i] \notin {"none", "gone"} => dyn'[i] \notin {"none", "gone"}
      BY <2>4
    <3>2. open \subseteq Dyns
      BY DEF Ids, Dyns
    <3> QED BY <2>1, <2>2, <2>4, <3>1, <3>2 DEF NoOrphan
  <2> QED BY <1>16, <2>3, <2>4 DEF RemoveEntry
<1>17. ASSUME NEW i \in Ids, RecvGroup(i) PROVE NoOrphan'
  BY <1>17 DEF RecvGroup, NoOrphan, Queued
<1>18. CASE UNCHANGED vars
  BY <1>1, <1>18 DEF vars, state, trackVars, handlers, subs
<1> QED
  BY <1>1, <1>2, <1>3, <1>4, <1>5, <1>6, <1>7, <1>8, <1>9, <1>10, <1>11, <1>12, <1>13, <1>14, <1>15, <1>16, <1>17, <1>18 DEF Next, Owner, RunBroadcast, Serve, Cleanup, DropDynamic, Section, state, trackVars, handlers, subs, RemoveTrack, OwnerReadsLast, OwnerGone, CleanupFires, CleanupUpgrades, CleanupRemoves, CleanupEnds, Leave, SubscribeClosed, Reuse, NotFound, Downgrade, Upgrade

(* With no other dynamic handle, no requested track is served or popped.    *)
LEMMA NothingServed ==
    ASSUME Inv, NEW d, \A e \in Dyns \ {d} : dyn[e] \in NoHandle,
           d \in Dyns => dyn[d] # "popped"
    PROVE  \A i \in open \ Queued : i # d => ~InUse(i)
<1> SUFFICES ASSUME NEW i \in open \ Queued, i # d, dyn[i] \in {"none", "serving"}
             PROVE  cleanup[i] # "waiting"
  BY DEF InUse
<1>1. i \in Ids /\ i \in Dyns /\ 0 \in Dyns
  BY BroadcastAssumption DEF Inv, TypeOK, ChannelOK, TracksOK, TasksOK, Created, Ids, Dyns
<1>2. dyn[i] = "none" /\ dyn[0] # "popped"
  BY <1>1 DEF NoHandle
<1>3. i # popped
  BY <1>1, <1>2 DEF Inv, QueueInv, Ids
<1>4. i \in static
  BY <1>2, <1>3 DEF Inv, NoOrphan
<1> QED BY <1>4 DEF Inv, TracksInv

(* A step that takes a track in use out of the lookup of a broadcast that   *)
(* stays open is remove_track.                                              *)
LEMMA LookupStep ==
    ASSUME Inv, [Next]_vars, NEW i \in Ids, InUse(i), InUse(i)',
           tracks[name[i]] = i, tracks'[name[i]] # i, ~closed'
    PROVE  RemoveTrack(name[i])
<1>0. /\ TypeOK /\ BroadcastAssumption
      /\ i \in open /\ cleanup[i] = "waiting" /\ dyn[i] \in {"none", "serving"}
      /\ i \in open' /\ cleanup'[i] = "waiting"
  BY BroadcastAssumption DEF Inv, InUse
<1>1. /\ name[i] \in Names /\ i # 0 /\ i \in Dyns
      /\ tracks \in [Names -> 0..MaxTracks]
  BY <1>0 DEF TypeOK, ChannelOK, TracksOK, Created, Ids, Dyns
<1> PICK n \in Names : n = name[i]
  BY <1>1
<1>2. tracks[n] = i /\ tracks'[n] # i
  OBVIOUS
<1>3. ASSUME UNCHANGED tracks PROVE FALSE
  BY <1>2, <1>3
<1>4. ASSUME NEW m \in Names, CreateTrack(m) PROVE FALSE
  BY <1>1, <1>2, <1>4 DEF CreateTrack
<1>5. ASSUME NEW m \in Names, RemoveTrack(m) PROVE RemoveTrack(n)
  <2>1. m = n
    BY <1>1, <1>2, <1>5 DEF RemoveTrack
  <2> QED BY <1>5, <2>1
<1>6. ASSUME Abort PROVE FALSE
  BY <1>6 DEF Abort
<1>7. ASSUME OwnerClears PROVE FALSE
  <2>1. owner = "last" /\ open' = open \ Queued
    BY <1>2, <1>7 DEF OwnerClears, Drain
  <2>2. \A e \in Dyns : dyn[e] \in NoHandle
    BY <2>1 DEF Inv, LastInv
  <2>3. 0 \in Dyns /\ dyn[0] # "popped"
    BY <1>0, <2>2 DEF NoHandle, Dyns
  <2>4. \A e \in Dyns \ {0} : dyn[e] \in NoHandle
    BY <2>2
  <2>5. \A j \in open \ Queued : j # 0 => ~InUse(j)
    BY <2>3, <2>4, NothingServed
  <2> QED BY <1>0, <1>1, <2>1, <2>5
<1>8. ASSUME NEW j \in Ids, CleanupRemoves(j) PROVE FALSE
  <2>1. tracks' = tracks \/ (tracks' = [tracks EXCEPT ![name[j]] = 0] /\ tracks[name[j]] = j)
    BY <1>8 DEF CleanupRemoves
  <2>2. name[j] = n /\ j = i
    BY <1>1, <1>2, <2>1
  <2>3. cleanup' = [cleanup EXCEPT ![j] = "removed"] /\ cleanup \in [Ids -> {"none", "waiting", "fired", "upgraded", "removed", "done"}]
    BY <1>0, <1>8 DEF CleanupRemoves, TypeOK, TasksOK
  <2> QED BY <1>0, <2>2, <2>3
<1>9. ASSUME NEW d \in Dyns, Uncount(d) PROVE FALSE
  <2>1. ~closed /\ dyn[d] = "last"
    BY <1>2, <1>9 DEF Uncount
  <2>2. \A e \in Dyns \ {d} : dyn[e] \in NoHandle
    BY <2>1 DEF LastInv, Inv
  <2>3. dynamic = 1
    <3>1. Counted = {d}
      BY <2>1, <2>2 DEF Counted, NoHandle
    <3> QED BY <2>1, <3>1, FS_Singleton DEF DynamicExact, Inv
  <2>4. open' = open \ Queued
    BY <1>9, <2>1, <2>3 DEF Uncount, Drain
  <2> QED BY <1>0, <2>1, <2>2, <2>4, NothingServed
<1>10. ASSUME NEW s \in Subs, NotFound(s) PROVE FALSE
  <2>1. tracks[want[s]] \notin open /\ tracks' = [tracks EXCEPT ![want[s]] = 0]
    BY <1>10 DEF NotFound
  <2> QED BY <1>0, <1>1, <1>2, <2>1
<1>11. ASSUME NEW s \in Subs, Request(s) PROVE FALSE
  <2>1. tracks[want[s]] \notin open /\ tracks' = [tracks EXCEPT ![want[s]] = Created + 1]
    BY <1>11 DEF Request
  <2> QED BY <1>0, <1>1, <1>2, <2>1
<1>12. CASE UNCHANGED vars
  BY <1>3, <1>12 DEF vars, state
<1>13. ASSUME NEW j \in Ids, EndTrack(j) \/ Unused(j) \/ AbortTrack(j) \/ Upstream(j) \/ RecvGroup(j)
       PROVE  FALSE
  BY <1>3, <1>13 DEF EndTrack, Unused, AbortTrack, Upstream, RecvGroup, state
<1>14. ASSUME NEW j \in Ids, CleanupFires(j) \/ CleanupUpgrades(j) \/ CleanupEnds(j) PROVE FALSE
  BY <1>3, <1>14 DEF CleanupFires, CleanupUpgrades, CleanupEnds, state
<1>15. ASSUME NEW d \in Dyns, ReadLast(d) \/ DynamicGone(d) \/ RemoveEntry(d) PROVE FALSE
  BY <1>3, <1>15 DEF ReadLast, DynamicGone, RemoveEntry, state
<1>16. CASE OwnerReadsLast \/ OwnerGone \/ RunBroadcast
  BY <1>3, <1>16
     DEF OwnerReadsLast, OwnerGone, RunBroadcast, RequestedTrack, SpawnSubscribe, StopServing, state
<1>17. ASSUME NEW s \in Subs,
              Leave(s) \/ SubscribeClosed(s) \/ Reuse(s) \/ Downgrade(s) \/ \E m \in Names : Upgrade(s, m)
       PROVE  FALSE
  BY <1>3, <1>17 DEF Leave, SubscribeClosed, Reuse, Downgrade, Upgrade, state
<1>18. CASE Owner
  BY <1>4, <1>5, <1>6, <1>7, <1>13, <1>16, <1>18 DEF Owner
<1>19. ASSUME NEW j \in Ids, Serve(j) \/ Cleanup(j) PROVE FALSE
  BY <1>8, <1>13, <1>14, <1>19 DEF Serve, Cleanup
<1>20. ASSUME NEW d \in Dyns, DropDynamic(d) PROVE FALSE
  BY <1>9, <1>15, <1>20 DEF DropDynamic
<1>21. ASSUME NEW s \in Subs, Section(s) PROVE FALSE
  BY <1>10, <1>11, <1>17, <1>21 DEF Section
<1>22. RemoveTrack(n)
  BY <1>12, <1>16, <1>17, <1>18, <1>19, <1>20, <1>21 DEF Next
<1> QED BY <1>22 DEF RemoveTrack

(* The invariant is kept by every step.                                     *)
LEMMA InvStep == Inv /\ [Next]_vars => Inv'
BY TypesStep, TracksStep, QueueStep, LastStep, CountStep, OrphanStep DEF Inv

(* The count of dynamic handles that subscribe_track and reuse consult is   *)
(* exact, and the queue is empty when it is 0 or the broadcast closed, for  *)
(* any number of subscribers, tracks and names.                             *)
THEOREM CountIsExact == Spec => []DynamicExact
<1>1. Inv => DynamicExact
  BY DEF Inv
<1> QED BY InvInit, InvStep, <1>1, PTL DEF Spec

(* Every open track has somebody who answers for it: it is queued, or just  *)
(* popped by run_broadcast, or the owner's own, or its task has not ended.  *)
THEOREM NobodyIsOrphaned == Spec => []NoOrphan
<1>1. Inv => NoOrphan
  BY DEF Inv
<1> QED BY InvInit, InvStep, <1>1, PTL DEF Spec

(* What is queued or served, and was never left by its subscribers, leaves  *)
(* the lookup of an open broadcast only by the owner's remove_track.        *)
THEOREM ServedIsFound == Spec => LookupKeepsServed
<1>1. Inv /\ [Next]_vars =>
        [\A i \in Ids : InUse(i) /\ InUse(i)' /\ tracks[name[i]] = i /\ tracks'[name[i]] # i =>
            closed' \/ RemoveTrack(name[i])]_vars
  BY LookupStep
<1> QED BY InvInit, InvStep, <1>1, PTL DEF Spec, LookupKeepsServed

(* subscribe_track answers NotFound only when no dynamic handle is left.    *)
THEOREM NotFoundIsRight == Spec => NotFoundOnlyUnserved
<1>1. Inv /\ [Next]_vars =>
        [\A s \in Subs : pc'[s] = "notfound" /\ pc[s] # "notfound" => Counted = {}]_vars
  <2> SUFFICES ASSUME Inv, [Next]_vars, NEW s \in Subs, pc'[s] = "notfound", pc[s] # "notfound"
               PROVE  Counted = {}
    OBVIOUS
  <2>1. pc \in [Subs -> {"idle", "upgraded", "attached", "failed", "notfound", "subscribed"}]
    BY DEF Inv, TypeOK, ChannelOK, TracksOK, TasksOK
  <2>2. NotFound(s)
    BY <2>1 DEF Next, vars, state, trackVars, handlers, subs, Owner, RunBroadcast, Serve, Cleanup,
        DropDynamic, Section, CreateTrack, RemoveTrack, EndTrack, Abort, OwnerReadsLast,
        OwnerClears, OwnerGone, RequestedTrack, SpawnSubscribe, StopServing, Unused, AbortTrack,
        Upstream, CleanupFires, CleanupUpgrades, CleanupRemoves, CleanupEnds, ReadLast, Uncount,
        DynamicGone, RemoveEntry, RecvGroup, Leave, SubscribeClosed, Reuse, NotFound, Request, Downgrade, Upgrade
  <2>3. ~closed /\ dynamic = 0
    BY <2>2 DEF NotFound
  <2> QED BY <2>3, CountedFinite, FS_EmptySet DEF Inv, DynamicExact
<1> QED BY InvInit, InvStep, <1>1, PTL DEF Spec, NotFoundOnlyUnserved
=============================================================================

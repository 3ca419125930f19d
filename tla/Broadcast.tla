----------------------------- MODULE Broadcast -----------------------------
(***************************************************************************)
(* A broadcast (model/broadcast.rs) that a session serves on demand, as    *)
(* lite/subscriber.rs does: the lookup of tracks by name, the queue of     *)
(* tracks requested, the count of dynamic handlers, and the tasks around   *)
(* them.  The announce loop owns the BroadcastProducer; run_broadcast pops *)
(* requests and spawns a run_subscribe per track, each with a clone of the *)
(* BroadcastDynamic; subscribers call subscribe_track, which upgrades to a *)
(* temporary kio producer and spawns a cleanup task per track it requests. *)
(* Each lock of the broadcast's kio channel is one action.  A track is     *)
(* known by a number and is open until its last producer goes.             *)
(***************************************************************************)
EXTENDS Naturals, Sequences, FiniteSets

CONSTANTS
    Names,      \* of tracks
    Subs,       \* tasks that subscribe
    MaxTracks   \* tracks created: a bound of the model

ASSUME BroadcastAssumption == MaxTracks \in Nat

Ids == 1..MaxTracks
Dyns == 0..MaxTracks    \* 0 is run_broadcast, the others run_subscribe

VARIABLES
    tracks,     \* State::tracks, 0 for no entry
    requests,   \* State::requests
    dynamic,    \* State::dynamic
    closed,     \* whether the channel is closed
    name,       \* the name of each track created
    open,       \* the tracks that are open
    static,     \* the tracks whose producer the owner holds
    owner,      \* the BroadcastProducer
    dyn,        \* the tasks that hold a BroadcastDynamic
    popped,     \* the request run_broadcast has popped
    cleanup,    \* the task subscribe_track spawns for a track
    pc, want, hold   \* the subscribers: the name and the track of each

state == <<tracks, requests, dynamic, closed>>
trackVars == <<name, open, static>>
handlers == <<owner, dyn, popped>>
subs == <<pc, want, hold>>
vars == <<state, trackVars, handlers, cleanup, subs>>

Created == Len(name)
Queued == {requests[i] : i \in DOMAIN requests}

(* The stages of a task in which it has no BroadcastDynamic: before it and  *)
(* after it.                                                                *)
NoHandle == {"none", "released", "receiving", "gone"}

(* The tasks that hold a kio producer of the channel.                       *)
Holders ==
    {<<"owner", 0>> : o \in {owner} \ {"gone"}}
    \cup {<<"dynamic", d>> : d \in {e \in Dyns : dyn[e] \notin NoHandle}}
    \cup {<<"cleanup", i>> : i \in {j \in Ids : cleanup[j] \in {"upgraded", "removed"}}}
    \cup {<<"sub", s>> : s \in {q \in Subs : pc[q] \in {"upgraded", "attached", "failed", "notfound"}}}

IsLast(h) == Holders = {h}

(* The last kio producer closes the channel.                                *)
Release(h) == closed' = (closed \/ IsLast(h))

Consumers(i) == {s \in Subs : hold[s] = i}

(* start_announce: the dynamic handle is there before the broadcast is      *)
(* published.                                                               *)
Init ==
    /\ tracks = [n \in Names |-> 0] /\ requests = <<>> /\ dynamic = 1 /\ closed = FALSE
    /\ name = <<>> /\ open = {} /\ static = {}
    /\ owner = "held"
    /\ dyn = [d \in Dyns |-> IF d = 0 THEN "serving" ELSE "none"]
    /\ popped = 0
    /\ cleanup = [i \in Ids |-> "none"]
    /\ pc = [s \in Subs |-> "idle"]
    /\ want \in [Subs -> Names]
    /\ hold = [s \in Subs |-> 0]

-----------------------------------------------------------------------------
(* The owner.                                                               *)

(* create_track; on a duplicate nothing changes.                            *)
CreateTrack(n) ==
    LET i == Created + 1 IN
    /\ owner = "held" /\ ~closed /\ tracks[n] = 0
    /\ i \in Ids
    /\ tracks' = [tracks EXCEPT ![n] = i]
    /\ name' = Append(name, n) /\ open' = open \cup {i} /\ static' = static \cup {i}
    /\ UNCHANGED <<requests, dynamic, closed, handlers, cleanup, subs>>

(* The owner drops the TrackProducer of a track it created.                 *)
EndTrack(i) ==
    /\ i \in static \cap open
    /\ open' = open \ {i}
    /\ UNCHANGED <<state, name, static, handlers, cleanup, subs>>

(* remove_track, of any name.                                               *)
RemoveTrack(n) ==
    /\ owner = "held" /\ ~closed /\ tracks[n] # 0
    /\ tracks' = [tracks EXCEPT ![n] = 0]
    /\ UNCHANGED <<requests, dynamic, closed, trackVars, handlers, cleanup, subs>>

(* Pending requests are aborted, which closes their tracks.                 *)
Drain == requests' = <<>> /\ open' = open \ Queued

NoTracks == [n \in Names |-> 0]

(* BroadcastProducer::abort.                                                *)
Abort ==
    /\ owner = "held" /\ ~closed
    /\ Drain
    /\ tracks' = NoTracks
    /\ closed' = TRUE
    /\ UNCHANGED <<dynamic, name, static, handlers, cleanup, subs>>

(* Drop for BroadcastProducer reads is_last,                                *)
OwnerReadsLast ==
    /\ owner = "held"
    /\ owner' = IF IsLast(<<"owner", 0>>) THEN "last" ELSE "left"
    /\ UNCHANGED <<state, trackVars, dyn, popped, cleanup, subs>>

(* the last producer then clears the lookup and the queue,                  *)
OwnerClears ==
    /\ owner = "last"
    /\ owner' = "left"
    /\ IF closed THEN UNCHANGED <<requests, open, tracks>> ELSE Drain /\ tracks' = NoTracks
    /\ UNCHANGED <<dynamic, closed, name, static, dyn, popped, cleanup, subs>>

(* and the kio producer goes.                                               *)
OwnerGone ==
    /\ owner = "left"
    /\ owner' = "gone"
    /\ Release(<<"owner", 0>>)
    /\ UNCHANGED <<tracks, requests, dynamic, trackVars, dyn, popped, cleanup, subs>>

-----------------------------------------------------------------------------
(* run_broadcast and run_subscribe.                                         *)

(* requested_track, which takes the newest request.                         *)
RequestedTrack ==
    /\ dyn[0] = "serving" /\ ~closed /\ requests # <<>>
    /\ popped' = requests[Len(requests)]
    /\ requests' = SubSeq(requests, 1, Len(requests) - 1)
    /\ dyn' = [dyn EXCEPT ![0] = "popped"]
    /\ UNCHANGED <<tracks, dynamic, closed, trackVars, owner, cleanup, subs>>

(* Mutant: the clone is not counted (the bug its comment warns of).         *)
SpawnUncounted ==
    /\ dyn[0] = "popped"
    /\ dyn' = [dyn EXCEPT ![0] = "serving", ![popped] = "serving"]
    /\ popped' = 0
    /\ UNCHANGED <<state, trackVars, owner, cleanup, subs>>

(* Clone for BroadcastDynamic and the spawn of run_subscribe.               *)
SpawnSubscribe ==
    /\ dyn[0] = "popped"
    /\ dynamic' = IF closed THEN dynamic ELSE dynamic + 1
    /\ dyn' = [dyn EXCEPT ![0] = "serving", ![popped] = "serving"]
    /\ popped' = 0
    /\ UNCHANGED <<tracks, requests, closed, trackVars, owner, cleanup, subs>>

(* run_broadcast leaves its loop: the broadcast is closed, or the session,  *)
(* at any time.                                                             *)
StopServing ==
    /\ dyn[0] = "serving"
    /\ dyn' = [dyn EXCEPT ![0] = "leaving"]
    /\ UNCHANGED <<state, trackVars, owner, popped, cleanup, subs>>

(* The select of run_subscribe: track.unused has found no consumer, and     *)
(* then aborts the track, whoever came in between.                          *)
Unused(i) ==
    /\ dyn[i] = "serving" /\ Consumers(i) = {}
    /\ dyn' = [dyn EXCEPT ![i] = "unused"]
    /\ UNCHANGED <<state, trackVars, owner, popped, cleanup, subs>>

AbortTrack(i) ==
    /\ dyn[i] = "unused" \/ (dyn[i] = "serving" /\ (closed \/ dyn[0] \notin {"serving", "popped"}))
    /\ dyn' = [dyn EXCEPT ![i] = "leaving"]
    /\ open' = open \ {i}
    /\ UNCHANGED <<state, name, static, owner, popped, cleanup, subs>>

(* The upstream ends the subscription: track.finish leaves the track open   *)
(* until its entry goes, an error aborts it.                                *)
Upstream(i) ==
    /\ dyn[i] = "serving"
    /\ dyn' = [dyn EXCEPT ![i] = "leaving"]
    /\ open' \in {open, open \ {i}}
    /\ UNCHANGED <<state, name, static, owner, popped, cleanup, subs>>

(* Drop for BroadcastDynamic reads is_last before it takes the lock,        *)
ReadLast(d) ==
    /\ dyn[d] = "leaving"
    /\ dyn' = [dyn EXCEPT ![d] = IF IsLast(<<"dynamic", d>>) THEN "last" ELSE "notlast"]
    /\ UNCHANGED <<state, trackVars, owner, popped, cleanup, subs>>

(* Mutant: the drain is forgotten.                                          *)
UncountKeepsQueue(d) ==
    /\ dyn[d] \in {"last", "notlast"}
    /\ dyn' = [dyn EXCEPT ![d] = "left"]
    /\ IF closed
       THEN UNCHANGED <<tracks, dynamic>>
       ELSE /\ tracks' = IF dyn[d] = "last" THEN NoTracks ELSE tracks
            /\ dynamic' = IF dynamic = 0 THEN 0 ELSE dynamic - 1
    /\ UNCHANGED <<requests, closed, trackVars, owner, popped, cleanup, subs>>

(* then counts itself out, and the last dynamic handle aborts what is       *)
(* queued.                                                                  *)
Uncount(d) ==
    /\ dyn[d] \in {"last", "notlast"}
    /\ dyn' = [dyn EXCEPT ![d] = "left"]
    /\ IF closed
       THEN UNCHANGED <<tracks, requests, dynamic, open>>
       ELSE /\ tracks' = IF dyn[d] = "last" THEN NoTracks ELSE tracks
            /\ dynamic' = IF dynamic = 0 THEN 0 ELSE dynamic - 1
            /\ IF dynamic' = 0 THEN Drain ELSE UNCHANGED <<requests, open>>
    /\ UNCHANGED <<closed, name, static, owner, popped, cleanup, subs>>

(* and the kio producer goes.                                               *)
DynamicGone(d) ==
    /\ dyn[d] = "left"
    /\ dyn' = [dyn EXCEPT ![d] = IF d = 0 THEN "gone" ELSE "released"]
    /\ Release(<<"dynamic", d>>)
    /\ UNCHANGED <<tracks, requests, dynamic, trackVars, owner, popped, cleanup, subs>>

(* Mutant: the entry stays, and its producer with it.                       *)
KeepEntry(i) ==
    /\ dyn[i] = "released"
    /\ dyn' = [dyn EXCEPT ![i] = "gone"]
    /\ UNCHANGED <<state, trackVars, owner, popped, cleanup, subs>>

(* The entry of subscribes goes.  Its TrackProducer is the last of the      *)
(* track, unless a recv_group holds the clone it made of it.                *)
RemoveEntry(i) ==
    /\ dyn[i] = "released"
    /\ \/ dyn' = [dyn EXCEPT ![i] = "gone"] /\ open' = open \ {i}
       \/ dyn' = [dyn EXCEPT ![i] = "receiving"] /\ i \in open /\ UNCHANGED open
    /\ UNCHANGED <<state, name, static, owner, popped, cleanup, subs>>

(* That recv_group ends, with its stream.                                   *)
RecvGroup(i) ==
    /\ dyn[i] = "receiving"
    /\ dyn' = [dyn EXCEPT ![i] = "gone"]
    /\ open' = open \ {i}
    /\ UNCHANGED <<state, name, static, owner, popped, cleanup, subs>>

-----------------------------------------------------------------------------
(* subscribe_track.                                                         *)

Upgrade(s, n) ==
    /\ pc[s] = "idle" /\ Created < MaxTracks
    /\ want' = [want EXCEPT ![s] = n]
    /\ pc' = IF closed THEN pc ELSE [pc EXCEPT ![s] = "upgraded"]
    /\ UNCHANGED <<state, trackVars, handlers, cleanup, hold>>

(* modify finds the channel closed.                                         *)
SubscribeClosed(s) ==
    /\ pc[s] = "upgraded" /\ closed
    /\ pc' = [pc EXCEPT ![s] = "failed"]
    /\ UNCHANGED <<state, trackVars, handlers, cleanup, want, hold>>

(* The track is in the lookup, and open.                                    *)
Reuse(s) ==
    LET i == tracks[want[s]] IN
    /\ pc[s] = "upgraded" /\ ~closed /\ i \in open
    /\ pc' = [pc EXCEPT ![s] = "attached"]
    /\ hold' = [hold EXCEPT ![s] = i]
    /\ UNCHANGED <<state, trackVars, handlers, cleanup, want>>

(* It is not, or closed, and nobody would serve a request.                  *)
NotFound(s) ==
    /\ pc[s] = "upgraded" /\ ~closed /\ tracks[want[s]] \notin open /\ dynamic = 0
    /\ tracks' = [tracks EXCEPT ![want[s]] = 0]
    /\ pc' = [pc EXCEPT ![s] = "notfound"]
    /\ UNCHANGED <<requests, dynamic, closed, trackVars, handlers, cleanup, want, hold>>

(* A new track is requested.                                                *)
Request(s) ==
    LET i == Created + 1
        n == want[s] IN
    /\ pc[s] = "upgraded" /\ ~closed /\ tracks[n] \notin open /\ dynamic > 0 /\ i \in Ids
    /\ tracks' = [tracks EXCEPT ![n] = i]
    /\ requests' = Append(requests, i)
    /\ name' = Append(name, n) /\ open' = open \cup {i}
    /\ cleanup' = [cleanup EXCEPT ![i] = "waiting"]
    /\ pc' = [pc EXCEPT ![s] = "attached"]
    /\ hold' = [hold EXCEPT ![s] = i]
    /\ UNCHANGED <<dynamic, closed, static, handlers, want>>

(* The temporary producer goes.                                             *)
Downgrade(s) ==
    /\ pc[s] \in {"attached", "failed", "notfound"}
    /\ pc' = [pc EXCEPT ![s] = IF @ = "attached" THEN "subscribed" ELSE "idle"]
    /\ Release(<<"sub", s>>)
    /\ UNCHANGED <<tracks, requests, dynamic, trackVars, handlers, cleanup, want, hold>>

(* The subscriber drops its TrackConsumer.                                  *)
Leave(s) ==
    /\ pc[s] = "subscribed"
    /\ pc' = [pc EXCEPT ![s] = "idle"]
    /\ hold' = [hold EXCEPT ![s] = 0]
    /\ UNCHANGED <<state, trackVars, handlers, cleanup, want>>

-----------------------------------------------------------------------------
(* The cleanup task: weak.unused has returned,                              *)
CleanupFires(i) ==
    /\ cleanup[i] = "waiting" /\ (Consumers(i) = {} \/ i \notin open)
    /\ cleanup' = [cleanup EXCEPT ![i] = "fired"]
    /\ UNCHANGED <<state, trackVars, handlers, subs>>

(* it upgrades,                                                             *)
CleanupUpgrades(i) ==
    /\ cleanup[i] = "fired"
    /\ cleanup' = [cleanup EXCEPT ![i] = IF closed THEN "done" ELSE "upgraded"]
    /\ UNCHANGED <<state, trackVars, handlers, subs>>

(* Mutant: whatever the name maps to is removed.                            *)
CleanupTakesAny(i) ==
    /\ cleanup[i] = "upgraded"
    /\ cleanup' = [cleanup EXCEPT ![i] = "removed"]
    /\ tracks' = IF ~closed THEN [tracks EXCEPT ![name[i]] = 0] ELSE tracks
    /\ UNCHANGED <<requests, dynamic, closed, trackVars, handlers, subs>>

(* removes the entry unless it was replaced,                                *)
CleanupRemoves(i) ==
    /\ cleanup[i] = "upgraded"
    /\ cleanup' = [cleanup EXCEPT ![i] = "removed"]
    /\ tracks' = IF ~closed /\ tracks[name[i]] = i THEN [tracks EXCEPT ![name[i]] = 0] ELSE tracks
    /\ UNCHANGED <<requests, dynamic, closed, trackVars, handlers, subs>>

(* and drops its producer.                                                  *)
CleanupEnds(i) ==
    /\ cleanup[i] = "removed"
    /\ cleanup' = [cleanup EXCEPT ![i] = "done"]
    /\ Release(<<"cleanup", i>>)
    /\ UNCHANGED <<tracks, requests, dynamic, trackVars, handlers, subs>>

-----------------------------------------------------------------------------
Owner ==
    \/ \E n \in Names : CreateTrack(n) \/ RemoveTrack(n)
    \/ \E i \in Ids : EndTrack(i)
    \/ Abort \/ OwnerReadsLast \/ OwnerClears \/ OwnerGone

Serve(i) == Unused(i) \/ AbortTrack(i) \/ Upstream(i) \/ RecvGroup(i)
DropDynamic(d) == ReadLast(d) \/ Uncount(d) \/ DynamicGone(d) \/ RemoveEntry(d)
RunBroadcast == RequestedTrack \/ SpawnSubscribe \/ StopServing
Section(s) == SubscribeClosed(s) \/ Reuse(s) \/ NotFound(s) \/ Request(s) \/ Downgrade(s)
Cleanup(i) == CleanupFires(i) \/ CleanupUpgrades(i) \/ CleanupRemoves(i) \/ CleanupEnds(i)

Next ==
    \/ Owner \/ RunBroadcast
    \/ \E i \in Ids : Serve(i) \/ Cleanup(i)
    \/ \E d \in Dyns : DropDynamic(d)
    \/ \E s \in Subs : Leave(s) \/ Section(s) \/ \E n \in Names : Upgrade(s, n)

Spec == Init /\ [][Next]_vars

(* A task that can run does: run_broadcast, a drop that has begun, a call   *)
(* of subscribe_track, and run_subscribe once the session or the broadcast  *)
(* is over.  Nothing is assumed of the owner, the upstream, the session or  *)
(* how long subscribers stay.                                               *)
FairSpec ==
    /\ Spec
    /\ WF_vars(RunBroadcast)
    /\ \A d \in Dyns : WF_vars(DropDynamic(d))
    /\ \A i \in Ids : WF_vars(AbortTrack(i))
    /\ \A s \in Subs : WF_vars(Section(s))

-----------------------------------------------------------------------------
ChannelOK ==
    /\ tracks \in [Names -> 0..MaxTracks] /\ requests \in Seq(Ids)
    /\ dynamic \in Nat /\ closed \in BOOLEAN

TracksOK ==
    /\ name \in Seq(Names) /\ Created <= MaxTracks
    /\ open \subseteq 1..Created /\ static \subseteq 1..Created

TasksOK ==
    /\ owner \in {"held", "last", "left", "gone"}
    /\ dyn \in [Dyns -> {"none", "serving", "popped", "unused", "leaving", "last",
                         "notlast", "left", "released", "receiving", "gone"}]
    /\ popped \in 0..MaxTracks
    /\ cleanup \in [Ids -> {"none", "waiting", "fired", "upgraded", "removed", "done"}]
    /\ pc \in [Subs -> {"idle", "upgraded", "attached", "failed", "notfound", "subscribed"}]
    /\ want \in [Subs -> Names] /\ hold \in [Subs -> 0..MaxTracks]

TypeOK == ChannelOK /\ TracksOK /\ TasksOK

(* The tasks whose BroadcastDynamic is counted.                             *)
Counted == {d \in Dyns : dyn[d] \in {"serving", "popped", "unused", "leaving", "last", "notlast"}}

(* On an open broadcast dynamic is the number of live handles, and, as the  *)
(* comment of State::dynamic has it, at zero nothing is queued: every clone *)
(* is counted in and out once, in whatever order run_broadcast and the      *)
(* run_subscribe tasks end.                                                 *)
DynamicExact ==
    /\ ~closed => dynamic = Cardinality(Counted)
    /\ dynamic = 0 \/ closed => requests = <<>>

(* Nobody waits on a track that no task will ever serve, finish or abort:   *)
(* an open track is queued, popped or the owner's, or its task has not      *)
(* ended, with the entry it made and the groups received through that.      *)
NoOrphan ==
    \A i \in open :
        \/ i \in Queued \/ i = popped \/ i \in static
        \/ dyn[i] \notin {"none", "gone"}

(* subscribe_track answers NotFound only when no handle is left that could  *)
(* serve the track, so never while run_broadcast goes on.                   *)
NotFoundOnlyUnserved ==
    [][\A s \in Subs : pc'[s] = "notfound" /\ pc[s] # "notfound" => Counted = {}]_vars

(* Whether track i is queued or served and its subscribers never left it.   *)
InUse(i) == i \in open /\ cleanup[i] = "waiting" /\ dyn[i] \in {"none", "serving"}

(* A track in use leaves the lookup of an open broadcast only by the        *)
(* owner's remove_track, so that whoever subscribes to its name shares it:  *)
(* a late cleanup task of an older track of the name leaves it there, and a *)
(* handle that found itself the last clears the lookup only when nothing is *)
(* in use.                                                                  *)
LookupKeepsServed ==
    [][\A i \in Ids : InUse(i) /\ InUse(i)' /\ tracks[name[i]] = i /\ tracks'[name[i]] # i =>
           closed' \/ RemoveTrack(name[i])]_vars

(* Every request is popped or aborted in the end, though the newest is      *)
(* popped first and run_broadcast may end with requests in the queue.  The  *)
(* bound MaxTracks matters: nothing in the code keeps newer requests from   *)
(* holding up an older one for as long as they keep coming.                 *)
EveryRequestAnswered == \A i \in Ids : i \in Queued ~> i \notin Queued
=============================================================================

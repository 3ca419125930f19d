------------------------------ MODULE Requests ------------------------------
(***************************************************************************)
(* Broadcasts on demand (OriginDynamic in model/origin.rs): a consumer     *)
(* that asks for a path nobody has announced queues a request; a handler   *)
(* takes requests in order and answers them; requests for the same path    *)
(* share one result channel while it is queued.                            *)
(*                                                                         *)
(* The queue is in a kio channel, so an action is one critical section.    *)
(* A path that is announced is answered from the tree (module Origin) and  *)
(* never gets here.                                                        *)
(***************************************************************************)
EXTENDS Naturals, Sequences, FiniteSets

CONSTANTS
    Paths,
    Requesters, \* tasks that call request_broadcast, again and again
    Handlers,   \* the places that can own an OriginDynamic
    Channels,   \* identities of result channels: those in use at once
    None

ASSUME HandlersAssumption == IsFiniteSet(Handlers)
ASSUME NoneAssumption == None \notin Paths \cup Channels

VARIABLES
    requests,   \* OriginDynamicState::requests
    order,      \* OriginDynamicState::request_order
    dynamic,    \* OriginDynamicState::dynamic
    live,       \* the handlers that exist
    leaving,    \* those whose drop has run, their kio::Producer still to go
    owner,      \* whether an OriginProducer is left
    taken,      \* the BroadcastRequests in the hands of handlers
    resolved,   \* PendingBroadcast::resolved of each channel
    waiting,    \* the channel each requester awaits
    asked,      \* the path it asked for
    result      \* how its last request ended

queue == <<requests, order, dynamic>>
handles == <<live, leaving, owner>>
asking == <<waiting, asked, result>>
vars == <<requests, order, dynamic, live, leaving, owner, taken, resolved, waiting, asked, result>>

Init ==
    /\ requests = [p \in Paths |-> None]
    /\ order = <<>>
    /\ dynamic = 0
    /\ live = {}
    /\ leaving = {}
    /\ owner = TRUE
    /\ taken = {}
    /\ resolved = [c \in Channels |-> "none"]
    /\ waiting = [r \in Requesters |-> None]
    /\ asked = [r \in Requesters |-> None]
    /\ result = [r \in Requesters |-> "none"]

(* The queue's channel closes with the last OriginProducer or handler.      *)
Closed == ~owner /\ live = {} /\ leaving = {}

Queued == {requests[p] : p \in Paths} \ {None}

(* A BroadcastRequest: the path and the channel's producer.                 *)
BroadcastRequest == [path : Paths, producer : Channels]

Taken == {t.producer : t \in taken}

Unused(c) == c \notin Queued \cup Taken /\ \A r \in Requesters : waiting[r] # c

-----------------------------------------------------------------------------
(* OriginConsumer::request_broadcast.                                       *)

Await(r, p, c) ==
    /\ waiting' = [waiting EXCEPT ![r] = c]
    /\ asked' = [asked EXCEPT ![r] = p]
    /\ result' = [result EXCEPT ![r] = "none"]

(* BroadcastRequested::failed: the future has its error at once.            *)
Refuse(r, error) ==
    /\ result' = [result EXCEPT ![r] = error]
    /\ UNCHANGED <<waiting, asked>>

Enqueue(r, p) ==
    \E c \in Channels :
        /\ Unused(c)
        /\ requests' = [requests EXCEPT ![p] = c]
        /\ order' = Append(order, p)
        /\ resolved' = [resolved EXCEPT ![c] = "none"]
        /\ Await(r, p, c)

(* Mutant: a path that is queued is queued once more.                       *)
RequestTwice(r, p) ==
    /\ waiting[r] = None /\ ~Closed /\ dynamic > 0
    /\ Enqueue(r, p)
    /\ UNCHANGED <<dynamic, handles, taken>>

Request(r, p) ==
    /\ waiting[r] = None
    /\ \/ /\ Closed
          /\ Refuse(r, "dropped")
          /\ UNCHANGED <<requests, order, resolved>>
       \/ /\ ~Closed /\ requests[p] # None
          /\ Await(r, p, requests[p])
          /\ UNCHANGED <<requests, order, resolved>>
       \/ /\ ~Closed /\ requests[p] = None /\ dynamic = 0
          /\ Refuse(r, "unroutable")
          /\ UNCHANGED <<requests, order, resolved>>
       \/ /\ ~Closed /\ requests[p] = None /\ dynamic > 0
          /\ Enqueue(r, p)
    /\ UNCHANGED <<dynamic, handles, taken>>

(* BroadcastRequested::poll_ok: the value first, then the closed channel,   *)
(* which is one whose producer is neither queued nor taken.                 *)
Answer(r) ==
    /\ waiting[r] # None
    /\ LET c == waiting[r]
       IN  \/ resolved[c] # "none" /\ result' = [result EXCEPT ![r] = resolved[c]]
           \/ /\ resolved[c] = "none" /\ c \notin Queued \cup Taken
              /\ result' = [result EXCEPT ![r] = "unroutable"]
    /\ waiting' = [waiting EXCEPT ![r] = None]
    /\ asked' = [asked EXCEPT ![r] = None]
    /\ UNCHANGED <<queue, handles, taken, resolved>>

(* The requester drops its future.                                          *)
GiveUp(r) ==
    /\ waiting[r] # None
    /\ waiting' = [waiting EXCEPT ![r] = None]
    /\ asked' = [asked EXCEPT ![r] = None]
    /\ UNCHANGED <<queue, handles, taken, resolved, result>>

-----------------------------------------------------------------------------
(* Handlers.                                                                *)

(* Mutant: a clone is not counted.                                          *)
NewHandlerUncounted(h) ==
    /\ h \notin live \cup leaving /\ (owner \/ live # {})
    /\ dynamic' = IF live = {} THEN dynamic + 1 ELSE dynamic
    /\ live' = live \cup {h}
    /\ UNCHANGED <<requests, order, leaving, owner, taken, resolved, asking>>

(* OriginProducer::dynamic, and OriginDynamic::clone.                       *)
NewHandler(h) ==
    /\ h \notin live \cup leaving /\ (owner \/ live # {})
    /\ dynamic' = dynamic + 1
    /\ live' = live \cup {h}
    /\ UNCHANGED <<requests, order, leaving, owner, taken, resolved, asking>>

SaturatingSub(n) == IF n = 0 THEN 0 ELSE n - 1

RejectRequests ==
    /\ requests' = [p \in Paths |-> None]
    /\ order' = <<>>

Leave(h) ==
    /\ h \in live
    /\ live' = live \ {h}
    /\ leaving' = leaving \cup {h}
    /\ UNCHANGED <<owner, taken, resolved, asking>>

(* Mutant: any handler that leaves rejects the queue.                       *)
DropHandlerRejecting(h) ==
    /\ Leave(h)
    /\ dynamic' = SaturatingSub(dynamic)
    /\ RejectRequests

(* Drop for OriginDynamic: the last one out rejects what is queued, by      *)
(* dropping the producers of the result channels.                           *)
DropHandler(h) ==
    /\ Leave(h)
    /\ dynamic' = SaturatingSub(dynamic)
    /\ IF dynamic' = 0 THEN RejectRequests ELSE UNCHANGED <<requests, order>>

(* Then its field, the kio::Producer, is dropped.                           *)
ReleaseHandler(h) ==
    /\ h \in leaving
    /\ leaving' = leaving \ {h}
    /\ UNCHANGED <<queue, live, owner, taken, resolved, asking>>

(* The last OriginProducer is dropped.                                      *)
DropOrigin ==
    /\ owner /\ owner' = FALSE
    /\ UNCHANGED <<queue, live, leaving, taken, resolved, asking>>

(* Mutant: the newest request is taken first.                               *)
RequestedBroadcastNewest(h) ==
    /\ h \in live /\ order # <<>>
    /\ LET p == order[Len(order)]
       IN  /\ taken' = taken \cup {[path |-> p, producer |-> requests[p]]}
           /\ requests' = [requests EXCEPT ![p] = None]
    /\ order' = SubSeq(order, 1, Len(order) - 1)
    /\ UNCHANGED <<dynamic, handles, resolved, asking>>

(* Mutant: the producer is cloned out of the map instead of moved.          *)
RequestedBroadcastCloned(h) ==
    /\ h \in live /\ order # <<>>
    /\ taken' = taken \cup {[path |-> Head(order), producer |-> requests[Head(order)]]}
    /\ order' = Tail(order)
    /\ UNCHANGED <<requests, dynamic, handles, resolved, asking>>

(* OriginDynamic::poll_requested_broadcast.                                 *)
RequestedBroadcast(h) ==
    /\ h \in live /\ order # <<>>
    /\ LET p == Head(order)
       IN  /\ taken' = taken \cup {[path |-> p, producer |-> requests[p]]}
           /\ requests' = [requests EXCEPT ![p] = None]
    /\ order' = Tail(order)
    /\ UNCHANGED <<dynamic, handles, resolved, asking>>

(* BroadcastRequest::accept and reject, and dropping it without either.     *)
(* Each ends with the drop of the channel's producer; in between only the   *)
(* value counts, which poll_ok looks at first.                              *)
Resolve(t, outcome) ==
    /\ t \in taken
    /\ taken' = taken \ {t}
    /\ resolved' = [resolved EXCEPT ![t.producer] = outcome]
    /\ UNCHANGED <<queue, handles, asking>>

-----------------------------------------------------------------------------
Serve(t) == \E outcome \in {"ok", "rejected", "none"} : Resolve(t, outcome)

Next ==
    \/ \E r \in Requesters : (\E p \in Paths : Request(r, p)) \/ Answer(r) \/ GiveUp(r)
    \/ \E h \in Handlers :
        NewHandler(h) \/ DropHandler(h) \/ ReleaseHandler(h) \/ RequestedBroadcast(h)
    \/ \E t \in taken : Serve(t)
    \/ DropOrigin

(* Handlers keep taking requests and finish the ones they took, and a       *)
(* requester whose answer is there is polled.                               *)
Fairness ==
    /\ WF_vars(\E h \in Handlers : RequestedBroadcast(h))
    /\ \A t \in BroadcastRequest : WF_vars(Serve(t))
    /\ \A r \in Requesters : WF_vars(Answer(r))

Spec == Init /\ [][Next]_vars

FairSpec == Spec /\ Fairness

-----------------------------------------------------------------------------
(* Every variable stays in its range.                                       *)
TypeOK ==
    /\ requests \in [Paths -> Channels \cup {None}]
    /\ order \in Seq(Paths)
    /\ dynamic \in Nat
    /\ live \subseteq Handlers
    /\ leaving \subseteq Handlers
    /\ owner \in BOOLEAN
    /\ taken \subseteq BroadcastRequest
    /\ resolved \in [Channels -> {"none", "ok", "rejected"}]
    /\ waiting \in [Requesters -> Channels \cup {None}]
    /\ asked \in [Requesters -> Paths \cup {None}]
    /\ result \in [Requesters -> {"none", "ok", "rejected", "unroutable", "dropped"}]

(* The map and the order name the same paths, each once: the expect in      *)
(* poll_requested_broadcast ("request_order out of sync") never fires.      *)
InSync ==
    /\ \A i \in DOMAIN order : requests[order[i]] # None
    /\ \A p \in Paths : requests[p] # None => \E i \in DOMAIN order : order[i] = p
    /\ \A i, j \in DOMAIN order : order[i] = order[j] => i = j

(* Nothing is queued once the last handler is gone, whatever the order of   *)
(* new, clone, drop and request: reject_requests leaves no one behind.      *)
QueueHasHandler == order # <<>> => live # {}

(* The requests that are queued or in a handler's hands.                     *)
Outstanding ==
    taken \cup {[path |-> p, producer |-> requests[p]] : p \in {q \in Paths : requests[q] # None}}

(* An answer reaches those who asked for its path and nobody else: whoever  *)
(* awaits the channel of a queued or taken request asked for that path, the *)
(* channel is unanswered, and no other request has it, though a path may be *)
(* queued again while an earlier request for it is being served.            *)
AnswersReachAskers ==
    /\ \A t \in Outstanding :
        /\ resolved[t.producer] = "none"
        /\ \A u \in Outstanding : u.producer = t.producer => u = t
        /\ \A r \in Requesters : waiting[r] = t.producer => asked[r] = t.path
    /\ \A p \in Paths : requests[p] # None => requests[p] \notin Taken

(* A queued request leaves the queue into a handler's hands, or because the *)
(* last handler left: no drop of one of several handlers loses it.          *)
NoRequestLost ==
    [][\A p \in Paths : requests[p] # None /\ requests'[p] # requests[p] =>
        \/ [path |-> p, producer |-> requests[p]] \in taken'
        \/ live' = {}]_vars

(* request_broadcast fails fast only when there is no handler: a clone that *)
(* outlives the handler it came from still counts.                          *)
RefusedOnlyUnserved ==
    [][\A r \in Requesters :
        waiting[r] = None /\ result'[r] # result[r] /\ result'[r] # "none" => live = {}]_vars

(* Everyone who asks is answered, even if others ask again and again: the   *)
(* queue is served in order and handlers that leave reject it.              *)
EveryoneAnswered ==
    \A r \in Requesters : (waiting[r] # None) ~> (waiting[r] = None)

=============================================================================

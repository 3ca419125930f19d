--------------------------- MODULE RequestsProofs ---------------------------
(***************************************************************************)
(* The safety properties of the on-demand queue, for any sets of paths,    *)
(* requesters and channels and any finite set of handlers.                 *)
(*                                                                         *)
(* Inv adds to the checked invariants that the count is exact and that a   *)
(* count of zero means an empty queue.  The code decides by the count, the *)
(* properties speak of the handlers: HandlersCounted joins the two.        *)
(***************************************************************************)
EXTENDS Requests, FiniteSetTheorems, TLAPS

HandlersCounted == dynamic = Cardinality(live)
QueueCounted == dynamic = 0 => order = <<>>

Inv ==
    /\ TypeOK
    /\ InSync
    /\ HandlersCounted
    /\ QueueCounted

(* A set of handlers is finite, and its size is a number that is zero for   *)
(* the empty set only.                                                      *)
LEMMA LiveFinite ==
    ASSUME live \subseteq Handlers
    PROVE  /\ IsFiniteSet(live)
           /\ Cardinality(live) \in Nat
           /\ Cardinality(live) = 0 <=> live = {}
  <1>1. IsFiniteSet(live)
    BY HandlersAssumption, FS_Subset
  <1> QED
    BY <1>1, FS_CardinalityType, FS_EmptySet

(* The initial state satisfies the invariant.                               *)
LEMMA InitInv == Init => Inv
  <1> SUFFICES ASSUME Init PROVE Inv
    OBVIOUS
  <1>1. TypeOK
    BY DEF Init, TypeOK
  <1>2. InSync
    BY DEF Init, InSync
  <1>3. HandlersCounted
    BY FS_EmptySet DEF Init, HandlersCounted
  <1> QED
    BY <1>1, <1>2, <1>3 DEF Inv, QueueCounted, Init

(* Every step keeps the variables in their ranges.                          *)
LEMMA TypeStep == Inv /\ [Next]_vars => TypeOK'
  <1> SUFFICES ASSUME Inv, [Next]_vars PROVE TypeOK'
    OBVIOUS
  <1> USE DEF Inv, TypeOK
  <1>1. ASSUME NEW r \in Requesters, NEW p \in Paths, Request(r, p) PROVE TypeOK'
    <2>1. CASE UNCHANGED <<requests, order, resolved>> /\ Refuse(r, "dropped")
      BY <1>1, <2>1 DEF Request, Refuse, handles
    <2>2. CASE UNCHANGED <<requests, order, resolved>> /\ Refuse(r, "unroutable")
      BY <1>1, <2>2 DEF Request, Refuse, handles
    <2>3. CASE UNCHANGED <<requests, order, resolved>> /\ Await(r, p, requests[p])
      BY <1>1, <2>3 DEF Request, Await, handles
    <2>4. CASE Enqueue(r, p)
      BY <1>1, <2>4 DEF Request, Enqueue, Await, handles
    <2> QED
      BY <1>1, <2>1, <2>2, <2>3, <2>4 DEF Request
  <1>2. ASSUME NEW r \in Requesters, Answer(r) PROVE TypeOK'
    <2>1. result' \in [Requesters -> {"none", "ok", "rejected", "unroutable", "dropped"}]
      BY <1>2 DEF Answer
    <2> QED
      BY <1>2, <2>1 DEF Answer, queue, handles
  <1>3. ASSUME NEW r \in Requesters, GiveUp(r) PROVE TypeOK'
    BY <1>3 DEF GiveUp, queue, handles
  <1>4. ASSUME NEW h \in Handlers, NewHandler(h) PROVE TypeOK'
    BY <1>4 DEF NewHandler, asking
  <1>5. ASSUME NEW h \in Handlers, DropHandler(h) PROVE TypeOK'
    <2>1. dynamic' \in Nat
      BY <1>5 DEF DropHandler, SaturatingSub
    <2>2. requests' \in [Paths -> Channels \cup {None}] /\ order' \in Seq(Paths)
      <3>1. CASE RejectRequests
        BY <3>1 DEF RejectRequests
      <3>2. CASE UNCHANGED <<requests, order>>
        BY <3>2
      <3> QED
        BY <1>5, <3>1, <3>2 DEF DropHandler
    <2> QED
      BY <1>5, <2>1, <2>2 DEF DropHandler, Leave, asking
  <1>6. ASSUME NEW h \in Handlers, ReleaseHandler(h) PROVE TypeOK'
    BY <1>6 DEF ReleaseHandler, queue, asking
  <1>7. ASSUME NEW h \in Handlers, RequestedBroadcast(h) PROVE TypeOK'
    <2>1. Head(order) \in Paths /\ Tail(order) \in Seq(Paths)
      BY <1>7 DEF RequestedBroadcast
    <2>2. requests[Head(order)] \in Channels
      <3>1. 1 \in DOMAIN order /\ Head(order) = order[1]
        BY <1>7 DEF RequestedBroadcast
      <3> QED
        BY <3>1, <2>1 DEF InSync
    <2>3. [path |-> Head(order), producer |-> requests[Head(order)]] \in BroadcastRequest
      BY <2>1, <2>2 DEF BroadcastRequest
    <2> QED
      BY <1>7, <2>1, <2>3 DEF RequestedBroadcast, handles, asking
  <1>8. ASSUME NEW t \in taken, Serve(t) PROVE TypeOK'
    <2>1. PICK outcome \in {"ok", "rejected", "none"} : Resolve(t, outcome)
      BY <1>8 DEF Serve
    <2> QED
      BY <2>1 DEF Resolve, queue, handles, asking
  <1>9. ASSUME DropOrigin PROVE TypeOK'
    BY <1>9 DEF DropOrigin, queue, asking
  <1>10. ASSUME UNCHANGED vars PROVE TypeOK'
    BY <1>10 DEF vars
  <1> QED
    BY <1>1, <1>2, <1>3, <1>4, <1>5, <1>6, <1>7, <1>8, <1>9, <1>10 DEF Next

(* Every step keeps the map and the order in step: what is appended was not *)
(* in the map, and the head that leaves one leaves the other.               *)
LEMMA InSyncStep == Inv /\ [Next]_vars => InSync'
  <1> SUFFICES ASSUME Inv, [Next]_vars PROVE InSync'
    OBVIOUS
  <1> USE DEF Inv
  <1>u. ASSUME UNCHANGED <<requests, order>> PROVE InSync'
    BY <1>u DEF InSync
  <1>1. ASSUME NEW r \in Requesters, NEW p \in Paths, Request(r, p) PROVE InSync'
    <2>1. CASE UNCHANGED <<requests, order, resolved>>
      BY <2>1, <1>u
    <2>2. CASE requests[p] = None /\ Enqueue(r, p)
      <3>1. PICK c \in Channels : requests' = [requests EXCEPT ![p] = c]
        BY <2>2 DEF Enqueue
      <3>2. order' = Append(order, p) /\ order \in Seq(Paths)
        BY <2>2 DEF Enqueue, TypeOK
      <3>3. /\ DOMAIN order = 1..Len(order)
            /\ DOMAIN order' = 1..(Len(order) + 1)
            /\ order'[Len(order) + 1] = p
            /\ \A i \in DOMAIN order : order'[i] = order[i] /\ order[i] \in Paths
            /\ Len(order) \in Nat
        BY <3>2
      <3>4. \A q \in Paths : requests'[q] = IF q = p THEN c ELSE requests[q]
        BY <3>1 DEF TypeOK
      <3>5. c # None
        BY NoneAssumption
      <3>6. \A i \in DOMAIN order : order[i] # p
        BY <2>2 DEF InSync
      <3>7. \A i \in DOMAIN order' : requests'[order'[i]] # None
        BY <3>3, <3>4, <3>5 DEF InSync
      <3>8. \A q \in Paths : requests'[q] # None => \E i \in DOMAIN order' : order'[i] = q
        BY <3>3, <3>4 DEF InSync
      <3>9. \A i, j \in DOMAIN order' : order'[i] = order'[j] => i = j
        BY <3>3, <3>6 DEF InSync
      <3> QED
        BY <3>7, <3>8, <3>9 DEF InSync
    <2> QED
      BY <1>1, <2>1, <2>2 DEF Request
  <1>2. ASSUME NEW r \in Requesters, Answer(r) PROVE InSync'
    BY <1>2, <1>u DEF Answer, queue
  <1>3. ASSUME NEW r \in Requesters, GiveUp(r) PROVE InSync'
    BY <1>3, <1>u DEF GiveUp, queue
  <1>4. ASSUME NEW h \in Handlers, NewHandler(h) PROVE InSync'
    BY <1>4, <1>u DEF NewHandler
  <1>5. ASSUME NEW h \in Handlers, DropHandler(h) PROVE InSync'
    <2>1. CASE RejectRequests
      BY <2>1 DEF RejectRequests, InSync
    <2> QED
      BY <1>5, <1>u, <2>1 DEF DropHandler
  <1>6. ASSUME NEW h \in Handlers, ReleaseHandler(h) PROVE InSync'
    BY <1>6, <1>u DEF ReleaseHandler, queue
  <1>7. ASSUME NEW h \in Handlers, RequestedBroadcast(h) PROVE InSync'
    <2>1. order \in Seq(Paths) /\ order # <<>> /\ order' = Tail(order)
      BY <1>7 DEF RequestedBroadcast, TypeOK
    <2>2. /\ DOMAIN order = 1..Len(order)
          /\ DOMAIN order' = 1..(Len(order) - 1)
          /\ \A i \in DOMAIN order' : order'[i] = order[i + 1]
          /\ \A i \in DOMAIN order : order[i] \in Paths
          /\ Len(order) \in Nat \ {0}
          /\ Head(order) = order[1]
      BY <2>1
    <2>3. \A q \in Paths : requests'[q] = IF q = order[1] THEN None ELSE requests[q]
      BY <1>7, <2>2 DEF RequestedBroadcast, TypeOK
    <2>4. \A i \in DOMAIN order' : i + 1 \in DOMAIN order /\ i + 1 # 1
      BY <2>2
    <2>5. \A i \in DOMAIN order' : order[i + 1] # order[1]
      BY <2>2, <2>4 DEF InSync
    <2>6. \A i \in DOMAIN order' : requests'[order'[i]] # None
      BY <2>2, <2>3, <2>4, <2>5 DEF InSync
    <2>7. ASSUME NEW q \in Paths, requests'[q] # None
          PROVE  \E i \in DOMAIN order' : order'[i] = q
      <3>1. q # order[1] /\ requests[q] # None
        BY <2>3, <2>7
      <3>2. PICK k \in DOMAIN order : order[k] = q
        BY <3>1 DEF InSync
      <3>3. k - 1 \in DOMAIN order' /\ order'[k - 1] = q
        BY <2>2, <3>1, <3>2
      <3> QED
        BY <3>3
    <2>8. \A i, j \in DOMAIN order' : order'[i] = order'[j] => i = j
      <3> SUFFICES ASSUME NEW i \in DOMAIN order', NEW j \in DOMAIN order',
                          order'[i] = order'[j]
                   PROVE  i = j
        OBVIOUS
      <3>1. i + 1 = j + 1
        BY <2>2, <2>4 DEF InSync
      <3> QED
        BY <3>1, <2>2
    <2> QED
      BY <2>6, <2>7, <2>8 DEF InSync
  <1>8. ASSUME NEW t \in taken, Serve(t) PROVE InSync'
    BY <1>8, <1>u DEF Serve, Resolve, queue
  <1>9. ASSUME DropOrigin PROVE InSync'
    BY <1>9, <1>u DEF DropOrigin, queue
  <1>10. ASSUME UNCHANGED vars PROVE InSync'
    BY <1>10, <1>u DEF vars
  <1> QED
    BY <1>1, <1>2, <1>3, <1>4, <1>5, <1>6, <1>7, <1>8, <1>9, <1>10 DEF Next

(* What a drop does to the count: it is exact, so saturation never bites,   *)
(* and it is zero afterwards just when no handler is left.                  *)
LEMMA DropCounts ==
    ASSUME Inv, NEW h \in Handlers, DropHandler(h)
    PROVE  dynamic' = Cardinality(live') /\ (dynamic' = 0 <=> live' = {})
  <1>1. live \subseteq Handlers /\ h \in live /\ live' = live \ {h}
    BY DEF Inv, TypeOK, DropHandler, Leave
  <1>2. /\ IsFiniteSet(live)
        /\ Cardinality(live) \in Nat
        /\ Cardinality(live) = 0 <=> live = {}
    BY <1>1, LiveFinite
  <1>3. IsFiniteSet(live') /\ Cardinality(live') = Cardinality(live) - 1
    BY <1>1, <1>2, FS_RemoveElement
  <1>4. dynamic' = SaturatingSub(Cardinality(live))
    BY DEF Inv, HandlersCounted, DropHandler
  <1>5. dynamic' = Cardinality(live')
    BY <1>1, <1>2, <1>3, <1>4 DEF SaturatingSub
  <1> QED
    BY <1>3, <1>5, FS_EmptySet

(* Every step keeps the count exact and a queue without handlers empty.     *)
LEMMA CountStep == Inv /\ [Next]_vars => HandlersCounted' /\ QueueCounted'
  <1> SUFFICES ASSUME Inv, [Next]_vars PROVE HandlersCounted' /\ QueueCounted'
    OBVIOUS
  <1> USE DEF Inv
  <1> DEFINE Goal == HandlersCounted' /\ QueueCounted'
  <1>u. ASSUME UNCHANGED <<order, dynamic, live>> PROVE Goal
    BY <1>u DEF HandlersCounted, QueueCounted
  <1>1. ASSUME NEW r \in Requesters, NEW p \in Paths, Request(r, p) PROVE Goal
    <2>1. UNCHANGED <<dynamic, live>>
      BY <1>1 DEF Request, handles
    <2>2. CASE UNCHANGED <<requests, order, resolved>>
      BY <1>u, <2>1, <2>2
    <2>3. CASE dynamic > 0
      BY <2>1, <2>3 DEF HandlersCounted, QueueCounted, TypeOK
    <2> QED
      BY <1>1, <2>2, <2>3 DEF Request
  <1>2. ASSUME NEW r \in Requesters, Answer(r) PROVE Goal
    BY <1>2, <1>u DEF Answer, queue, handles
  <1>3. ASSUME NEW r \in Requesters, GiveUp(r) PROVE Goal
    BY <1>3, <1>u DEF GiveUp, queue, handles
  <1>4. ASSUME NEW h \in Handlers, NewHandler(h) PROVE Goal
    <2>1. IsFiniteSet(live) /\ Cardinality(live) \in Nat
      BY LiveFinite DEF TypeOK
    <2>2. Cardinality(live') = Cardinality(live) + 1
      BY <1>4, <2>1, FS_AddElement DEF NewHandler
    <2> QED
      BY <1>4, <2>1, <2>2 DEF NewHandler, HandlersCounted, QueueCounted
  <1>5. ASSUME NEW h \in Handlers, DropHandler(h) PROVE Goal
    BY <1>5, DropCounts DEF DropHandler, RejectRequests, HandlersCounted, QueueCounted
  <1>6. ASSUME NEW h \in Handlers, ReleaseHandler(h) PROVE Goal
    BY <1>6, <1>u DEF ReleaseHandler, queue
  <1>7. ASSUME NEW h \in Handlers, RequestedBroadcast(h) PROVE Goal
    <2>1. UNCHANGED <<dynamic, live>> /\ dynamic # 0
      BY <1>7 DEF RequestedBroadcast, handles, QueueCounted
    <2> QED
      BY <2>1 DEF HandlersCounted, QueueCounted
  <1>8. ASSUME NEW t \in taken, Serve(t) PROVE Goal
    BY <1>8, <1>u DEF Serve, Resolve, queue, handles
  <1>9. ASSUME DropOrigin PROVE Goal
    BY <1>9, <1>u DEF DropOrigin, queue
  <1>10. ASSUME UNCHANGED vars PROVE Goal
    BY <1>10, <1>u DEF vars
  <1> QED
    BY <1>1, <1>2, <1>3, <1>4, <1>5, <1>6, <1>7, <1>8, <1>9, <1>10 DEF Next

(* Inv is an invariant.                                                     *)
THEOREM Invariance == Spec => []Inv
  <1>1. Inv /\ [Next]_vars => Inv'
    BY TypeStep, InSyncStep, CountStep DEF Inv
  <1> QED
    BY <1>1, InitInv, PTL DEF Spec

(* Every variable of the queue keeps its type; the count never wraps.       *)
THEOREM TypeCorrect == Spec => []TypeOK
  BY Invariance, PTL DEF Inv

(* The handler's expect on the request map (poll_requested_broadcast) never *)
(* fires.                                                                   *)
THEOREM MapAndOrderInSync == Spec => []InSync
  BY Invariance, PTL DEF Inv

(* The drop of the last handler leaves nothing queued, and nothing is       *)
(* queued until the next one comes.                                         *)
THEOREM NothingQueuedUnserved == Spec => []QueueHasHandler
  <1>1. Inv => QueueHasHandler
    <2> SUFFICES ASSUME Inv, live = {} PROVE order = <<>>
      BY DEF QueueHasHandler
    <2>1. Cardinality(live) = 0
      BY FS_EmptySet
    <2> QED
      BY <2>1 DEF Inv, HandlersCounted, QueueCounted
  <1> QED
    BY <1>1, Invariance, PTL

(* A queued request is taken, or rejected by the drop of the last handler,  *)
(* and never lost by the drop of another.                                   *)
THEOREM QueueLosesNothing == Spec => NoRequestLost
  <1> DEFINE Kept == \A p \in Paths : requests[p] # None /\ requests'[p] # requests[p] =>
                        \/ [path |-> p, producer |-> requests[p]] \in taken'
                        \/ live' = {}
  <1>1. Inv /\ [Next]_vars => [Kept]_vars
    <2> SUFFICES ASSUME Inv, Next PROVE Kept
      OBVIOUS
    <2>u. ASSUME UNCHANGED requests PROVE Kept
      BY <2>u
    <2>1. ASSUME NEW r \in Requesters, NEW p \in Paths, Request(r, p) PROVE Kept
      <3>1. CASE requests[p] = None /\ Enqueue(r, p)
        BY <3>1 DEF Enqueue, Inv, TypeOK
      <3> QED
        BY <2>1, <2>u, <3>1 DEF Request
    <2>2. ASSUME NEW r \in Requesters, Answer(r) \/ GiveUp(r) PROVE Kept
      BY <2>2, <2>u DEF Answer, GiveUp, queue
    <2>3. ASSUME NEW h \in Handlers, NewHandler(h) \/ ReleaseHandler(h) PROVE Kept
      BY <2>3, <2>u DEF NewHandler, ReleaseHandler, queue
    <2>4. ASSUME NEW h \in Handlers, DropHandler(h) PROVE Kept
      <3>1. CASE dynamic' = 0
        BY <2>4, <3>1, DropCounts
      <3> QED
        BY <2>4, <2>u, <3>1 DEF DropHandler
    <2>5. ASSUME NEW h \in Handlers, RequestedBroadcast(h) PROVE Kept
      BY <2>5 DEF RequestedBroadcast, Inv, TypeOK
    <2>6. ASSUME NEW t \in taken, Serve(t) PROVE Kept
      BY <2>6, <2>u DEF Serve, Resolve, queue
    <2>7. ASSUME DropOrigin PROVE Kept
      BY <2>7, <2>u DEF DropOrigin, queue
    <2> QED
      BY <2>1, <2>2, <2>3, <2>4, <2>5, <2>6, <2>7 DEF Next
  <1> QED
    BY <1>1, Invariance, PTL DEF Spec, NoRequestLost

(* request_broadcast fails fast only while no handler exists.               *)
THEOREM FailsFastUnservedOnly == Spec => RefusedOnlyUnserved
  <1> DEFINE FailFast == \A r \in Requesters :
          waiting[r] = None /\ result'[r] # result[r] /\ result'[r] # "none" => live = {}
  <1>1. Inv /\ [Next]_vars => [FailFast]_vars
    <2> SUFFICES ASSUME Inv, Next PROVE FailFast
      OBVIOUS
    <2>u. ASSUME UNCHANGED result PROVE FailFast
      BY <2>u
    <2>1. ASSUME NEW r \in Requesters, NEW p \in Paths, Request(r, p) PROVE FailFast
      <3>1. CASE Closed
        BY <3>1 DEF Closed
      <3>2. CASE dynamic = 0
        BY <3>2, LiveFinite DEF Inv, TypeOK, HandlersCounted
      <3>3. CASE Await(r, p, requests[p]) \/ Enqueue(r, p)
        BY <3>3 DEF Await, Enqueue, Inv, TypeOK
      <3> QED
        BY <2>1, <3>1, <3>2, <3>3 DEF Request
    <2>2. ASSUME NEW r \in Requesters, Answer(r) PROVE FailFast
      <3>1. waiting[r] # None
        BY <2>2 DEF Answer
      <3>2. \A q \in Requesters \ {r} : result'[q] = result[q]
        BY <2>2 DEF Answer, Inv, TypeOK
      <3> QED
        BY <3>1, <3>2
    <2>3. ASSUME NEW r \in Requesters, GiveUp(r) PROVE FailFast
      BY <2>3, <2>u DEF GiveUp
    <2>4. ASSUME NEW h \in Handlers, NewHandler(h) \/ ReleaseHandler(h) PROVE FailFast
      BY <2>4, <2>u DEF NewHandler, ReleaseHandler, asking
    <2>5. ASSUME NEW h \in Handlers, DropHandler(h) PROVE FailFast
      BY <2>5, <2>u DEF DropHandler, Leave, asking
    <2>6. ASSUME NEW h \in Handlers, RequestedBroadcast(h) PROVE FailFast
      BY <2>6, <2>u DEF RequestedBroadcast, asking
    <2>7. ASSUME NEW t \in taken, Serve(t) PROVE FailFast
      BY <2>7, <2>u DEF Serve, Resolve, asking
    <2>8. ASSUME DropOrigin PROVE FailFast
      BY <2>8, <2>u DEF DropOrigin, asking
    <2> QED
      BY <2>1, <2>2, <2>3, <2>4, <2>5, <2>6, <2>7, <2>8 DEF Next
  <1> QED
    BY <1>1, Invariance, PTL DEF Spec, RefusedOnlyUnserved

-----------------------------------------------------------------------------
(* The record of a queued path.                                             *)
Entry(p) == [path |-> p, producer |-> requests[p]]

(* What is outstanding, without the set of records.                         *)
LEMMA OutstandingIs ==
    /\ \A t : t \in Outstanding <=>
            \/ t \in taken
            \/ \E p \in Paths : requests[p] # None /\ t = Entry(p)
    /\ \A p : Entry(p).path = p /\ Entry(p).producer = requests[p]
  BY DEF Outstanding, Entry

(* Every step keeps answers with those who asked.                           *)
LEMMA AskersStep == Inv /\ AnswersReachAskers /\ [Next]_vars => AnswersReachAskers'
  <1> SUFFICES ASSUME Inv, AnswersReachAskers, [Next]_vars PROVE AnswersReachAskers'
    OBVIOUS
  <1>t. /\ requests \in [Paths -> Channels \cup {None}]
        /\ taken \subseteq BroadcastRequest
        /\ resolved \in [Channels -> {"none", "ok", "rejected"}]
        /\ waiting \in [Requesters -> Channels \cup {None}]
        /\ asked \in [Requesters -> Paths \cup {None}]
    BY DEF Inv, TypeOK
  <1>c. \A t \in Outstanding : t.producer \in Channels /\ t.producer # None
    BY <1>t, OutstandingIs, NoneAssumption DEF BroadcastRequest
  <1>u. ASSUME UNCHANGED <<requests, taken, resolved, waiting, asked>>
        PROVE  AnswersReachAskers'
    BY <1>u DEF AnswersReachAskers, Outstanding, Taken
  <1>1. ASSUME NEW r \in Requesters, NEW p \in Paths, Request(r, p) PROVE AnswersReachAskers'
    <2>1. taken' = taken /\ Taken' = Taken
      BY <1>1 DEF Request, Taken
    <2>2. CASE UNCHANGED <<requests, order, resolved>> /\ (\E e : Refuse(r, e))
      BY <2>1, <2>2, <1>u DEF Refuse
    <2>3. CASE /\ UNCHANGED <<requests, order, resolved>>
               /\ requests[p] # None
               /\ Await(r, p, requests[p])
      <3>1. Outstanding' = Outstanding
        BY <2>1, <2>3 DEF Outstanding
      <3>2. Entry(p) \in Outstanding
        BY <2>3, OutstandingIs
      <3>3. ASSUME NEW t \in Outstanding, NEW q \in Requesters, waiting'[q] = t.producer
            PROVE  asked'[q] = t.path
        <4>1. CASE q = r
          <5>1. waiting'[q] = requests[p] /\ asked'[q] = p
            BY <2>3, <1>t, <4>1 DEF Await
          <5>2. t.producer = Entry(p).producer
            BY <3>3, <5>1, OutstandingIs
          <5>3. t = Entry(p)
            BY <3>2, <5>2 DEF AnswersReachAskers
          <5> QED
            BY <5>1, <5>3, OutstandingIs
        <4>2. CASE q # r
          BY <2>3, <1>t, <3>3, <4>2 DEF Await, AnswersReachAskers
        <4> QED
          BY <4>1, <4>2
      <3> QED
        BY <2>1, <2>3, <3>1, <3>3 DEF AnswersReachAskers
    <2>4. CASE requests[p] = None /\ Enqueue(r, p)
      <3>1. PICK c \in Channels :
              /\ Unused(c)
              /\ requests' = [requests EXCEPT ![p] = c]
              /\ resolved' = [resolved EXCEPT ![c] = "none"]
              /\ Await(r, p, c)
        BY <2>4 DEF Enqueue
      <3> DEFINE new == [path |-> p, producer |-> c]
      <3>2. c # None /\ \A q \in Paths : requests'[q] = IF q = p THEN c ELSE requests[q]
        BY <1>t, <3>1, NoneAssumption
      <3>3. \A t \in Outstanding : t.producer # c
        BY <3>1, OutstandingIs, NoneAssumption DEF Unused, Queued, Taken
      <3>4. \A t \in Outstanding' : t \in Outstanding \/ t = new
        BY <2>1, <3>2 DEF Outstanding
      <3>5. ASSUME NEW t \in Outstanding' PROVE resolved'[t.producer] = "none"
        BY <1>t, <1>c, <3>1, <3>4 DEF AnswersReachAskers
      <3>6. ASSUME NEW t \in Outstanding', NEW u \in Outstanding', u.producer = t.producer
            PROVE  u = t
        BY <3>3, <3>4, <3>6 DEF AnswersReachAskers
      <3>7. ASSUME NEW t \in Outstanding', NEW q \in Requesters, waiting'[q] = t.producer
            PROVE  asked'[q] = t.path
        <4>1. CASE q = r
          <5>1. waiting'[q] = c /\ asked'[q] = p
            BY <1>t, <3>1, <4>1 DEF Await
          <5>2. t = new
            BY <3>3, <3>4, <3>7, <5>1
          <5> QED
            BY <5>1, <5>2
        <4>2. CASE q # r
          <5>1. waiting'[q] = waiting[q] /\ asked'[q] = asked[q] /\ waiting[q] # c
            BY <1>t, <3>1, <4>2 DEF Await, Unused
          <5>2. waiting[q] = t.producer /\ t.producer # c
            BY <3>7, <5>1
          <5>3. CASE t = new
            <6>1. t.producer = c
              BY <5>3
            <6> QED
              BY <5>2, <6>1
          <5>4. CASE t \in Outstanding
            BY <5>1, <5>2, <5>4 DEF AnswersReachAskers
          <5> QED
            BY <3>4, <5>3, <5>4
        <4> QED
          BY <4>1, <4>2
      <3>8. \A q \in Paths : requests'[q] # None => requests'[q] \notin Taken'
        BY <2>1, <3>1, <3>2 DEF AnswersReachAskers, Unused
      <3> QED
        BY <3>5, <3>6, <3>7, <3>8 DEF AnswersReachAskers
    <2> QED
      BY <1>1, <2>2, <2>3, <2>4 DEF Request
  <1>2. ASSUME NEW r \in Requesters, Answer(r) \/ GiveUp(r) PROVE AnswersReachAskers'
    <2>1. UNCHANGED <<requests, taken, resolved>>
      BY <1>2 DEF Answer, GiveUp, queue
    <2>2. waiting' = [waiting EXCEPT ![r] = None] /\ asked' = [asked EXCEPT ![r] = None]
      BY <1>2 DEF Answer, GiveUp
    <2>3. Outstanding' = Outstanding /\ Taken' = Taken
      BY <2>1 DEF Outstanding, Taken
    <2>4. \A t \in Outstanding, q \in Requesters :
            waiting'[q] = t.producer => waiting'[q] = waiting[q] /\ asked'[q] = asked[q]
      BY <1>t, <1>c, <2>2
    <2> QED
      BY <2>1, <2>3, <2>4 DEF AnswersReachAskers
  <1>3. ASSUME NEW h \in Handlers, NewHandler(h) \/ ReleaseHandler(h)
        PROVE  AnswersReachAskers'
    BY <1>3, <1>u DEF NewHandler, ReleaseHandler, queue, asking
  <1>4. ASSUME NEW h \in Handlers, DropHandler(h) PROVE AnswersReachAskers'
    <2>1. UNCHANGED <<taken, resolved, waiting, asked>>
      BY <1>4 DEF DropHandler, Leave, asking
    <2>2. CASE RejectRequests
      <3>1. \A q \in Paths : requests'[q] = None
        BY <2>2 DEF RejectRequests
      <3>2. Outstanding' = taken /\ taken \subseteq Outstanding
        BY <2>1, <3>1 DEF Outstanding
      <3> QED
        BY <2>1, <3>1, <3>2 DEF AnswersReachAskers
    <2> QED
      BY <1>4, <1>u, <2>1, <2>2 DEF DropHandler
  <1>5. ASSUME NEW h \in Handlers, RequestedBroadcast(h) PROVE AnswersReachAskers'
    <2> DEFINE p == Head(order)
    <2>1. UNCHANGED <<resolved, waiting, asked>>
      BY <1>5 DEF RequestedBroadcast, asking
    <2>2. p \in Paths /\ requests[p] # None
      <3>1. order \in Seq(Paths) /\ order # <<>>
        BY <1>5 DEF RequestedBroadcast, Inv, TypeOK
      <3>2. 1 \in DOMAIN order /\ p = order[1] /\ p \in Paths
        BY <3>1
      <3> QED
        BY <3>2 DEF Inv, InSync
    <2>3. taken' = taken \cup {Entry(p)}
      BY <1>5 DEF RequestedBroadcast, Entry
    <2>4. \A q \in Paths : requests'[q] = IF q = p THEN None ELSE requests[q]
      BY <1>5, <1>t DEF RequestedBroadcast
    <2>5. Entry(p) \in Outstanding
      BY <2>2, OutstandingIs
    <2>6. \A t \in Outstanding' : t \in Outstanding
      BY <2>3, <2>4, <2>5 DEF Outstanding
    <2>7. ASSUME NEW q \in Paths, requests'[q] # None PROVE requests'[q] \notin Taken'
      <3>1. q # p /\ requests'[q] = requests[q] /\ Entry(q) \in Outstanding
        BY <2>4, <2>7, OutstandingIs
      <3>2. requests[q] # requests[p]
        <4>1. Entry(q) # Entry(p)
          BY <3>1, OutstandingIs
        <4>2. Entry(q).producer # Entry(p).producer
          BY <2>5, <3>1, <4>1 DEF AnswersReachAskers
        <4> QED
          BY <4>2, OutstandingIs
      <3>3. Taken' = Taken \cup {requests[p]}
        BY <2>3, OutstandingIs DEF Taken
      <3> QED
        BY <2>7, <3>1, <3>2, <3>3 DEF AnswersReachAskers
    <2> QED
      BY <2>1, <2>6, <2>7 DEF AnswersReachAskers
  <1>6. ASSUME NEW t \in taken, Serve(t) PROVE AnswersReachAskers'
    <2>1. PICK outcome \in {"ok", "rejected", "none"} : Resolve(t, outcome)
      BY <1>6 DEF Serve
    <2>2. /\ UNCHANGED <<requests, waiting, asked>>
          /\ taken' = taken \ {t}
          /\ resolved' = [resolved EXCEPT ![t.producer] = outcome]
      BY <2>1 DEF Resolve, queue, asking
    <2>3. t \in Outstanding /\ t.producer \in Taken
      BY <1>6 DEF Outstanding, Taken
    <2>4. \A u \in Outstanding' : u \in Outstanding
      BY <2>2 DEF Outstanding
    <2>5. \A u \in Outstanding' : u # t
      <3>1. \A q \in Paths : requests[q] # None => Entry(q) # t
        BY <2>3, OutstandingIs DEF AnswersReachAskers
      <3> QED
        BY <2>2, <3>1 DEF Outstanding, Entry
    <2>6. \A u \in Outstanding' : resolved'[u.producer] = resolved[u.producer]
      BY <1>t, <1>c, <2>2, <2>3, <2>4, <2>5 DEF AnswersReachAskers
    <2>7. Taken' \subseteq Taken
      BY <2>2 DEF Taken
    <2> QED
      BY <2>2, <2>4, <2>6, <2>7 DEF AnswersReachAskers
  <1>7. ASSUME DropOrigin PROVE AnswersReachAskers'
    BY <1>7, <1>u DEF DropOrigin, queue, asking
  <1>8. ASSUME UNCHANGED vars PROVE AnswersReachAskers'
    BY <1>8, <1>u DEF vars
  <1> QED
    BY <1>1, <1>2, <1>3, <1>4, <1>5, <1>6, <1>7, <1>8 DEF Next

(* An answer reaches those who asked for its path and nobody else, however  *)
(* often a path is asked for again while it is being served.                *)
THEOREM AnswersAreApart == Spec => []AnswersReachAskers
  <1>1. Init => AnswersReachAskers
    BY DEF Init, AnswersReachAskers, Outstanding, Taken
  <1> QED
    BY <1>1, AskersStep, Invariance, PTL DEF Spec

=============================================================================

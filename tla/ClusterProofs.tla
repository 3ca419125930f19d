--------------------------- MODULE ClusterProofs ---------------------------
(***************************************************************************)
(* The properties of module Cluster for any number of relays, any static   *)
(* peers, any timeouts and either way to spell a node's address.           *)
(***************************************************************************)
EXTENDS Cluster, TLAPS

GossipKey(h) == Key(Registered(h))
Dialable(h) == ShouldDial(Node, Registered(h))

(* Gossip keeps only keys of registrations that are dialed; a stale timer   *)
(* runs only while gossip wants the peer, no longer than the registration   *)
(* is quiet, and not past the sweep after STALE_AFTER.                      *)
GossipInv ==
    /\ \A k \in Keys : "gossip" \in sources[k] => \E h \in Hosts : k = GossipKey(h) /\ Dialable(h)
    /\ \A k \in Keys : stale[k] # None =>
         "gossip" \in sources[k] /\ stale[k] + timer <= StaleAfter + SweepInterval
    /\ \A h \in Hosts :
         /\ Dialable(h) /\ h \in announced =>
              "gossip" \in sources[GossipKey(h)] /\ stale[GossipKey(h)] = None
         /\ Dialable(h) /\ h \notin announced /\ "gossip" \in sources[GossipKey(h)] =>
              stale[GossipKey(h)] # None
         /\ stale[GossipKey(h)] # None =>
              h \notin announced /\ (quiet[h] >= stale[GossipKey(h)] \/ quiet[h] >= StaleAfter)

WantedInv ==
    \A k \in Keys : ("static" \in sources[k] <=> k \in Connect) /\ ("api" \in sources[k] <=> k \in listed)

(* Exactly a task that runs has a phase and a backoff.                      *)
TaskInv ==
    \A k \in Keys : (session[k] = "none" <=> running[k] = 0) /\ (backoff[k] = 0 <=> running[k] = 0)

Inv == TypeOK /\ OneDialEach /\ WantedInv /\ TaskInv /\ GossipInv

(* Registrations of different relays have different keys.                   *)
LEMMA GossipKeys ==
    /\ \A h \in Hosts : GossipKey(h) \in Keys
    /\ \A g, h \in Hosts : GossipKey(g) = GossipKey(h) => g = h
<1>1. \A h \in Hosts : GossipKey(h) = IF FullUrl THEN N + h ELSE h
  BY ClusterAssumption DEF GossipKey, Key, Registered, Join, Address
<1> QED BY <1>1, ClusterAssumption DEF Hosts, Keys

(* The invariant holds when the static peers are dialed.                    *)
LEMMA InvInit == Init => Inv
<1> SUFFICES ASSUME Init PROVE Inv
  OBVIOUS
<1> USE ClusterAssumption DEF Init
<1>1. TypeOK
  BY DEF TypeOK, Keys, Hosts, None, Sessions
<1>2. OneDialEach /\ WantedInv /\ TaskInv
  BY DEF OneDialEach, WantedInv, TaskInv, Keys
<1>3. GossipInv
  BY GossipKeys DEF GossipInv
<1> QED BY <1>1, <1>2, <1>3 DEF Inv

(* What the invariant says of the properties.                               *)
LEMMA InvSafe == Inv => SourcesTrue
<1> SUFFICES ASSUME Inv PROVE SourcesTrue
  OBVIOUS
<1>1. ASSUME NEW h \in Hosts, Dialable(h), h \notin announced, "gossip" \in sources[GossipKey(h)]
      PROVE  stale[GossipKey(h)] \in 0..(StaleAfter + SweepInterval)
  <2>1. GossipKey(h) \in Keys /\ stale[GossipKey(h)] # None
    BY <1>1, GossipKeys DEF Inv, GossipInv
  <2>2. stale[GossipKey(h)] \in Nat /\ timer \in Nat /\ stale[GossipKey(h)] + timer <= StaleAfter + SweepInterval
    BY <2>1 DEF Inv, TypeOK, GossipInv
  <2> QED BY <2>2, ClusterAssumption
<1>2. ASSUME NEW h \in Hosts, Dialable(h), h \in announced
      PROVE  "gossip" \in sources[GossipKey(h)] /\ stale[GossipKey(h)] = None
  BY <1>2 DEF Inv, GossipInv
<1> QED BY <1>1, <1>2 DEF SourcesTrue, Inv, WantedInv, GossipKey, Dialable

(* An announce keeps the invariant.                                         *)
LEMMA AnnounceStep == ASSUME Inv, NEW h \in Hosts, Announce(h) PROVE Inv'
<1> DEFINE k == GossipKey(h)
<1> USE ClusterAssumption
<1>0. k \in Keys /\ h \in Hosts /\ k = Key(Registered(h))
  BY GossipKeys DEF GossipKey
<1>1. /\ h \notin announced /\ announced' = announced \cup {h} /\ quiet' = [quiet EXCEPT ![h] = 0]
      /\ UNCHANGED <<listed, timer>>
  BY DEF Announce
<1>2. CASE ~Dialable(h)
  <2>1. UNCHANGED <<dialed, sources, stale, running, backoff, session>>
    BY <1>2 DEF Announce, dialVars, Dialable
  <2>2. TypeOK'
    BY <1>1, <2>1 DEF Inv, TypeOK
  <2>3. OneDialEach' /\ WantedInv' /\ TaskInv'
    BY <1>1, <2>1 DEF Inv, OneDialEach, WantedInv, TaskInv
  <2>4. stale[k] = None
    <3>1. ASSUME NEW g \in Hosts, k = GossipKey(g), Dialable(g) PROVE FALSE
      BY <1>2, <3>1, GossipKeys
    <3> QED BY <1>0, <3>1 DEF Inv, GossipInv
  <2>5. GossipInv'
    BY <1>1, <1>2, <2>1, <2>4, GossipKeys DEF Inv, GossipInv, TypeOK, GossipKey, Dialable
  <2> QED BY <2>2, <2>3, <2>5 DEF Inv
<1>3. CASE Dialable(h) /\ k \in dialed
  <2>1. /\ sources' = [sources EXCEPT ![k] = @ \cup {"gossip"}]
        /\ stale' = [stale EXCEPT ![k] = None]
        /\ UNCHANGED <<dialed, running, backoff, session>>
    BY <1>3, <1>0 DEF Announce, Dialable, AddSource
  <2>2. TypeOK'
    <3>1. sources' \in [Keys -> SUBSET {"static", "gossip", "api"}]
      BY <1>0, <2>1 DEF Inv, TypeOK
    <3>2. stale' \in [Keys -> Nat \cup {None}]
      BY <1>0, <2>1 DEF Inv, TypeOK
    <3>3. quiet' \in [Hosts -> 0..StaleAfter]
      BY <1>1 DEF Inv, TypeOK
    <3> QED BY <1>1, <2>1, <3>1, <3>2, <3>3 DEF Inv, TypeOK
  <2>3. OneDialEach' /\ WantedInv' /\ TaskInv'
    BY <1>0, <1>1, <1>3, <2>1 DEF Inv, TypeOK, OneDialEach, WantedInv, TaskInv
  <2>4. GossipInv'
    BY <1>0, <1>1, <1>3, <2>1, GossipKeys DEF Inv, GossipInv, TypeOK
  <2> QED BY <2>2, <2>3, <2>4 DEF Inv
<1>4. CASE Dialable(h) /\ k \notin dialed
  <2>1. /\ dialed' = dialed \cup {k}
        /\ sources' = [j \in Keys |-> IF j = k THEN sources[j] \cup {"gossip"} ELSE sources[j]]
        /\ session' = [j \in Keys |-> IF j = k THEN "dialing" ELSE session[j]]
        /\ running' = [j \in Keys |-> IF j = k THEN running[j] + 1 ELSE running[j]]
        /\ backoff' = [j \in Keys |-> IF j = k THEN 1 ELSE backoff[j]]
        /\ stale' = [j \in Keys |-> IF j = k THEN None ELSE stale[j]]
    BY <1>4, <1>0 DEF Announce, Dialable, Insert
  <2>2. TypeOK'
    BY <1>0, <1>1, <2>1 DEF Inv, TypeOK, Sessions
  <2>3. running[k] = 0
    BY <1>0, <1>4 DEF Inv, OneDialEach
  <2>4. OneDialEach' /\ WantedInv' /\ TaskInv'
    <3>1. OneDialEach'
      BY <1>0, <1>4, <2>1, <2>3 DEF Inv, TypeOK, OneDialEach
    <3>2. WantedInv'
      BY <1>0, <1>1, <2>1 DEF Inv, TypeOK, WantedInv
    <3>3. TaskInv'
      BY <1>0, <2>1, <2>3 DEF Inv, TypeOK, TaskInv
    <3> QED BY <3>1, <3>2, <3>3
  <2>5. GossipInv'
    BY <1>0, <1>1, <1>4, <2>1, GossipKeys DEF Inv, GossipInv, TypeOK
  <2> QED BY <2>2, <2>4, <2>5 DEF Inv
<1> QED BY <1>2, <1>3, <1>4

(* An unannounce keeps the invariant.                                       *)
LEMMA UnannounceStep == ASSUME Inv, NEW h \in Hosts, Unannounce(h) PROVE Inv'
<1> DEFINE k == GossipKey(h)
<1> USE ClusterAssumption
<1>0. k \in Keys /\ k = Key(Registered(h))
  BY GossipKeys DEF GossipKey
<1>1. /\ h \in announced /\ announced' = announced \ {h}
      /\ UNCHANGED <<listed, timer, quiet, dialed, sources, running, backoff, session>>
  BY DEF Unannounce, MarkUnannounced, dialVars
<1>2. OneDialEach' /\ WantedInv' /\ TaskInv'
  BY <1>1 DEF Inv, OneDialEach, WantedInv, TaskInv
<1>3. CASE ~Dialable(h)
  <2>1. stale' = stale
    BY <1>3 DEF Unannounce, dialVars, Dialable
  <2>2. TypeOK'
    BY <1>1, <2>1 DEF Inv, TypeOK
  <2>3. GossipInv'
    BY <1>1, <1>3, <2>1 DEF Inv, GossipInv
  <2> QED BY <1>2, <2>2, <2>3 DEF Inv
<1>4. CASE Dialable(h)
  <2>1. "gossip" \in sources[k] /\ stale[k] = None /\ k \in dialed
    BY <1>0, <1>1, <1>4 DEF Inv, GossipInv, OneDialEach
  <2>2. stale' = [stale EXCEPT ![k] = 0]
    BY <1>0, <1>4, <2>1 DEF Unannounce, MarkUnannounced, Dialable
  <2>3. TypeOK'
    BY <1>1, <2>2 DEF Inv, TypeOK
  <2>4. GossipInv'
    BY <1>0, <1>1, <1>4, <2>1, <2>2, GossipKeys DEF Inv, GossipInv, TypeOK, None
  <2> QED BY <1>2, <2>3, <2>4 DEF Inv
<1> QED BY <1>3, <1>4

(* A sweep keeps the invariant.                                             *)
LEMMA SweepStep == ASSUME Inv, Sweep PROVE Inv'
<1> DEFINE gone == {k \in Stale : sources[k] \subseteq {"gossip"}}
<1> USE ClusterAssumption
<1>1. /\ timer = 0 /\ timer' = SweepInterval /\ UNCHANGED <<announced, listed, quiet>>
      /\ dialed' = dialed \ gone
      /\ sources' = [k \in Keys |-> IF k \in Stale THEN sources[k] \ {"gossip"} ELSE sources[k]]
      /\ running' = LetGo(gone)
      /\ session' = [k \in Keys |-> IF k \in gone THEN "none" ELSE session[k]]
      /\ backoff' = [k \in Keys |-> IF k \in gone THEN 0 ELSE backoff[k]]
      /\ stale' = [k \in Keys |-> IF k \in Stale THEN None ELSE stale[k]]
  BY DEF Sweep, Release, Remove
<1>2. \A k \in Keys : k \in Stale <=> stale[k] # None /\ stale[k] >= StaleAfter
  BY DEF Stale, Inv, GossipInv, OneDialEach
<1>3. Stale \subseteq Keys /\ Stale \subseteq dialed /\ \A k \in Stale : "gossip" \in sources[k]
  BY DEF Stale, Inv, GossipInv, TypeOK
<1>4. running' = [k \in Keys |-> IF k \in gone THEN 0 ELSE running[k]]
  <2>1. \A k \in Keys : running[k] \in {0, 1}
    BY DEF Inv, OneDialEach
  <2> QED BY <1>1, <2>1 DEF LetGo
<1>5. TypeOK'
  <2>1. running' \in [Keys -> Nat]
    BY <1>1, <1>4 DEF Inv, TypeOK
  <2>2. backoff' \in [Keys -> 0..MaxBackoff] /\ stale' \in [Keys -> Nat \cup {None}]
    BY <1>1 DEF Inv, TypeOK
  <2>3. sources' \in [Keys -> SUBSET {"static", "gossip", "api"}]
    BY <1>1 DEF Inv, TypeOK
  <2>4. session' \in [Keys -> Sessions]
    BY <1>1 DEF Inv, TypeOK, Sessions
  <2>5. dialed' \subseteq Keys /\ timer' \in 0..SweepInterval
    BY <1>1 DEF Inv, TypeOK
  <2> QED BY <1>1, <2>1, <2>2, <2>3, <2>4, <2>5 DEF Inv, TypeOK
<1>6. OneDialEach'
  BY <1>1, <1>3, <1>4 DEF Inv, OneDialEach, TypeOK
<1>7. WantedInv' /\ TaskInv'
  BY <1>1, <1>4 DEF Inv, WantedInv, TaskInv, TypeOK
<1>8. GossipInv'
  <2>1. \A k \in Keys : "gossip" \in sources'[k] => "gossip" \in sources[k] /\ k \notin Stale
    BY <1>1
  <2>2. \A k \in Keys : k \notin Stale => sources'[k] = sources[k] /\ stale'[k] = stale[k]
    BY <1>1
  <2>3. \A k \in Keys : k \in Stale => stale'[k] = None /\ "gossip" \notin sources'[k]
    BY <1>1
  <2>4. ASSUME NEW k \in Keys, stale'[k] # None
        PROVE  "gossip" \in sources'[k] /\ stale'[k] + timer' <= StaleAfter + SweepInterval
    <3>1. k \notin Stale /\ stale'[k] = stale[k] /\ stale[k] # None /\ sources'[k] = sources[k]
      BY <2>2, <2>3, <2>4
    <3>2. stale[k] \in Nat /\ stale[k] < StaleAfter
      BY <1>2, <3>1 DEF Inv, TypeOK
    <3> QED BY <1>1, <3>1, <3>2 DEF Inv, GossipInv
  <2>5. ASSUME NEW h \in Hosts
        PROVE  /\ Dialable(h) /\ h \in announced' =>
                    "gossip" \in sources'[GossipKey(h)] /\ stale'[GossipKey(h)] = None
               /\ Dialable(h) /\ h \notin announced' /\ "gossip" \in sources'[GossipKey(h)] =>
                    stale'[GossipKey(h)] # None
               /\ stale'[GossipKey(h)] # None =>
                    h \notin announced' /\ (quiet'[h] >= stale'[GossipKey(h)] \/ quiet'[h] >= StaleAfter)
    <3>1. GossipKey(h) \in Keys
      BY GossipKeys
    <3>2. CASE GossipKey(h) \in Stale
      BY <1>1, <1>2, <2>3, <3>1, <3>2 DEF Inv, GossipInv
    <3>3. CASE GossipKey(h) \notin Stale
      BY <1>1, <2>2, <3>1, <3>3 DEF Inv, GossipInv
    <3> QED BY <3>2, <3>3
  <2> QED BY <2>1, <2>4, <2>5 DEF Inv, GossipInv, Dialable, GossipKey
<1> QED BY <1>5, <1>6, <1>7, <1>8 DEF Inv

(* A peer list keeps the invariant.                                         *)
LEMMA ListStep == ASSUME Inv, NEW L \in SUBSET Hosts, ApplyPeerList(L) PROVE Inv'
<1> DEFINE desired == L \ {Self}
           fresh == desired \ dialed
           gone == Unlisted(desired)
<1> USE ClusterAssumption
<1>1. /\ listed' = desired /\ dialed' = (dialed \ gone) \cup desired
      /\ sources' = [k \in Keys |-> IF k \in gone THEN {}
                                    ELSE IF k \in desired THEN sources[k] \cup {"api"}
                                    ELSE sources[k] \ {"api"}]
      /\ session' = [k \in Keys |-> IF k \in fresh THEN "dialing"
                                    ELSE IF k \in gone THEN "none" ELSE session[k]]
      /\ running' = [k \in Keys |-> IF k \in fresh THEN running[k] + 1 ELSE LetGo(gone)[k]]
      /\ backoff' = [k \in Keys |-> IF k \in fresh THEN 1 ELSE IF k \in gone THEN 0 ELSE backoff[k]]
      /\ stale' = [k \in Keys |-> IF k \in fresh THEN None ELSE stale[k]]
      /\ UNCHANGED <<announced, timer, quiet>>
  BY DEF ApplyPeerList
<1>2. desired \subseteq Keys /\ desired \subseteq Hosts
  BY DEF Keys, Hosts
<1>3. \A k \in Keys : /\ k \in gone <=> k \in dialed /\ k \notin desired /\ sources[k] = {"api"}
                      /\ k \in fresh => running[k] = 0 /\ sources[k] = {} /\ stale[k] = None
                      /\ running[k] \in {0, 1}
  BY DEF Inv, OneDialEach, GossipInv, Unlisted
<1> HIDE DEF gone
<1>4. \A k \in Keys : running'[k] = IF k \in fresh THEN 1 ELSE IF k \in gone THEN 0 ELSE running[k]
  BY <1>1, <1>3 DEF LetGo
<1>5. stale' = stale
  BY <1>1, <1>3 DEF Inv, TypeOK
<1>6. TypeOK'
  <2>1. running' \in [Keys -> Nat]
    <3>1. \A k \in Keys : running'[k] \in Nat
      BY <1>4 DEF Inv, TypeOK
    <3> QED BY <1>1, <3>1
  <2>2. backoff' \in [Keys -> 0..MaxBackoff]
    BY <1>1 DEF Inv, TypeOK
  <2>3. sources' \in [Keys -> SUBSET {"static", "gossip", "api"}]
    BY <1>1 DEF Inv, TypeOK
  <2>4. session' \in [Keys -> Sessions]
    BY <1>1 DEF Inv, TypeOK, Sessions
  <2> QED BY <1>1, <1>2, <1>5, <2>1, <2>2, <2>3, <2>4 DEF Inv, TypeOK
<1>7. OneDialEach'
  <2> SUFFICES ASSUME NEW k \in Keys
               PROVE  /\ k \in dialed' <=> sources'[k] # {}
                      /\ running'[k] \in {0, 1}
                      /\ running'[k] = 1 => k \in dialed'
                      /\ k \in dialed' \ Invalid => running'[k] = 1
    BY DEF OneDialEach
  <2>1. /\ k \in dialed <=> sources[k] # {}
        /\ running[k] \in {0, 1} /\ (running[k] = 1 => k \in dialed)
        /\ k \in dialed \ Invalid => running[k] = 1
    BY DEF Inv, OneDialEach
  <2>2. k \in dialed' <=> sources'[k] # {}
    <3>1. CASE k \in desired
      BY <1>1, <1>3, <3>1
    <3>2. CASE k \notin desired
      <4>1. sources'[k] = IF k \in gone THEN {} ELSE sources[k] \ {"api"}
        BY <1>1, <3>2
      <4> QED BY <1>1, <1>3, <2>1, <3>2, <4>1
    <3> QED BY <3>1, <3>2
  <2>3. k \in dialed' <=> k \in fresh \/ (k \in dialed /\ k \notin gone)
    BY <1>1, <1>3
  <2> QED BY <1>4, <2>1, <2>2, <2>3
<1>8. WantedInv' /\ TaskInv'
  <2>1. \A k \in Keys : "static" \in sources'[k] <=> "static" \in sources[k]
    BY <1>1, <1>3
  <2>2. \A k \in Keys : "api" \in sources'[k] <=> k \in desired
    BY <1>1, <1>3
  <2>3. WantedInv'
    BY <1>1, <2>1, <2>2 DEF Inv, WantedInv
  <2>4. TaskInv'
    BY <1>1, <1>4 DEF Inv, TaskInv
  <2> QED BY <2>3, <2>4
<1>9. GossipInv'
  <2>1. \A k \in Keys : "gossip" \in sources'[k] <=> "gossip" \in sources[k]
    BY <1>1, <1>3
  <2>2. UNCHANGED <<stale, announced, timer, quiet>>
    BY <1>1, <1>5
  <2> QED BY <2>1, <2>2, GossipKeys DEF Inv, GossipInv, Dialable, GossipKey
<1> QED BY <1>6, <1>7, <1>8, <1>9 DEF Inv

(* The dial tasks keep the invariant.                                       *)
LEMMA RemoteStep ==
    ASSUME Inv, NEW k \in Keys,
           RejectUrl(k) \/ Progress(k) \/ RunRemoteOnce(k) \/ Redial(k)
    PROVE  Inv'
<1> USE ClusterAssumption
<1>1. UNCHANGED <<dialed, sources, stale, announced, listed, timer, quiet>>
  BY DEF RejectUrl, Progress, RunRemoteOnce, Redial
<1>2. WantedInv' /\ GossipInv'
  BY <1>1 DEF Inv, WantedInv, GossipInv, Dialable, GossipKey
<1>3. CASE RejectUrl(k)
  <2>1. running[k] = 1 /\ k \in Invalid
    BY <1>3 DEF RejectUrl, Inv, TaskInv, OneDialEach
  <2>2. /\ running' = [running EXCEPT ![k] = 0] /\ session' = [session EXCEPT ![k] = "none"]
        /\ backoff' = [backoff EXCEPT ![k] = 0]
    BY <1>3, <2>1 DEF RejectUrl
  <2>3. TypeOK'
    BY <1>1, <2>2 DEF Inv, TypeOK, Sessions
  <2>4. OneDialEach' /\ TaskInv'
    BY <1>1, <2>1, <2>2 DEF Inv, TypeOK, OneDialEach, TaskInv
  <2> QED BY <1>2, <2>3, <2>4 DEF Inv
<1>4. CASE Progress(k) \/ RunRemoteOnce(k) \/ Redial(k)
  <2>1. UNCHANGED running
    BY <1>4 DEF Progress, RunRemoteOnce, Redial
  <2>2. PICK v \in {"dialing", "open", "stable", "asleep"} :
           session' = [session EXCEPT ![k] = v] /\ session[k] # "none"
    BY <1>4 DEF Progress, RunRemoteOnce, Redial
  <2>3. backoff' \in [Keys -> 0..MaxBackoff] /\ \A j \in Keys : backoff'[j] = 0 <=> backoff[j] = 0
    BY <1>4 DEF Progress, RunRemoteOnce, Redial, Inv, TypeOK, Closed
  <2>4. TypeOK'
    BY <1>1, <2>1, <2>2, <2>3 DEF Inv, TypeOK, Sessions
  <2>5. OneDialEach'
    BY <1>1, <2>1 DEF Inv, OneDialEach
  <2>6. TaskInv'
    BY <2>1, <2>2, <2>3 DEF Inv, TypeOK, TaskInv
  <2> QED BY <1>2, <2>4, <2>5, <2>6 DEF Inv
<1> QED BY <1>3, <1>4

(* The passing of time keeps the invariant.                                 *)
LEMMA TickStep == ASSUME Inv, Tick PROVE Inv'
<1> USE ClusterAssumption
<1>1. /\ timer \in Nat \ {0} /\ timer' = timer - 1
      /\ stale' = [k \in Keys |-> IF stale[k] = None THEN None ELSE stale[k] + 1]
      /\ quiet' = [h \in Hosts |-> IF h \in announced \/ quiet[h] >= StaleAfter THEN quiet[h] ELSE quiet[h] + 1]
      /\ UNCHANGED <<dialed, sources, running, backoff, session, announced, listed>>
  BY DEF Tick, Inv, TypeOK
<1>2. \A k \in Keys : stale'[k] # None => stale[k] # None /\ stale[k] \in Nat /\ stale'[k] = stale[k] + 1
  BY <1>1 DEF Inv, TypeOK
<1>3. \A k \in Keys : stale[k] # None => stale'[k] # None
  BY <1>1 DEF Inv, TypeOK, None
<1>4. TypeOK'
  <2>1. stale' \in [Keys -> Nat \cup {None}]
    BY <1>1 DEF Inv, TypeOK
  <2>2. quiet' \in [Hosts -> 0..StaleAfter]
    BY <1>1 DEF Inv, TypeOK
  <2> QED BY <1>1, <2>1, <2>2 DEF Inv, TypeOK
<1>5. OneDialEach' /\ WantedInv' /\ TaskInv'
  BY <1>1 DEF Inv, OneDialEach, WantedInv, TaskInv
<1>6. GossipInv'
  <2>1. ASSUME NEW k \in Keys, stale'[k] # None
        PROVE  "gossip" \in sources'[k] /\ stale'[k] + timer' <= StaleAfter + SweepInterval
    BY <1>1, <1>2, <2>1 DEF Inv, GossipInv
  <2>2. ASSUME NEW h \in Hosts, stale'[GossipKey(h)] # None
        PROVE  h \notin announced' /\ (quiet'[h] >= stale'[GossipKey(h)] \/ quiet'[h] >= StaleAfter)
    <3>1. GossipKey(h) \in Keys /\ quiet[h] \in Nat
      BY GossipKeys DEF Inv, TypeOK
    <3>2. /\ stale[GossipKey(h)] \in Nat /\ stale'[GossipKey(h)] = stale[GossipKey(h)] + 1
          /\ h \notin announced /\ (quiet[h] >= stale[GossipKey(h)] \/ quiet[h] >= StaleAfter)
      BY <1>2, <2>2, <3>1 DEF Inv, GossipInv
    <3> QED BY <1>1, <3>1, <3>2
  <2>3. \A h \in Hosts : stale[GossipKey(h)] = None => stale'[GossipKey(h)] = None
    BY <1>1, GossipKeys
  <2>4. \A h \in Hosts : stale[GossipKey(h)] # None => stale'[GossipKey(h)] # None
    BY <1>3, GossipKeys
  <2> QED BY <1>1, <2>1, <2>2, <2>3, <2>4 DEF Inv, GossipInv, Dialable, GossipKey
<1> QED BY <1>4, <1>5, <1>6 DEF Inv

(* Every step keeps the invariant.                                          *)
LEMMA InvStep == Inv /\ [Next]_vars => Inv'
<1> SUFFICES ASSUME Inv, [Next]_vars PROVE Inv'
  OBVIOUS
<1>1. CASE UNCHANGED vars
  BY <1>1 DEF vars, dialVars, Inv, TypeOK, OneDialEach, WantedInv, TaskInv, GossipInv, Dialable, GossipKey
<1> QED BY <1>1, AnnounceStep, UnannounceStep, SweepStep, ListStep, RemoteStep, TickStep DEF Next

(* One dial for each peer that some source wants, and none for the others.  *)
THEOREM DialsRight == Spec => []OneDialEach
<1>1. Inv => OneDialEach
  BY DEF Inv
<1> QED BY InvInit, InvStep, <1>1, PTL DEF Spec

(* Every source of a dial is what it says: a static peer, a peer of the     *)
(* last list, or a registration announced now or until at most a sweep      *)
(* interval over STALE_AFTER ago.                                           *)
THEOREM SourcesAreTrue == Spec => []SourcesTrue
<1>1. Inv => SourcesTrue
  BY InvSafe DEF Inv
<1> QED BY InvInit, InvStep, <1>1, PTL DEF Spec

(* Gossip lets a peer go only after all of STALE_AFTER.                     *)
THEOREM SweptInTime == Spec => NeverSweptEarly
<1>1. Inv /\ [Next]_vars =>
        [\A h \in Hosts : LET k == Key(Registered(h)) IN
            "gossip" \in sources[k] /\ "gossip" \notin sources'[k] =>
                h \notin announced /\ quiet[h] >= StaleAfter]_vars
  <2> SUFFICES ASSUME Inv, [Next]_vars, NEW h \in Hosts,
                      "gossip" \in sources[GossipKey(h)], "gossip" \notin sources'[GossipKey(h)]
               PROVE  h \notin announced /\ quiet[h] >= StaleAfter
    BY DEF GossipKey
  <2>1. GossipKey(h) \in Keys
    BY GossipKeys
  <2>2. Sweep
    <3>1. ASSUME NEW g \in Hosts, Announce(g) PROVE FALSE
      BY <2>1, <3>1 DEF Announce, AddSource, Insert, dialVars, Inv, TypeOK
    <3>2. ASSUME NEW g \in Hosts, Unannounce(g) PROVE FALSE
      BY <3>2 DEF Unannounce, MarkUnannounced, dialVars
    <3>3. ASSUME NEW L \in SUBSET Hosts, ApplyPeerList(L) PROVE FALSE
      BY <2>1, <3>3 DEF ApplyPeerList, Unlisted
    <3>4. CASE Tick \/ UNCHANGED vars
      BY <3>4 DEF Tick, vars, dialVars
    <3>5. ASSUME NEW k \in Keys, RejectUrl(k) \/ Progress(k) \/ RunRemoteOnce(k) \/ Redial(k)
          PROVE  FALSE
      BY <3>5 DEF RejectUrl, Progress, RunRemoteOnce, Redial
    <3> QED BY <3>1, <3>2, <3>3, <3>4, <3>5 DEF Next
  <2>3. GossipKey(h) \in Stale
    BY <2>1, <2>2 DEF Sweep, Release
  <2>4. stale[GossipKey(h)] # None /\ stale[GossipKey(h)] \in Nat /\ stale[GossipKey(h)] >= StaleAfter
    BY <2>1, <2>3 DEF Stale, Inv, TypeOK
  <2>5. quiet[h] \in Nat /\ h \notin announced /\ (quiet[h] >= stale[GossipKey(h)] \/ quiet[h] >= StaleAfter)
    BY <2>4 DEF Inv, GossipInv, TypeOK
  <2> QED BY <2>4, <2>5, ClusterAssumption
<1> QED BY InvInit, InvStep, <1>1, PTL DEF Spec, NeverSweptEarly

(* What the code does in place of StableResets: the delay before a redial   *)
(* does not fall while the task lives, however long its sessions last.      *)
BackoffNeverFalls ==
    [][\A k \in Keys : backoff[k] # 0 /\ backoff'[k] # 0 => backoff'[k] >= backoff[k]]_vars

(* No session of a peer, a stable one included, lowers the delay before the *)
(* next dial of the same task.                                              *)
THEOREM BackoffOnlyGrows == Spec => BackoffNeverFalls
<1>1. Inv /\ [Next]_vars =>
        [\A k \in Keys : backoff[k] # 0 /\ backoff'[k] # 0 => backoff'[k] >= backoff[k]]_vars
  <2> SUFFICES ASSUME Inv, [Next]_vars, NEW k \in Keys, backoff[k] # 0, backoff'[k] # 0
               PROVE  backoff'[k] >= backoff[k]
    OBVIOUS
  <2>1. backoff \in [Keys -> 0..MaxBackoff] /\ backoff[k] \in 1..MaxBackoff
    BY ClusterAssumption DEF Inv, TypeOK
  <2>0. \A j \in Keys : j \notin dialed => backoff[j] = 0
    BY DEF Inv, TaskInv, OneDialEach
  <2>2. ASSUME NEW h \in Hosts, Announce(h) PROVE backoff'[k] >= backoff[k]
    BY <2>0, <2>1, <2>2 DEF Announce, AddSource, Insert, dialVars
  <2>3. CASE UNCHANGED backoff
    BY <2>1, <2>3
  <2>4. CASE Sweep
    BY <2>1, <2>4 DEF Sweep, Release, Remove
  <2>5. ASSUME NEW L \in SUBSET Hosts, ApplyPeerList(L) PROVE backoff'[k] >= backoff[k]
    <3>1. \/ k \in L \ {Self} /\ k \notin dialed
          \/ backoff'[k] = 0
          \/ backoff'[k] = backoff[k]
      BY <2>5 DEF ApplyPeerList
    <3> QED BY <2>0, <2>1, <3>1
  <2>6. ASSUME NEW j \in Keys, RejectUrl(j) \/ RunRemoteOnce(j) PROVE backoff'[k] >= backoff[k]
    BY <2>1, <2>6, ClusterAssumption DEF RejectUrl, RunRemoteOnce, Closed
  <2> QED BY <2>2, <2>3, <2>4, <2>5, <2>6
       DEF Next, vars, dialVars, Unannounce, MarkUnannounced, Tick, Progress, Redial
<1> QED BY InvInit, InvStep, <1>1, PTL DEF Spec, BackoffNeverFalls

(* With bare host names for --cluster-node, gossip dials only relays that   *)
(* sort after this one, whatever has been announced and unannounced.        *)
THEOREM TiebreakHolds == ~FullUrl => (Spec => []OneSessionPerPair)
<1> SUFFICES ASSUME ~FullUrl PROVE Spec => []OneSessionPerPair
  OBVIOUS
<1>1. \A h \in Hosts : GossipKey(h) = h /\ (Dialable(h) => h > Self)
  BY ClusterAssumption DEF GossipKey, Key, Registered, Join, Address, Dialable, ShouldDial, Node
<1>2. Inv => OneSessionPerPair
  BY <1>1, GossipKeys DEF Inv, GossipInv, OneSessionPerPair, GossipKey
<1> QED BY InvInit, InvStep, <1>2, PTL DEF Spec

(* With URLs there is no tiebreak: every registration, this relay's own     *)
(* included, is dialed, and none under the address of a relay.              *)
THEOREM TiebreakLost ==
    FullUrl => \A h \in Hosts : ShouldDial(Node, Registered(h)) /\ Key(Registered(h)) \notin Hosts
BY ClusterAssumption DEF Key, Registered, Join, Address, ShouldDial, Node, Hosts
=============================================================================

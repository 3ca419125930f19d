------------------------------ MODULE Cluster ------------------------------
(***************************************************************************)
(* How one relay of a cluster keeps its dials (moq-relay/src/cluster.rs):  *)
(* the shared DialMap, fed by --cluster-connect, by the gossip that        *)
(* run_discovery reads and by the peer lists of --cluster-connect-api; the *)
(* sweep of stale peers; and run_remote, which redials with a backoff.     *)
(*                                                                         *)
(* Every handler is one action: the relay runs on a current-thread runtime *)
(* and none of them awaits between its first read of the map and its last  *)
(* write.  An Instant is kept as its age.                                  *)
(***************************************************************************)
EXTENDS Naturals, FiniteSets

CONSTANTS
    N,              \* relays; their hosts are 1..N in alphabetical order
    Self,           \* this one
    Connect,        \* the hosts of --cluster-connect
    Invalid,        \* the hosts whose address is no URL
    FullUrl,        \* whether --cluster-node is given as https://host, not as host
    StaleAfter,     \* STALE_AFTER, in ticks
    SweepInterval,  \* SWEEP_INTERVAL, in ticks
    MaxBackoff      \* in units of the base backoff, 1

ASSUME ClusterAssumption ==
    /\ N \in Nat \ {0} /\ Self \in 1..N /\ Connect \subseteq 1..N /\ Invalid \subseteq 1..N
    /\ FullUrl \in BOOLEAN
    /\ StaleAfter \in Nat /\ SweepInterval \in Nat \ {0} /\ MaxBackoff \in Nat \ {0}

Hosts == 1..N

-----------------------------------------------------------------------------
(* Addresses.  An address is a host after a number of slashes: none for a   *)
(* bare host, two after "https:".                                           *)

Address(h, full) == [host |-> h, slashes |-> IF full THEN 2 ELSE 0]

(* Path::join collapses the slashes of the node's URL to one.               *)
Join(a) == [a EXCEPT !.slashes = IF @ = 2 THEN 1 ELSE @]

(* should_dial compares strings: of two URLs that differ in their slashes   *)
(* the one with fewer is the larger, as a letter sorts after a slash.       *)
ShouldDial(self, peer) ==
    \/ peer.slashes = self.slashes /\ peer.host > self.host
    \/ peer.slashes # self.slashes /\ peer.slashes < self.slashes

(* canonicalize_peer_key.  What has no "://" is taken for a host, so that   *)
(* "https:/b" becomes https://https:/b/, the address of no relay.  An       *)
(* address that is no URL is its own key.                                   *)
Key(a) == IF a.slashes = 1 THEN N + a.host ELSE a.host

Keys == 1..(2 * N)

Node == Address(Self, FullUrl)

(* What run_discovery reads for the registration of a relay.                *)
Registered(h) == Join(Address(h, FullUrl))

VARIABLES
    dialed,     \* the keys of the DialMap
    sources,    \* DialEntry::sources
    stale,      \* the age of DialEntry::unannounced_at, -1 for None
    running,    \* the dial tasks of each key that have neither returned nor been aborted
    session,    \* what the task of the map's entry is doing
    backoff,    \* of that task, 0 for none
    announced,  \* the relays whose registration is announced
    listed,     \* the hosts of the last peer list, without this relay
    timer,      \* ticks until the next sweep
    quiet       \* ticks since each registration was last announced, at most StaleAfter

dialVars == <<dialed, sources, stale, running, session, backoff>>
vars == <<dialVars, announced, listed, timer, quiet>>

None == 0 - 1

-----------------------------------------------------------------------------
(* DialMap.                                                                 *)

(* insert, for the tasks that were just spawned for keys K.  An entry that  *)
(* is there gets the source, and its redundant task is aborted; every       *)
(* caller has looked for the entry in the same step, so that this branch    *)
(* is not taken on the relay's single thread.                               *)
Insert(K, source) ==
    LET fresh == K \ dialed IN
    /\ dialed' = dialed \cup K
    /\ sources' = [k \in Keys |-> IF k \in K THEN sources[k] \cup {source} ELSE sources[k]]
    /\ stale' = [k \in Keys |-> IF k \in fresh \/ (k \in K /\ source = "gossip")
                               THEN None ELSE stale[k]]
    /\ running' = [k \in Keys |-> IF k \in fresh THEN running[k] + 1 ELSE running[k]]
    /\ session' = [k \in Keys |-> IF k \in fresh THEN "dialing" ELSE session[k]]
    /\ backoff' = [k \in Keys |-> IF k \in fresh THEN 1 ELSE backoff[k]]

(* Mutant: the pending unannounce is kept.                                  *)
AddSourceKeepsStale(k) ==
    /\ sources' = [sources EXCEPT ![k] = @ \cup {"gossip"}]
    /\ UNCHANGED <<dialed, stale, running, session, backoff>>

(* add_source with DialSource::Gossip, which drops the pending unannounce.  *)
AddSource(k) ==
    /\ sources' = [sources EXCEPT ![k] = @ \cup {"gossip"}]
    /\ stale' = [stale EXCEPT ![k] = None]
    /\ UNCHANGED <<dialed, running, session, backoff>>

(* mark_unannounced.                                                        *)
MarkUnannounced(k) ==
    /\ stale' = IF k \in dialed /\ "gossip" \in sources[k] /\ stale[k] = None
                THEN [stale EXCEPT ![k] = 0] ELSE stale
    /\ UNCHANGED <<dialed, sources, running, session, backoff>>

(* Mutant: the dial that nothing wants any more is not aborted.             *)
LetGoKeepsTask(K) == running

(* The tasks that are left when those of K are aborted; to abort one that   *)
(* has returned changes nothing.                                            *)
LetGo(K) == [k \in Keys |-> IF k \in K /\ running[k] > 0 THEN running[k] - 1 ELSE running[k]]

(* The entries of K go, and with each its task.                             *)
Remove(K) ==
    /\ dialed' = dialed \ K
    /\ running' = LetGo(K)
    /\ session' = [k \in Keys |-> IF k \in K THEN "none" ELSE session[k]]
    /\ backoff' = [k \in Keys |-> IF k \in K THEN 0 ELSE backoff[k]]

(* Mutant: the dial is abandoned whoever else wants it.                     *)
ReleaseForAll(K, source) ==
    /\ sources' = [k \in Keys |-> IF k \in K THEN {} ELSE sources[k]]
    /\ Remove(K)

(* A source lets go of the keys K; the dials nothing else wants are aborted.*)
Release(K, source) ==
    /\ sources' = [k \in Keys |-> IF k \in K THEN sources[k] \ {source} ELSE sources[k]]
    /\ Remove({k \in K : sources[k] \subseteq {source}})

-----------------------------------------------------------------------------
(* Cluster::run dials the static peers and starts the other tasks.          *)
Init ==
    /\ dialed = Connect
    /\ sources = [k \in Keys |-> IF k \in Connect THEN {"static"} ELSE {}]
    /\ stale = [k \in Keys |-> None]
    /\ running = [k \in Keys |-> IF k \in Connect THEN 1 ELSE 0]
    /\ session = [k \in Keys |-> IF k \in Connect THEN "dialing" ELSE "none"]
    /\ backoff = [k \in Keys |-> IF k \in Connect THEN 1 ELSE 0]
    /\ announced = {} /\ listed = {}
    /\ timer = SweepInterval
    /\ quiet = [h \in Hosts |-> StaleAfter]

(* run_discovery reads an announce.  The consumer of the origin toggles, as *)
(* module Origin shows.                                                     *)
Announce(h) ==
    LET k == Key(Registered(h)) IN
    /\ h \notin announced
    /\ announced' = announced \cup {h}
    /\ IF ~ShouldDial(Node, Registered(h)) THEN UNCHANGED dialVars
       ELSE IF k \in dialed THEN AddSource(k)
       ELSE Insert({k}, "gossip")
    /\ quiet' = [quiet EXCEPT ![h] = 0]
    /\ UNCHANGED <<listed, timer>>

(* run_discovery reads an unannounce.                                       *)
Unannounce(h) ==
    /\ h \in announced
    /\ announced' = announced \ {h}
    /\ IF ShouldDial(Node, Registered(h)) THEN MarkUnannounced(Key(Registered(h)))
       ELSE UNCHANGED dialVars
    /\ UNCHANGED <<listed, timer, quiet>>

(* The entries whose unannounce has stuck.                                  *)
Stale == {k \in dialed : stale[k] # None /\ stale[k] >= StaleAfter}

(* sweep_stale at the tick of the interval.                                 *)
Sweep ==
    /\ timer = 0 /\ timer' = SweepInterval
    /\ Release(Stale, "gossip")
    /\ stale' = [k \in Keys |-> IF k \in Stale THEN None ELSE stale[k]]
    /\ UNCHANGED <<announced, listed, quiet>>

(* Mutant: a peer that is not listed any more is abandoned whoever else     *)
(* wants it.                                                                *)
UnlistedForAll(desired) == {k \in dialed \ desired : "api" \in sources[k]}

(* The entries reconcile_api removes.                                       *)
Unlisted(desired) == {k \in dialed \ desired : sources[k] = {"api"}}

(* apply_peer_list and reconcile_api: peers not listed any more are let go, *)
(* the dialed ones marked, the others dialed.                               *)
ApplyPeerList(L) ==
    LET desired == L \ {Self}
        fresh == desired \ dialed
        gone == Unlisted(desired) IN
    /\ listed' = desired
    /\ dialed' = (dialed \ gone) \cup desired
    /\ sources' = [k \in Keys |-> IF k \in gone THEN {}
                                  ELSE IF k \in desired THEN sources[k] \cup {"api"}
                                  ELSE sources[k] \ {"api"}]
    /\ running' = [k \in Keys |-> IF k \in fresh THEN running[k] + 1 ELSE LetGo(gone)[k]]
    /\ session' = [k \in Keys |-> IF k \in fresh THEN "dialing"
                                  ELSE IF k \in gone THEN "none" ELSE session[k]]
    /\ backoff' = [k \in Keys |-> IF k \in fresh THEN 1
                                  ELSE IF k \in gone THEN 0 ELSE backoff[k]]
    /\ stale' = [k \in Keys |-> IF k \in fresh THEN None ELSE stale[k]]
    /\ UNCHANGED <<announced, timer, quiet>>

-----------------------------------------------------------------------------
(* run_remote.                                                              *)

(* peer_url fails: the task returns at once and its entry stays.            *)
RejectUrl(k) ==
    /\ session[k] = "dialing" /\ k \in Invalid
    /\ running' = [running EXCEPT ![k] = @ - 1]
    /\ session' = [session EXCEPT ![k] = "none"]
    /\ backoff' = [backoff EXCEPT ![k] = 0]
    /\ UNCHANGED <<dialed, sources, stale, announced, listed, timer, quiet>>

(* The peer answers, and the session lasts for stable_threshold.            *)
Progress(k) ==
    /\ k \notin Invalid
    /\ \/ session[k] = "dialing" /\ session' = [session EXCEPT ![k] = "open"]
       \/ session[k] = "open" /\ session' = [session EXCEPT ![k] = "stable"]
    /\ UNCHANGED <<dialed, sources, stale, running, backoff, announced, listed, timer, quiet>>

(* Whether run_remote_once returns Ok: not when it cannot connect, and not  *)
(* when a session ends, as Session::closed only returns the error.          *)
Closed(k) == FALSE

(* An attempt to connect, or a session, ends and the task sleeps.           *)
RunRemoteOnce(k) ==
    /\ session[k] \in {"dialing", "open", "stable"} /\ k \notin Invalid
    /\ backoff' = [backoff EXCEPT ![k] =
                     IF Closed(k) /\ session[k] = "stable" THEN 1
                     ELSE IF 2 * @ < MaxBackoff THEN 2 * @ ELSE MaxBackoff]
    /\ session' = [session EXCEPT ![k] = "asleep"]
    /\ UNCHANGED <<dialed, sources, stale, running, announced, listed, timer, quiet>>

(* The backoff is over and the peer dialed again.                           *)
Redial(k) ==
    /\ session[k] = "asleep"
    /\ session' = [session EXCEPT ![k] = "dialing"]
    /\ UNCHANGED <<dialed, sources, stale, running, backoff, announced, listed, timer, quiet>>

(* Time passes; a sweep that is due comes first.                            *)
Tick ==
    /\ timer > 0 /\ timer' = timer - 1
    /\ stale' = [k \in Keys |-> IF stale[k] = None THEN None ELSE stale[k] + 1]
    /\ quiet' = [h \in Hosts |->
                   IF h \in announced \/ quiet[h] >= StaleAfter THEN quiet[h] ELSE quiet[h] + 1]
    /\ UNCHANGED <<dialed, sources, running, session, backoff, announced, listed>>

Next ==
    \/ \E h \in Hosts : Announce(h) \/ Unannounce(h)
    \/ Sweep \/ Tick
    \/ \E L \in SUBSET Hosts : ApplyPeerList(L)
    \/ \E k \in Keys : RejectUrl(k) \/ Progress(k) \/ RunRemoteOnce(k) \/ Redial(k)

Spec == Init /\ [][Next]_vars

(* A task that sleeps is woken by its timer; nothing else is promised: a    *)
(* peer may never answer and a session never end.                           *)
FairSpec == Spec /\ \A k \in Keys : WF_vars(Redial(k))

-----------------------------------------------------------------------------
Sessions == {"none", "dialing", "open", "stable", "asleep"}

TypeOK ==
    /\ dialed \subseteq Keys
    /\ sources \in [Keys -> SUBSET {"static", "gossip", "api"}]
    /\ stale \in [Keys -> Nat \cup {None}]
    /\ running \in [Keys -> Nat] /\ session \in [Keys -> Sessions]
    /\ backoff \in [Keys -> 0..MaxBackoff]
    /\ announced \subseteq Hosts /\ listed \subseteq Hosts
    /\ timer \in 0..SweepInterval /\ quiet \in [Hosts -> 0..StaleAfter]

(* A peer is in the map exactly while some source wants it, and has one     *)
(* dial task then and none otherwise, but that the task of an address that  *)
(* is no URL returns: no order of gossip, peer lists and sweeps leaks a     *)
(* task, dials a peer twice or drops a dial another source still wants.     *)
OneDialEach ==
    \A k \in Keys :
        /\ k \in dialed <=> sources[k] # {}
        /\ running[k] \in {0, 1}
        /\ running[k] = 1 => k \in dialed
        /\ k \in dialed \ Invalid => running[k] = 1

(* Every source is what it says: the static peers, the last list, and a     *)
(* registration that is announced or has been gone for less than a sweep    *)
(* interval over STALE_AFTER.                                               *)
SourcesTrue ==
    /\ \A k \in Keys : ("static" \in sources[k] <=> k \in Connect)
                       /\ ("api" \in sources[k] <=> k \in listed)
    /\ \A h \in Hosts : ShouldDial(Node, Registered(h)) =>
        LET k == Key(Registered(h)) IN
        /\ h \in announced => "gossip" \in sources[k] /\ stale[k] = None
        /\ h \notin announced /\ "gossip" \in sources[k] =>
             stale[k] \in 0..(StaleAfter + SweepInterval)

(* Gossip lets a peer go only after it has been unannounced for all of      *)
(* STALE_AFTER: an unannounce that is followed by an announce, however      *)
(* often it flaps, starts the clock anew.                                   *)
NeverSweptEarly ==
    [][\A h \in Hosts :
        LET k == Key(Registered(h)) IN
        "gossip" \in sources[k] /\ "gossip" \notin sources'[k] =>
            h \notin announced /\ quiet[h] >= StaleAfter]_vars

(* A static peer is dialed for ever: after every failure it is dialed       *)
(* again, whatever gossip and the peer lists say of it meanwhile            *)
(* (DialSource::Static: "Never released, so the dial retries forever").     *)
StaticRetriesForever ==
    \A k \in Connect \ Invalid : []<>(session[k] \in {"dialing", "open", "stable"})

(* A session that lasted stable_threshold resets the backoff: it is only    *)
(* those that are "shorter than this" that "keep backing off".              *)
StableResets ==
    [][\A k \in Keys : session[k] = "stable" /\ session'[k] = "asleep" => backoff'[k] = 1]_vars

(* The tiebreaker: gossip dials a relay only if its address sorts after     *)
(* this one's, so that of two relays one dials and none dials itself.       *)
OneSessionPerPair ==
    \A h \in Hosts : "gossip" \in sources[Key(Registered(h))] => h > Self
=============================================================================

----------------------------- MODULE Coalesce -----------------------------
(***************************************************************************)
(* The update queued for one path of one OriginConsumer (PendingUpdate and *)
(* OriginConsumerState in model/origin.rs).  There is at most one per      *)
(* path: announces and unannounces that the consumer has not seen yet      *)
(* collapse into it.                                                       *)
(***************************************************************************)
CONSTANT None   \* no broadcast

(* The map has no entry for the path.                                       *)
Nothing == [kind |-> "none", broadcast |-> None]
Announce(b) == [kind |-> "announce", broadcast |-> b]
Unannounce == [kind |-> "unannounce", broadcast |-> None]
UnannounceAnnounce(b) == [kind |-> "replace", broadcast |-> b]

(* The updates there can be for a set B of broadcasts.                      *)
PendingUpdate(B) ==
    {Nothing, Unannounce} \cup {Announce(b) : b \in B} \cup {UnannounceAnnounce(b) : b \in B}

(* Mutant: an announce cancels a queued unannounce, as the converse does.   *)
ApplyAnnounceCancels(u, b) ==
    CASE u.kind \in {"none", "announce"} -> Announce(b)
      [] u.kind = "unannounce" -> Nothing
      [] u.kind = "replace" -> UnannounceAnnounce(b)

ApplyAnnounce(u, b) ==
    IF u.kind \in {"none", "announce"} THEN Announce(b) ELSE UnannounceAnnounce(b)

(* Mutant: an announce that was never seen is unannounced all the same.     *)
ApplyUnannounceAlways(u) == Unannounce

(* An announce the consumer has not seen cancels out.                       *)
ApplyUnannounce(u) ==
    IF u.kind = "announce" THEN Nothing ELSE Unannounce

(* What take hands to the consumer, None for an unannounce ...              *)
Delivered(u) == IF u.kind = "announce" THEN u.broadcast ELSE None

(* ... and what it leaves queued.                                           *)
Rest(u) == IF u.kind = "replace" THEN Announce(u.broadcast) ELSE Nothing

(* What the consumer will know of the path once it has taken everything,    *)
(* if it knows b now.                                                       *)
Settled(u, b) == IF u.kind = "none" THEN b ELSE u.broadcast

=============================================================================

------------------------------ MODULE GroupLog ------------------------------
(***************************************************************************)
(* What a group promises its readers: an append-only log of frames, each   *)
(* of a size that is known when it is appended and of bytes that come      *)
(* later.  A reader is given every frame, in order, and goes on to the     *)
(* next only when it has all the bytes of the last.  A clean end comes     *)
(* only after the last frame of a sealed log, an error only if the log was *)
(* not sealed, and a reader is told that it fell behind only if there is a *)
(* frame it has not been given.                                            *)
(***************************************************************************)
EXTENDS Naturals, Sequences

CONSTANTS Readers, Streams

VARIABLES
    sizes,      \* the sizes of the frames appended
    filled,     \* the bytes of each that are there
    sealed,     \* no more frames will come
    position,   \* frames each reader was given whole
    partial,    \* bytes a stream was given of the next
    outcome     \* how the reading ended

vars == <<sizes, filled, sealed, position, partial, outcome>>

Init ==
    /\ sizes = <<>> /\ filled = <<>>
    /\ sealed = FALSE
    /\ position = [r \in Readers |-> 0]
    /\ partial = [r \in Readers |-> 0]
    /\ outcome = [r \in Readers |-> "none"]

AppendFrame ==
    /\ ~sealed
    /\ sizes' \in Seq(Nat) /\ Len(sizes') = Len(sizes) + 1
    /\ SubSeq(sizes', 1, Len(sizes)) = sizes
    /\ filled' = Append(filled, 0)
    /\ UNCHANGED <<sealed, position, partial, outcome>>

Fill(f) ==
    /\ ~sealed
    /\ \E n \in (filled[f] + 1)..sizes[f] : filled' = [filled EXCEPT ![f] = n]
    /\ UNCHANGED <<sizes, sealed, position, partial, outcome>>

Seal ==
    /\ ~sealed /\ filled = sizes
    /\ sealed' = TRUE
    /\ UNCHANGED <<sizes, filled, position, partial, outcome>>

(* A stream takes the bytes that are there.                                 *)
Take(r) ==
    LET f == position[r] + 1 IN
    /\ r \in Streams /\ outcome[r] = "none" /\ f <= Len(sizes)
    /\ partial[r] < filled[f]
    /\ partial' = [partial EXCEPT ![r] = filled[f]]
    /\ UNCHANGED <<sizes, filled, sealed, position, outcome>>

(* A reader is done with a frame.                                           *)
Advance(r) ==
    LET f == position[r] + 1 IN
    /\ outcome[r] = "none" /\ f <= Len(sizes)
    /\ filled[f] = sizes[f]
    /\ r \in Streams => partial[r] = sizes[f]
    /\ position' = [position EXCEPT ![r] = f]
    /\ partial' = [partial EXCEPT ![r] = 0]
    /\ UNCHANGED <<sizes, filled, sealed, outcome>>

Stop(r, how) ==
    /\ outcome[r] = "none"
    /\ how = "end" => sealed /\ position[r] = Len(sizes)
    /\ how = "error" => ~sealed
    /\ how = "full" => position[r] < Len(sizes)
    /\ outcome' = [outcome EXCEPT ![r] = how]
    /\ UNCHANGED <<sizes, filled, sealed, position, partial>>

Next ==
    \/ AppendFrame \/ Seal
    \/ \E f \in DOMAIN sizes : Fill(f)
    \/ \E r \in Readers :
        Take(r) \/ Advance(r) \/ \E how \in {"end", "error", "full"} : Stop(r, how)

Spec == Init /\ [][Next]_vars
=============================================================================

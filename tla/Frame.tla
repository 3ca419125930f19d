------------------------------- MODULE Frame -------------------------------
(***************************************************************************)
(* One frame of a group (model/frame.rs): a buffer of a size declared up   *)
(* front, a count of the bytes written that is stored outside the lock,    *)
(* and a kio channel that holds whether the frame is finished or aborted   *)
(* and on which readers sleep.  Bytes are told apart by their position.    *)
(*                                                                         *)
(* An action on the channel is one critical section; that a reader which   *)
(* sleeps is woken by every section that modifies the state is what module *)
(* Kio shows.                                                              *)
(***************************************************************************)
EXTENDS Naturals, Sequences, FiniteSets

CONSTANTS
    MaxFrames,      \* frames a group gets: the bound of the model
    MaxFrameSize,   \* MAX_FRAME_SIZE
    Readers

ASSUME FrameAssumption == MaxFrames \in Nat /\ MaxFrameSize \in Nat

VARIABLES
    size,       \* Frame::size of each frame created so far
    written,    \* FrameBufInner::written
    finished,   \* FrameState::fin
    broken,     \* FrameState::abort
    closed,     \* the frames whose channel is closed
    sleeping    \* the readers in the waiter list of each frame

frameVars == <<size, written, finished, broken, closed, sleeping>>

Frames == 1..MaxFrames
Created == Len(size)

FrameInit ==
    /\ size = <<>>
    /\ written = [f \in Frames |-> 0]
    /\ finished = {}
    /\ broken = {}
    /\ closed = {}
    /\ sleeping = [f \in Frames |-> {}]

FrameTypeOK ==
    /\ size \in Seq(0..MaxFrameSize) /\ Len(size) <= MaxFrames
    /\ written \in [Frames -> 0..MaxFrameSize]
    /\ finished \subseteq Frames /\ broken \subseteq Frames /\ closed \subseteq Frames
    /\ sleeping \in [Frames -> SUBSET Readers]

Remaining(f) == size[f] - written[f]

(* The first half of advance_mut: the count is stored without the lock.     *)
StoreWritten(f, n) ==
    /\ n <= Remaining(f)
    /\ written' = [written EXCEPT ![f] = @ + n]
    /\ UNCHANGED <<size, finished, broken, closed, sleeping>>

(* A section that sets fin on an open channel wakes the readers.            *)
SetFin(f) ==
    IF f \in closed
    THEN UNCHANGED frameVars
    ELSE /\ finished' = finished \cup {f}
         /\ sleeping' = [sleeping EXCEPT ![f] = {}]
         /\ UNCHANGED <<size, written, broken, closed>>

(* The second half of advance_mut: the lock is taken, and the state is      *)
(* modified, which is what wakes readers, only if the buffer is full.       *)
Notify(f) == IF Remaining(f) = 0 THEN SetFin(f) ELSE UNCHANGED frameVars

(* FrameProducer::finish after the size check.                              *)
FinishFrame(f) == Remaining(f) = 0 /\ SetFin(f)

(* FrameProducer::abort.                                                    *)
AbortFrame(f) ==
    IF f \in closed
    THEN UNCHANGED frameVars
    ELSE /\ broken' = broken \cup {f}
         /\ closed' = closed \cup {f}
         /\ sleeping' = [sleeping EXCEPT ![f] = {}]
         /\ UNCHANGED <<size, written, finished>>

(* The last FrameProducer of each of these frames is dropped.               *)
CloseFrames(S) ==
    /\ closed' = closed \cup S
    /\ sleeping' = [f \in Frames |-> IF f \in S THEN {} ELSE sleeping[f]]
    /\ UNCHANGED <<size, written, finished, broken>>

(* Mutant: fin is looked at before the bytes.                               *)
PollChunkFinFirst(f, i) ==
    IF f \in finished THEN "end"
    ELSE IF written[f] > i THEN "bytes"
    ELSE IF f \in broken \cup closed THEN "error"
    ELSE "pending"

(* The predicate of poll_read_chunk at position i: bytes before fin, fin    *)
(* before the error, the error or else the closed channel.                  *)
PollChunk(f, i) ==
    IF written[f] > i THEN "bytes"
    ELSE IF f \in finished THEN "end"
    ELSE IF f \in broken \cup closed THEN "error"
    ELSE "pending"

(* The predicate of poll_read_all.                                          *)
PollAll(f) ==
    IF f \in finished THEN "bytes"
    ELSE IF f \in broken \cup closed THEN "error"
    ELSE "pending"

Sleep(r, f) ==
    /\ sleeping' = [sleeping EXCEPT ![f] = @ \cup {r}]
    /\ UNCHANGED <<size, written, finished, broken, closed>>
=============================================================================

------------------------------- MODULE Group -------------------------------
(***************************************************************************)
(* A group (model/group.rs): the deque of its cached frames, written by    *)
(* one task and read by many.  The writer is the task that receives a      *)
(* group from the wire (recv_group, run_group and run_frame in             *)
(* lite/subscriber.rs), which may be cancelled or dropped at any await.    *)
(* The track's cache holds a second GroupProducer, which it drops when it  *)
(* evicts the group.  Streams read chunk by chunk as serve_group in        *)
(* lite/publisher.rs does; the other readers call read_frame.              *)
(***************************************************************************)
EXTENDS Frame

CONSTANTS
    MaxGroupCache,   \* MAX_GROUP_CACHE
    MaxGroupFrames,  \* MAX_GROUP_FRAMES
    Streams          \* the readers that read by chunks

ASSUME GroupAssumption ==
    /\ MaxGroupCache \in Nat /\ MaxFrameSize <= MaxGroupCache
    /\ MaxGroupFrames \in Nat \ {0}
    /\ Streams \subseteq Readers

VARIABLES
    frames,     \* GroupState::frames
    offset,     \* GroupState::offset
    cache,      \* GroupState::cache
    fin,        \* GroupState::fin
    abort,      \* GroupState::abort
    shut,       \* whether the group's channel is closed
    waiting,    \* the readers in its waiter list
    wpc,        \* where the writer is
    handle,     \* the two GroupProducers: held, past the is_last check, gone
    index,      \* GroupConsumer::index
    reading,    \* the frame a reader holds a FrameConsumer of, 0 if none
    read_idx,   \* FrameConsumer::read_idx
    outcome     \* how the reader ended

stateVars == <<frames, offset, cache, fin, abort, shut, waiting>>
readerVars == <<index, reading, read_idx, outcome>>
vars == <<frameVars, stateVars, wpc, handle, readerVars>>

Handles == {"writer", "track"}

Init ==
    /\ FrameInit
    /\ frames = <<>> /\ offset = 0 /\ cache = 0
    /\ fin = FALSE /\ abort = FALSE /\ shut = FALSE
    /\ waiting = {}
    /\ wpc = "header"
    /\ handle = [h \in Handles |-> "held"]
    /\ index = [r \in Readers |-> 0]
    /\ reading = [r \in Readers |-> 0]
    /\ read_idx = [r \in Readers |-> 0]
    /\ outcome = [r \in Readers |-> "none"]

-----------------------------------------------------------------------------
(* The writer.  The frame it holds is the last one created.                 *)

Current == Created

Cached == {frames[i] : i \in DOMAIN frames}

SizeOf(s, sizes) ==
    LET sum[i \in 0..Len(s)] == IF i = 0 THEN 0 ELSE sum[i - 1] + sizes[s[i]]
    IN  sum[Len(s)]

(* Mutant: the new frame is not counted.                                    *)
FitsWithoutNew(s, n, k) ==
    /\ cache + n - SizeOf(SubSeq(s, 1, k), Append(size, n)) <= MaxGroupCache
    /\ Len(s) - k <= MaxGroupFrames + 1

(* The condition of evict's loop, negated: within both limits once k frames *)
(* of s are popped, where the last frame of s has n bytes.                  *)
Fits(s, n, k) ==
    /\ cache + n - SizeOf(SubSeq(s, 1, k), Append(size, n)) <= MaxGroupCache
    /\ Len(s) - k <= MaxGroupFrames

(* append_frame of the frame just created, of n bytes, with evict.          *)
AppendFrame(n) ==
    LET s == Append(frames, Created + 1) IN
    \E k \in 0..Len(s) :
        /\ k = Len(s) \/ Fits(s, n, k)
        /\ \A j \in 0..(k - 1) : ~Fits(s, n, j)
        /\ frames' = SubSeq(s, k + 1, Len(s))
        /\ offset' = offset + k
        /\ cache' = cache + n - SizeOf(SubSeq(s, 1, k), Append(size, n))
        /\ waiting' = {}
        /\ UNCHANGED <<fin, abort, shut>>

(* run_group has decoded a size: create_frame, whose evict drops the last   *)
(* FrameProducer of what it pops; without a byte to wait for, run_frame     *)
(* returns at once.                                                         *)
RecvSize(n) ==
    /\ wpc = "header" /\ Created < MaxFrames /\ n <= MaxFrameSize
    /\ size' = Append(size, n)
    /\ AppendFrame(n)
    /\ LET popped == Cached \ Cached' IN
       /\ closed' = closed \cup popped
       /\ sleeping' = [f \in Frames |-> IF f \in popped THEN {} ELSE sleeping[f]]
    /\ wpc' = IF n = 0 THEN "finish" ELSE "frame"
    /\ UNCHANGED <<written, finished, broken, handle, readerVars>>

(* run_group fails (a size above MAX_FRAME_SIZE, a stream error) or is      *)
(* cancelled between two frames.                                            *)
HeaderError ==
    /\ wpc = "header"
    /\ wpc' = "abort"
    /\ UNCHANGED <<frameVars, stateVars, handle, readerVars>>

(* Mutant: finish sets fin without waking anybody.                          *)
RecvFinSilent ==
    /\ wpc = "header"
    /\ fin' = TRUE /\ UNCHANGED waiting
    /\ wpc' = "drop"
    /\ UNCHANGED <<frameVars, frames, offset, cache, abort, shut, handle, readerVars>>

(* The stream ends between two frames: run_group returns, group.finish.     *)
RecvFin ==
    /\ wpc = "header"
    /\ fin' = TRUE /\ waiting' = {}
    /\ wpc' = "drop"
    /\ UNCHANGED <<frameVars, frames, offset, cache, abort, shut, handle, readerVars>>

(* read_buf puts n bytes in the frame: advance_mut, in two steps.           *)
RecvChunk(n) ==
    /\ wpc = "frame" /\ n > 0
    /\ StoreWritten(Current, n)
    /\ wpc' = "stored"
    /\ UNCHANGED <<stateVars, handle, readerVars>>

Stored ==
    /\ wpc = "stored"
    /\ Notify(Current)
    /\ wpc' = IF Remaining(Current) = 0 THEN "finish" ELSE "frame"
    /\ UNCHANGED <<stateVars, handle, readerVars>>

(* The rest of run_group's round: frame.finish.                             *)
FrameDone ==
    /\ wpc = "finish"
    /\ FinishFrame(Current)
    /\ wpc' = "header"
    /\ UNCHANGED <<stateVars, handle, readerVars>>

(* run_frame fails: frame.abort.                                            *)
FrameError ==
    /\ wpc = "frame"
    /\ AbortFrame(Current)
    /\ wpc' = "abort"
    /\ UNCHANGED <<stateVars, handle, readerVars>>

(* track.closed wins the select of recv_group inside a frame: run_group is  *)
(* dropped, and the frame is left to the cache.                             *)
Cancelled ==
    /\ wpc = "frame"
    /\ wpc' = "abort"
    /\ UNCHANGED <<frameVars, stateVars, handle, readerVars>>

(* The whole task is dropped with its session.                              *)
Quit ==
    /\ wpc \in {"header", "frame"}
    /\ wpc' = "drop"
    /\ UNCHANGED <<frameVars, stateVars, handle, readerVars>>

(* Mutant: abort leaves the cached frames.                                  *)
AbortKeepsFrames ==
    /\ wpc = "abort"
    /\ abort' = TRUE /\ shut' = TRUE /\ waiting' = {}
    /\ wpc' = "drop"
    /\ UNCHANGED <<frameVars, frames, cache, offset, fin, handle, readerVars>>

(* GroupProducer::abort by recv_group.                                      *)
Abort ==
    /\ wpc = "abort"
    /\ abort' = TRUE /\ shut' = TRUE /\ waiting' = {}
    /\ frames' = <<>> /\ cache' = 0
    /\ CloseFrames(Cached)
    /\ wpc' = "drop"
    /\ UNCHANGED <<offset, fin, handle, readerVars>>

-----------------------------------------------------------------------------
(* The two GroupProducers go.                                               *)

IsLast(h) == \A g \in Handles \ {h} : handle[g] = "gone"

MayDrop(h) == h = "writer" => wpc = "drop"

(* Drop for GroupProducer: the last one clears the cache of an unfinished   *)
(* group.                                                                   *)
DropChecks(h) ==
    /\ MayDrop(h) /\ handle[h] = "held"
    /\ handle' = [handle EXCEPT ![h] = "checked"]
    /\ IF IsLast(h) /\ ~shut /\ ~fin
       THEN /\ frames' = <<>> /\ cache' = 0 /\ waiting' = {}
            /\ CloseFrames(Cached)
       ELSE UNCHANGED <<frameVars, frames, cache, waiting>>
    /\ UNCHANGED <<offset, fin, abort, shut, wpc, readerVars>>

(* Then the kio producer it holds goes, and the last one closes.            *)
DropEnds(h) ==
    /\ handle[h] = "checked"
    /\ handle' = [handle EXCEPT ![h] = "gone"]
    /\ IF IsLast(h)
       THEN shut' = TRUE /\ waiting' = {}
       ELSE UNCHANGED <<shut, waiting>>
    /\ UNCHANGED <<frameVars, frames, offset, cache, fin, abort, wpc, readerVars>>

-----------------------------------------------------------------------------
(* The readers.                                                             *)

Asleep(r) == r \in waiting \/ \E f \in Frames : r \in sleeping[f]

Running(r) == outcome[r] = "none" /\ ~Asleep(r)

(* GroupConsumer::poll of poll_get_frame.                                   *)
PollGetFrame(i) ==
    IF i < offset THEN "full"
    ELSE IF i - offset < Len(frames) THEN "frame"
    ELSE IF fin THEN "end"
    ELSE IF abort \/ shut THEN "error"
    ELSE "pending"

(* next_frame, and the first half of read_frame, which counts the frame     *)
(* only when it has been read.                                              *)
GetFrame(r) ==
    LET poll == PollGetFrame(index[r]) IN
    /\ Running(r) /\ reading[r] = 0
    /\ IF poll = "frame"
       THEN /\ reading' = [reading EXCEPT ![r] = frames[index[r] - offset + 1]]
            /\ read_idx' = [read_idx EXCEPT ![r] = 0]
            /\ index' = [index EXCEPT ![r] = @ + IF r \in Streams THEN 1 ELSE 0]
       ELSE UNCHANGED <<reading, read_idx, index>>
    /\ waiting' = IF poll = "pending" THEN waiting \cup {r} ELSE waiting
    /\ outcome' = IF poll \in {"full", "end", "error"}
                  THEN [outcome EXCEPT ![r] = poll] ELSE outcome
    /\ UNCHANGED <<frameVars, frames, offset, cache, fin, abort, shut, wpc, handle>>

(* read_chunk on the frame.                                                 *)
ReadChunk(r) ==
    LET f == reading[r]
        poll == PollChunk(f, read_idx[r]) IN
    /\ r \in Streams /\ Running(r) /\ f # 0
    /\ read_idx' = IF poll = "bytes" THEN [read_idx EXCEPT ![r] = written[f]] ELSE read_idx
    /\ reading' = IF poll = "end" THEN [reading EXCEPT ![r] = 0] ELSE reading
    /\ outcome' = IF poll = "error" THEN [outcome EXCEPT ![r] = poll] ELSE outcome
    /\ IF poll = "pending" THEN Sleep(r, f) ELSE UNCHANGED frameVars
    /\ UNCHANGED <<stateVars, wpc, handle, index>>

(* The second half of poll_read_frame; a reader that sleeps has dropped the *)
(* FrameConsumer and starts over when it is woken.                          *)
ReadAll(r) ==
    LET f == reading[r]
        poll == PollAll(f) IN
    /\ r \notin Streams /\ Running(r) /\ f # 0
    /\ index' = IF poll = "bytes" THEN [index EXCEPT ![r] = @ + 1] ELSE index
    /\ reading' = [reading EXCEPT ![r] = 0]
    /\ outcome' = IF poll = "error" THEN [outcome EXCEPT ![r] = poll] ELSE outcome
    /\ IF poll = "pending" THEN Sleep(r, f) ELSE UNCHANGED frameVars
    /\ UNCHANGED <<stateVars, wpc, handle, read_idx>>

-----------------------------------------------------------------------------
WriterNext ==
    \/ \E n \in 0..MaxFrameSize : RecvSize(n) \/ RecvChunk(n)
    \/ HeaderError \/ RecvFin \/ Stored \/ FrameDone
    \/ FrameError \/ Cancelled \/ Quit \/ Abort

ReaderNext(r) == GetFrame(r) \/ ReadChunk(r) \/ ReadAll(r)

Next ==
    \/ WriterNext
    \/ \E h \in Handles : DropChecks(h) \/ DropEnds(h)
    \/ \E r \in Readers : ReaderNext(r)

Spec == Init /\ [][Next]_vars

(* A reader that is woken runs: the executor polls it.  Nothing is assumed  *)
(* of the writer, which waits for the network.                              *)
FairSpec == Spec /\ \A r \in Readers : WF_vars(ReaderNext(r))

-----------------------------------------------------------------------------
TypeOK ==
    /\ FrameTypeOK
    /\ frames \in Seq(Frames) /\ offset \in Nat /\ cache \in 0..MaxGroupCache
    /\ {fin, abort, shut} \subseteq BOOLEAN
    /\ waiting \subseteq Readers
    /\ wpc \in {"header", "frame", "stored", "finish", "abort", "drop"}
    /\ handle \in [Handles -> {"held", "checked", "gone"}]
    /\ index \in [Readers -> 0..MaxFrames]
    /\ reading \in [Readers -> 0..MaxFrames]
    /\ read_idx \in [Readers -> 0..MaxFrameSize]
    /\ outcome \in [Readers -> {"none", "end", "error", "full"}]

(* A live group caches a run of consecutive frames that ends with the       *)
(* newest, within both limits, and cache is their exact size: the counter   *)
(* that append_frame, evict, abort and drop each adjust by hand never       *)
(* drifts.  The newest frame is never evicted, whatever its size.           *)
CacheExact ==
    /\ cache = SizeOf(frames, size)
    /\ cache <= MaxGroupCache /\ Len(frames) <= MaxGroupFrames
    /\ \A i \in 1..Len(frames) : frames[i] = offset + i
    /\ frames # <<>> => frames[Len(frames)] = Created
    /\ offset < Created \/ Created = 0

(* A reader asleep in the group's or a frame's waiter list has nothing to   *)
(* wake up for but bytes of an unfinished frame: no notification that       *)
(* append_frame, finish, abort, close or the last byte owes it is missed.   *)
NoSleeperLeftBehind ==
    \A r \in Readers :
        /\ r \in waiting => PollGetFrame(index[r]) = "pending"
        /\ \A f \in Frames : r \in sleeping[f] => PollAll(f) = "pending"

(* Every group that is finished, aborted, or dropped with its cache         *)
(* cleared, lets go of every reader.                                        *)
EveryReaderEnds ==
    \A r \in Readers :
        (fin \/ abort \/ (shut /\ frames = <<>>)) ~> outcome[r] # "none"

(* How far a reader is in the log: next_frame counts a frame when it hands  *)
(* out the FrameConsumer and read_frame when it has its bytes, the log when *)
(* the last byte was given.                                                 *)
InFrame(r) == r \in Streams /\ reading[r] # 0

Filled == [f \in 1..Created |-> written[f]]
Given == [r \in Readers |-> IF InFrame(r) THEN index[r] - 1 ELSE index[r]]
Taken == [r \in Readers |-> IF InFrame(r) THEN read_idx[r] ELSE 0]

Log == INSTANCE GroupLog WITH
    sizes <- size, filled <- Filled, sealed <- fin,
    position <- Given, partial <- Taken, outcome <- outcome

(* A group is the log GroupLog describes: read_chunk, read_frame and        *)
(* next_frame, whatever the writer, evict and the two drops do in between,  *)
(* give each reader every frame whole and in order, a clean end only after  *)
(* the last frame of a finished group, an error only from one that never    *)
(* was.                                                                     *)
ImplementsLog == Log!Spec

=============================================================================

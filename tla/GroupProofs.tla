---------------------------- MODULE GroupProofs ----------------------------
(***************************************************************************)
(* Theorems about groups, for any limits, sizes and sets of readers: that  *)
(* a group implements the log of module GroupLog and that no reader sleeps *)
(* through an event it waits for, for any prefix of the deque that evict   *)
(* may pop; then that evict pops just enough, and cache is exact.          *)
(***************************************************************************)
EXTENDS Group, WellFoundedInduction, TLAPS

Types ==
    /\ size \in Seq(Nat) /\ Len(size) <= MaxFrames
    /\ written \in [Frames -> Nat]
    /\ sleeping \in [Frames -> SUBSET Readers]
    /\ frames \in Seq(Nat) /\ offset \in Nat
    /\ fin \in BOOLEAN /\ abort \in BOOLEAN /\ shut \in BOOLEAN
    /\ waiting \subseteq Readers
    /\ wpc \in {"header", "frame", "stored", "finish", "abort", "drop"}
    /\ handle \in [Handles -> {"held", "checked", "gone"}]
    /\ index \in [Readers -> Nat]
    /\ reading \in [Readers -> Nat]
    /\ read_idx \in [Readers -> Nat]
    /\ outcome \in [Readers -> {"none", "end", "error", "full"}]

Writing == wpc \in {"frame", "stored", "finish"}

(* Every frame but the one being written is finished as long as the writer  *)
(* goes on, and a frame that is finished has all its bytes.                 *)
WriterInv ==
    /\ finished \subseteq 1..Created /\ broken \subseteq closed /\ closed \subseteq 1..Created
    /\ \A f \in finished : written[f] = size[f]
    /\ \A f \in Frames : IF f <= Created THEN written[f] <= size[f] ELSE written[f] = 0
    /\ Writing => Created >= 1 /\ Created \notin closed /\ 1..(Created - 1) \subseteq finished
    /\ wpc = "header" \/ fin => 1..Created \subseteq finished
    /\ fin => wpc = "drop"
    /\ wpc = "finish" => written[Created] = size[Created]
    /\ handle["writer"] # "held" => wpc = "drop"

(* The deque is a run of consecutive frames, up to the newest until it is   *)
(* cleared.                                                                 *)
CacheInv ==
    /\ \A i \in 1..Len(frames) : frames[i] = offset + i
    /\ offset + Len(frames) <= Created
    /\ wpc = "header" \/ Writing \/ fin => offset + Len(frames) = Created

(* Where a reader is in the log.                                            *)
ReaderInv ==
    \A r \in Readers :
        /\ index[r] <= Created
        /\ reading[r] # 0 =>
            /\ reading[r] <= Created
            /\ reading[r] = IF r \in Streams THEN index[r] ELSE index[r] + 1
            /\ r \in Streams => read_idx[r] <= written[reading[r]]

Inv == Types /\ WriterInv /\ CacheInv /\ ReaderInv

-----------------------------------------------------------------------------
(* create_frame with evict: whatever prefix of the deque is popped, what is *)
(* left is a run of frames that ends with the new one.                      *)
LEMMA AppendKeepsRun ==
    ASSUME Types, CacheInv, NEW n \in 0..MaxFrameSize, RecvSize(n)
    PROVE  /\ frames' \in Seq(Nat) /\ offset' \in Nat
           /\ size' \in Seq(Nat) /\ Len(size') = Len(size) + 1 /\ Len(size') <= MaxFrames
           /\ size'[Len(size) + 1] = n
           /\ \A f \in 1..Len(size) : size'[f] = size[f]
           /\ \A i \in 1..Len(frames') : frames'[i] = offset' + i
           /\ offset' + Len(frames') = Len(size')
           /\ waiting' = {} /\ fin' = fin /\ abort' = abort /\ shut' = shut
<1> DEFINE s == Append(frames, Created + 1)
<1> USE FrameAssumption
<1>1. /\ size' = Append(size, n) /\ Created < MaxFrames /\ wpc = "header"
      /\ n \in Nat /\ Created \in Nat /\ MaxFrames \in Nat
  BY DEF RecvSize, Types, Created
<1>2. /\ size' \in Seq(Nat) /\ Len(size') = Len(size) + 1 /\ Len(size') <= MaxFrames
      /\ size'[Len(size) + 1] = n
      /\ \A f \in 1..Len(size) : size'[f] = size[f]
  BY <1>1 DEF Types, Created
<1>3. PICK k \in 0..Len(s) :
        /\ frames' = SubSeq(s, k + 1, Len(s)) /\ offset' = offset + k
        /\ waiting' = {} /\ UNCHANGED <<fin, abort, shut>>
  BY DEF RecvSize, AppendFrame
<1>4. /\ s \in Seq(Nat) /\ Len(s) = Len(frames) + 1
      /\ offset + Len(s) = Created + 1
      /\ \A i \in 1..Len(s) : s[i] = offset + i
  <2>1. frames \in Seq(Nat) /\ Created + 1 \in Nat /\ offset \in Nat
    BY <1>1 DEF Types
  <2>2. offset + Len(frames) = Created /\ \A i \in 1..Len(frames) : frames[i] = offset + i
    BY <1>1 DEF CacheInv
  <2>3. s \in Seq(Nat) /\ Len(s) = Len(frames) + 1 /\ s[Len(frames) + 1] = Created + 1
    BY <2>1
  <2>4. \A i \in 1..Len(frames) : s[i] = frames[i]
    BY <2>1
  <2> QED  BY <2>1, <2>2, <2>3, <2>4
<1> HIDE DEF s
<1>5. frames' \in Seq(Nat) /\ offset' \in Nat /\ Len(frames') = Len(s) - k
  BY <1>3, <1>4 DEF Types
<1>6. \A i \in 1..Len(frames') : frames'[i] = s[k + i]
  BY <1>3, <1>4, <1>5
<1>7. \A i \in 1..Len(frames') : k + i \in 1..Len(s)
  BY <1>3, <1>4, <1>5
<1>8. \A i \in 1..Len(frames') : frames'[i] = offset' + i
  BY <1>3, <1>4, <1>5, <1>6, <1>7 DEF Types
<1>9. offset' + Len(frames') = Len(size')
  <2>1. offset \in Nat /\ k \in Nat /\ Len(s) \in Nat /\ Len(size) \in Nat
    BY <1>1, <1>3, <1>4 DEF Types, Created
  <2>2. offset + Len(s) = Len(size) + 1
    BY <1>4 DEF Created
  <2>3. offset' + Len(frames') = (offset + k) + (Len(s) - k)
    BY <1>3, <1>5
  <2>4. (offset + k) + (Len(s) - k) = Len(size) + 1
    BY <2>1, <2>2
  <2> QED  BY <1>2, <2>3, <2>4
<1> QED  BY <1>2, <1>3, <1>5, <1>8, <1>9

(* A step keeps every variable in its range.                                *)
LEMMA TypesStep == Types /\ CacheInv /\ ReaderInv /\ [Next]_vars => Types'
<1> SUFFICES ASSUME Types, CacheInv, ReaderInv, [Next]_vars PROVE Types'
  OBVIOUS
<1> USE DEF Types, stateVars, readerVars, frameVars, Handles
<1>1. CASE UNCHANGED vars
  BY <1>1 DEF vars
<1>2. ASSUME NEW n \in 0..MaxFrameSize, RecvSize(n) PROVE Types'
  <2>1. /\ frames' \in Seq(Nat) /\ offset' \in Nat /\ size' \in Seq(Nat)
        /\ Len(size') <= MaxFrames /\ waiting' = {}
        /\ fin' = fin /\ abort' = abort /\ shut' = shut
    BY <1>2, AppendKeepsRun
  <2>2. /\ sleeping' \in [Frames -> SUBSET Readers] /\ written' \in [Frames -> Nat]
        /\ wpc' \in {"finish", "frame"} /\ UNCHANGED <<handle, readerVars>>
    BY <1>2 DEF RecvSize
  <2> QED  BY <2>1, <2>2
<1>3. ASSUME NEW n \in 0..MaxFrameSize, RecvChunk(n) PROVE Types'
  <2> HIDE DEF Types
  <2>1. n \in Nat  BY FrameAssumption
  <2>2. written \in [Frames -> Nat]  BY DEF Types
  <2>3. written' = [written EXCEPT ![Current] = @ + n]
    BY <1>3 DEF RecvChunk, StoreWritten
  <2>4. \A f \in Frames : written'[f] \in Nat
    BY <2>1, <2>2, <2>3
  <2>5. written' \in [Frames -> Nat]
    BY <2>2, <2>3, <2>4
  <2> USE DEF Types
  <2> QED  BY <1>3, <2>5 DEF RecvChunk, StoreWritten
<1>4. CASE HeaderError \/ RecvFin \/ Cancelled \/ Quit
  BY <1>4 DEF HeaderError, RecvFin, Cancelled, Quit
<1>5. CASE Stored
  BY <1>5 DEF Stored, Notify, SetFin
<1>6. CASE FrameDone
  BY <1>6 DEF FrameDone, FinishFrame, SetFin
<1>7. CASE FrameError
  BY <1>7 DEF FrameError, AbortFrame
<1>8. CASE Abort
  BY <1>8 DEF Abort, CloseFrames
<1>9. ASSUME NEW h \in Handles, DropChecks(h) PROVE Types'
  <2>1. handle' \in [Handles -> {"held", "checked", "gone"}]
    BY <1>9 DEF DropChecks
  <2>2. UNCHANGED <<offset, fin, abort, shut, wpc, readerVars>>
    BY <1>9 DEF DropChecks
  <2>3. CASE frames' = <<>> /\ waiting' = {} /\ CloseFrames(Cached)
    BY <2>1, <2>2, <2>3 DEF CloseFrames
  <2>4. CASE UNCHANGED <<frameVars, frames, cache, waiting>>
    BY <2>1, <2>2, <2>4
  <2> QED  BY <1>9, <2>3, <2>4 DEF DropChecks
<1>10. ASSUME NEW h \in Handles, DropEnds(h) PROVE Types'
  BY <1>10 DEF DropEnds
<1>11. ASSUME NEW r \in Readers, GetFrame(r) PROVE Types'
  <2> HIDE DEF Types
  <2>1. /\ index \in [Readers -> Nat] /\ reading \in [Readers -> Nat]
        /\ read_idx \in [Readers -> Nat] /\ frames \in Seq(Nat) /\ offset \in Nat
        /\ outcome \in [Readers -> {"none", "end", "error", "full"}]
    BY DEF Types
  <2>2. PollGetFrame(index[r]) = "frame" => frames[index[r] - offset + 1] \in Nat
    BY <2>1 DEF PollGetFrame
  <2>3. reading' \in [Readers -> Nat]
    BY <1>11, <2>1, <2>2 DEF GetFrame
  <2>4. index' \in [Readers -> Nat] /\ read_idx' \in [Readers -> Nat]
    BY <1>11, <2>1 DEF GetFrame
  <2>5. outcome' \in [Readers -> {"none", "end", "error", "full"}]
    BY <1>11, <2>1 DEF GetFrame
  <2>6. waiting' \subseteq Readers
    BY <1>11 DEF GetFrame, Types
  <2> QED  BY <1>11, <2>3, <2>4, <2>5, <2>6 DEF GetFrame, Types
<1>12. ASSUME NEW r \in Readers, ReadChunk(r) PROVE Types'
  <2> HIDE DEF Types
  <2>1. /\ reading \in [Readers -> Nat] /\ read_idx \in [Readers -> Nat]
        /\ written \in [Frames -> Nat] /\ sleeping \in [Frames -> SUBSET Readers]
        /\ outcome \in [Readers -> {"none", "end", "error", "full"}]
    BY DEF Types
  <2>2. reading' \in [Readers -> Nat] /\ outcome' \in [Readers -> {"none", "end", "error", "full"}]
    BY <1>12, <2>1 DEF ReadChunk
  <2>3. sleeping' \in [Frames -> SUBSET Readers]
    BY <1>12, <2>1 DEF ReadChunk, Sleep
  <2>4. written[reading[r]] \in Nat
    BY <1>12, FrameAssumption, <2>1 DEF ReadChunk, ReaderInv, Types, Frames, Created
  <2>5. read_idx' \in [Readers -> Nat]
    BY <1>12, <2>1, <2>4 DEF ReadChunk
  <2> QED  BY <1>12, <2>2, <2>3, <2>5 DEF ReadChunk, Sleep, Types
<1>13. ASSUME NEW r \in Readers, ReadAll(r) PROVE Types'
  <2> HIDE DEF Types
  <2>1. /\ index \in [Readers -> Nat] /\ reading \in [Readers -> Nat]
        /\ sleeping \in [Frames -> SUBSET Readers]
        /\ outcome \in [Readers -> {"none", "end", "error", "full"}]
    BY DEF Types
  <2>2. reading' \in [Readers -> Nat] /\ index' \in [Readers -> Nat]
    BY <1>13, <2>1 DEF ReadAll
  <2>3. outcome' \in [Readers -> {"none", "end", "error", "full"}]
    BY <1>13, <2>1 DEF ReadAll
  <2>4. sleeping' \in [Frames -> SUBSET Readers]
    BY <1>13, <2>1 DEF ReadAll, Sleep
  <2> QED  BY <1>13, <2>2, <2>3, <2>4 DEF ReadAll, Sleep, Types
<1> QED
  BY <1>1, <1>2, <1>3, <1>4, <1>5, <1>6, <1>7, <1>8, <1>9, <1>10, <1>11, <1>12, <1>13
  DEF Next, WriterNext, ReaderNext

(* The numbers the next proofs reckon with.                                 *)
LEMMA Numbers ==
    ASSUME Types
    PROVE  /\ MaxFrames \in Nat /\ Created \in Nat /\ Created <= MaxFrames
           /\ Len(frames) \in Nat /\ offset \in Nat
           /\ \A f \in 1..Created : f \in Frames /\ size[f] \in Nat
           /\ \A f \in Frames : f \in Nat /\ written[f] \in Nat
BY FrameAssumption DEF Types, Created, Frames

(* What is cached was created.                                              *)
LEMMA CachedCreated ==
    ASSUME Types, CacheInv
    PROVE  Cached \subseteq 1..Created
<1>1. frames \in Seq(Nat) /\ offset \in Nat /\ Len(frames) \in Nat /\ Created \in Nat
  BY DEF Types, Created
<1>2. \A i \in 1..Len(frames) : frames[i] \in 1..Created
  BY <1>1 DEF CacheInv
<1>3. DOMAIN frames = 1..Len(frames)  BY <1>1
<1> QED  BY <1>2, <1>3 DEF Cached

(* The writer finishes each frame before the next, and the group after the  *)
(* last.                                                                    *)
LEMMA WriterStep == Types /\ CacheInv /\ WriterInv /\ [Next]_vars => WriterInv'
<1> SUFFICES ASSUME Types, CacheInv, WriterInv, [Next]_vars PROVE WriterInv'
  OBVIOUS
<1>N. /\ MaxFrames \in Nat /\ Created \in Nat /\ Created <= MaxFrames
      /\ \A f \in 1..Created : f \in Frames /\ size[f] \in Nat
      /\ \A f \in Frames : f \in Nat /\ written[f] \in Nat
  BY Numbers
<1>1. ASSUME UNCHANGED <<size, written, finished, broken, closed, wpc, fin, handle>>
      PROVE  WriterInv'
  BY <1>1 DEF WriterInv, Writing, Created
<1>2. ASSUME NEW n \in 0..MaxFrameSize, RecvSize(n) PROVE WriterInv'
  <2>1. /\ Created' = Created + 1 /\ Created' <= MaxFrames
        /\ size'[Created + 1] = n /\ fin' = fin
        /\ \A f \in 1..Created : size'[f] = size[f]
    BY <1>2, AppendKeepsRun DEF Created
  <2>2. /\ wpc = "header" /\ wpc' = (IF n = 0 THEN "finish" ELSE "frame")
        /\ UNCHANGED <<written, finished, broken, handle>>
        /\ closed \subseteq closed' /\ closed' \subseteq closed \cup Cached
    BY <1>2 DEF RecvSize
  <2>3. Cached \subseteq 1..Created  BY CachedCreated
  <2>4. 1..Created \subseteq finished /\ finished \subseteq 1..Created /\ fin = FALSE
    BY <2>2 DEF WriterInv, Types
  <2>5. /\ finished' \subseteq 1..Created' /\ broken' \subseteq closed'
        /\ closed' \subseteq 1..Created /\ closed' \subseteq 1..Created'
    BY <1>N, <2>1, <2>2, <2>3 DEF WriterInv
  <2>6. \A f \in finished' : written'[f] = size'[f]
    BY <2>1, <2>2, <2>4 DEF WriterInv
  <2>7. n \in Nat  BY FrameAssumption
  <2>8. Created + 1 \in Frames /\ written[Created + 1] = 0
    BY <1>N, <2>1 DEF WriterInv, Frames
  <2>9. \A f \in Frames : IF f <= Created' THEN written'[f] <= size'[f] ELSE written'[f] = 0
    <3> SUFFICES ASSUME NEW f \in Frames
                 PROVE  IF f <= Created' THEN written'[f] <= size'[f] ELSE written'[f] = 0
      OBVIOUS
    <3>1. CASE f = Created + 1
      BY <1>N, <2>1, <2>2, <2>7, <2>8, <3>1
    <3>2. CASE f <= Created
      <4>1. f \in 1..Created  BY <1>N, <3>2 DEF Frames
      <4> QED  BY <1>N, <2>1, <2>2, <3>2, <4>1 DEF WriterInv
    <3>3. CASE f > Created + 1
      BY <1>N, <2>1, <2>2, <3>3 DEF WriterInv
    <3> QED  BY <1>N, <3>1, <3>2, <3>3
  <2>10. Created' >= 1 /\ Created' \notin closed' /\ 1..(Created' - 1) \subseteq finished'
    BY <1>N, <2>1, <2>2, <2>4, <2>5
  <2>11. wpc' = "finish" => written'[Created'] = size'[Created']
    BY <2>1, <2>2, <2>8
  <2>12. wpc' # "header" /\ ~fin' /\ (handle'["writer"] # "held" => wpc' = "drop")
    BY <2>1, <2>2, <2>4 DEF WriterInv
  <2> QED  BY <2>5, <2>6, <2>9, <2>10, <2>11, <2>12 DEF WriterInv
<1>3. ASSUME NEW n \in 0..MaxFrameSize, RecvChunk(n) PROVE WriterInv'
  <2>1. /\ wpc = "frame" /\ wpc' = "stored" /\ n > 0 /\ n \in Nat
        /\ n <= size[Created] - written[Created]
        /\ written' = [written EXCEPT ![Created] = @ + n]
        /\ UNCHANGED <<size, finished, broken, closed, fin, handle>>
    BY <1>3, FrameAssumption DEF RecvChunk, StoreWritten, Remaining, Current, stateVars
  <2>2. Created' = Created  BY <2>1 DEF Created
  <2>3. Created >= 1 /\ Created \in Frames /\ size[Created] \in Nat /\ written[Created] \in Nat
    BY <1>N, <2>1 DEF WriterInv, Writing
  <2>4. Created \notin finished
    <3>1. Created \in finished => written[Created] = size[Created]
      BY DEF WriterInv
    <3> QED  BY <2>1, <2>3, <3>1
  <2>5. /\ \A f \in Frames : f # Created => written'[f] = written[f]
        /\ written'[Created] = written[Created] + n
    BY <2>1, <2>3 DEF Types
  <2>6. \A f \in finished' : written'[f] = size'[f]
    BY <1>N, <2>1, <2>4, <2>5 DEF WriterInv
  <2>7. \A f \in Frames : IF f <= Created' THEN written'[f] <= size'[f] ELSE written'[f] = 0
    BY <1>N, <2>1, <2>2, <2>3, <2>5 DEF WriterInv
  <2> QED  BY <2>1, <2>2, <2>6, <2>7 DEF WriterInv, Writing
<1>4. CASE HeaderError \/ RecvFin \/ Cancelled \/ Quit
  <2>1. /\ wpc \in {"header", "frame"} /\ wpc' \in {"abort", "drop"}
        /\ UNCHANGED <<size, written, finished, broken, closed, handle>>
        /\ fin' # fin => wpc = "header" /\ wpc' = "drop"
    <3>1. CASE HeaderError \/ Cancelled \/ Quit
      <4>1. /\ wpc \in {"header", "frame"} /\ wpc' \in {"abort", "drop"}
            /\ UNCHANGED frameVars /\ UNCHANGED stateVars /\ UNCHANGED handle
        BY <3>1 DEF HeaderError, Cancelled, Quit
      <4>2. UNCHANGED <<size, written, finished, broken, closed>>  BY <4>1 DEF frameVars
      <4>3. fin' = fin  BY <4>1 DEF stateVars
      <4> QED  BY <4>1, <4>2, <4>3
    <3>2. CASE RecvFin  BY <3>2 DEF RecvFin, frameVars
    <3> QED  BY <1>4, <3>1, <3>2
  <2>2. fin = FALSE /\ handle["writer"] = "held"
    BY <2>1 DEF WriterInv, Types
  <2> QED  BY <2>1, <2>2 DEF WriterInv, Writing, Created
<1>5. CASE Stored \/ FrameDone
  <2>1. /\ wpc \in {"stored", "finish"} /\ fin' = fin
        /\ UNCHANGED <<size, written, broken, closed, handle>>
    BY <1>5 DEF Stored, FrameDone, Notify, FinishFrame, SetFin, frameVars, stateVars
  <2>2. Created \in 1..Created /\ Created \notin closed /\ fin = FALSE /\ Created' = Created
    BY <1>N, <2>1 DEF WriterInv, Writing, Types, Created
  <2>3. /\ size[Created] - written[Created] = 0 <=> written[Created] = size[Created]
    BY <1>N, <2>2
  <2>4. \/ /\ finished' = finished \cup {Created} /\ written[Created] = size[Created]
           /\ wpc' \in {"finish", "header"}
        \/ finished' = finished /\ wpc' = "frame"
    BY <1>5, <2>2, <2>3
    DEF Stored, FrameDone, Notify, FinishFrame, SetFin, Remaining, Current, frameVars
  <2>5. \A f \in finished' : written'[f] = size'[f]
    BY <2>1, <2>4 DEF WriterInv
  <2>6. finished' \subseteq 1..Created /\ 1..(Created - 1) \subseteq finished'
    BY <2>1, <2>2, <2>4 DEF WriterInv, Writing
  <2>7. wpc' = "header" => 1..Created \subseteq finished'
    BY <1>N, <2>2, <2>4, <2>6
  <2>8. wpc' = "finish" => written'[Created'] = size'[Created']
    BY <2>1, <2>2, <2>4
  <2>9. wpc' \in {"finish", "header", "frame"} /\ handle'["writer"] = "held" /\ ~fin'
    BY <2>1, <2>2, <2>4 DEF WriterInv
  <2>10. \A f \in Frames : IF f <= Created' THEN written'[f] <= size'[f] ELSE written'[f] = 0
    BY <2>1, <2>2 DEF WriterInv
  <2>11. Created' >= 1 /\ Created' \notin closed' /\ closed' \subseteq 1..Created' /\ broken' \subseteq closed'
    BY <1>N, <2>1, <2>2 DEF WriterInv
  <2> QED  BY <2>2, <2>5, <2>6, <2>7, <2>8, <2>9, <2>10, <2>11 DEF WriterInv
<1>6. CASE FrameError
  <2>1. /\ wpc = "frame" /\ wpc' = "abort"
        /\ UNCHANGED <<size, written, finished, fin, handle>>
        /\ \/ broken' = broken \cup {Created} /\ closed' = closed \cup {Created}
           \/ UNCHANGED <<broken, closed>>
    BY <1>6 DEF FrameError, AbortFrame, Current, frameVars, stateVars
  <2>2. Created \in 1..Created /\ fin = FALSE /\ handle["writer"] = "held" /\ Created' = Created
    BY <1>N, <2>1 DEF WriterInv, Writing, Types, Created
  <2> QED  BY <2>1, <2>2 DEF WriterInv, Writing
<1>7. CASE Abort
  <2>1. /\ wpc = "abort" /\ wpc' = "drop"
        /\ closed' = closed \cup Cached
        /\ UNCHANGED <<size, written, finished, broken, fin, handle>>
    BY <1>7 DEF Abort, CloseFrames
  <2>2. fin = FALSE /\ Created' = Created
    BY <2>1 DEF WriterInv, Types, Created
  <2> QED  BY <2>1, <2>2, CachedCreated DEF WriterInv, Writing
<1>8. ASSUME NEW h \in Handles, DropChecks(h) PROVE WriterInv'
  <2>1. /\ handle[h] = "held" /\ (h = "writer" => wpc = "drop")
        /\ handle' = [handle EXCEPT ![h] = "checked"]
        /\ UNCHANGED <<size, written, finished, broken, fin, wpc>>
        /\ closed' # closed => IsLast(h) /\ closed' = closed \cup Cached
    <3>1. /\ handle[h] = "held" /\ (h = "writer" => wpc = "drop")
          /\ handle' = [handle EXCEPT ![h] = "checked"] /\ UNCHANGED <<fin, wpc>>
      BY <1>8 DEF DropChecks, MayDrop
    <3>2. CASE IsLast(h) /\ ~shut /\ ~fin
      <4>1. CloseFrames(Cached)  BY <1>8, <3>2 DEF DropChecks
      <4> QED  BY <3>1, <3>2, <4>1 DEF CloseFrames
    <3>3. CASE ~(IsLast(h) /\ ~shut /\ ~fin)
      <4>1. UNCHANGED frameVars  BY <1>8, <3>3 DEF DropChecks
      <4>2. UNCHANGED <<size, written, finished, broken, closed>>  BY <4>1 DEF frameVars
      <4> QED  BY <3>1, <4>2
    <3> QED  BY <3>2, <3>3
  <2>2. handle'["writer"] # "held" => wpc' = "drop"
    BY <2>1 DEF WriterInv, Types
  <2>3. Created' = Created  BY <2>1 DEF Created
  <2>4. closed' # closed => wpc = "drop"
    BY <2>1 DEF IsLast, Handles, WriterInv
  <2>5. closed' \subseteq 1..Created /\ broken' \subseteq closed'
    BY <2>1, CachedCreated DEF WriterInv
  <2>6. Writing => closed' = closed
    BY <2>4 DEF Writing
  <2> QED  BY <2>1, <2>2, <2>3, <2>5, <2>6 DEF WriterInv, Writing
<1>9. ASSUME NEW h \in Handles, DropEnds(h) PROVE WriterInv'
  <2>1. /\ handle[h] = "checked" /\ handle' = [handle EXCEPT ![h] = "gone"]
        /\ UNCHANGED <<size, written, finished, broken, closed, fin, wpc>>
    BY <1>9 DEF DropEnds, frameVars
  <2>2. handle'["writer"] # "held" => wpc' = "drop"
    BY <2>1 DEF WriterInv, Types
  <2> QED  BY <2>1, <2>2 DEF WriterInv, Writing, Created
<1>10. ASSUME NEW r \in Readers, ReaderNext(r) PROVE WriterInv'
  BY <1>1, <1>10 DEF ReaderNext, GetFrame, ReadChunk, ReadAll, Sleep, frameVars, stateVars
<1>11. CASE UNCHANGED vars
  BY <1>1, <1>11 DEF vars, frameVars, stateVars
<1> QED
  BY <1>2, <1>3, <1>4, <1>5, <1>6, <1>7, <1>8, <1>9, <1>10, <1>11 DEF Next, WriterNext

(* The deque stays a run of frames that ends with the newest, until abort   *)
(* or the last drop clears it.                                              *)
LEMMA CacheStep == Types /\ CacheInv /\ WriterInv /\ [Next]_vars => CacheInv'
<1> SUFFICES ASSUME Types, CacheInv, WriterInv, [Next]_vars PROVE CacheInv'
  OBVIOUS
<1> DEFINE Whole == wpc = "header" \/ Writing \/ fin
<1>1. ASSUME UNCHANGED <<size, frames, offset>>, Whole' => Whole
      PROVE  CacheInv'
  BY <1>1 DEF CacheInv, Created, Writing
<1>2. ASSUME NEW n \in 0..MaxFrameSize, RecvSize(n) PROVE CacheInv'
  <2>1. /\ \A i \in 1..Len(frames') : frames'[i] = offset' + i
        /\ offset' + Len(frames') = Len(size')
        /\ frames' \in Seq(Nat) /\ offset' \in Nat
    BY <1>2, AppendKeepsRun
  <2>2. offset' + Len(frames') \in Nat
    BY <2>1
  <2> QED  BY <2>1, <2>2 DEF CacheInv, Created
<1>3. ASSUME frames' = <<>>, UNCHANGED <<size, offset>>, ~Whole' PROVE CacheInv'
  <2>1. offset \in Nat /\ Len(frames) \in Nat /\ Created \in Nat
    BY Numbers
  <2>2. offset <= Created
    BY <2>1 DEF CacheInv
  <2>3. Len(frames') = 0 /\ Created' = Created /\ offset' = offset
    BY <1>3 DEF Created
  <2> QED  BY <1>3, <2>1, <2>2, <2>3 DEF CacheInv, Writing
<1>4. ASSUME NEW n \in 0..MaxFrameSize, RecvChunk(n) PROVE CacheInv'
  BY <1>1, <1>4 DEF RecvChunk, StoreWritten, stateVars, Writing
<1>5. CASE HeaderError \/ Cancelled \/ Quit
  <2>1. /\ UNCHANGED <<size, frames, offset, fin>>
        /\ wpc' \in {"abort", "drop"}
    BY <1>5 DEF HeaderError, Cancelled, Quit, frameVars, stateVars
  <2> QED  BY <1>1, <2>1 DEF Writing
<1>6. CASE RecvFin
  BY <1>1, <1>6 DEF RecvFin, frameVars
<1>7. CASE Stored \/ FrameDone
  <2>1. UNCHANGED <<size, frames, offset>> /\ wpc \in {"stored", "finish"}
    BY <1>7 DEF Stored, FrameDone, Notify, FinishFrame, SetFin, frameVars, stateVars
  <2> QED  BY <1>1, <2>1 DEF Writing
<1>8. CASE FrameError
  BY <1>1, <1>8 DEF FrameError, AbortFrame, frameVars, stateVars, Writing
<1>9. CASE Abort
  <2>1. wpc = "abort" /\ wpc' = "drop" /\ fin' = fin /\ frames' = <<>> /\ UNCHANGED <<size, offset>>
    BY <1>9 DEF Abort, CloseFrames
  <2>2. fin' = FALSE
    BY <2>1 DEF WriterInv, Types
  <2> QED  BY <1>3, <2>1, <2>2 DEF Writing
<1>10. ASSUME NEW h \in Handles, DropChecks(h) PROVE CacheInv'
  <2>1. CASE IsLast(h) /\ ~shut /\ ~fin
    <3>1. frames' = <<>> /\ UNCHANGED <<size, offset, wpc, fin>>
      BY <1>10, <2>1 DEF DropChecks, CloseFrames
    <3>2. wpc = "drop"
      BY <1>10, <2>1 DEF DropChecks, MayDrop, IsLast, Handles, WriterInv
    <3> QED  BY <1>3, <2>1, <3>1, <3>2 DEF Writing
  <2>2. CASE ~(IsLast(h) /\ ~shut /\ ~fin)
    <3>1. UNCHANGED frameVars /\ UNCHANGED <<frames, offset, wpc, fin>>
      BY <1>10, <2>2 DEF DropChecks
    <3>2. UNCHANGED size  BY <3>1 DEF frameVars
    <3> QED  BY <1>1, <3>1, <3>2 DEF Writing
  <2> QED  BY <2>1, <2>2
<1>11. ASSUME NEW h \in Handles, DropEnds(h) PROVE CacheInv'
  BY <1>1, <1>11 DEF DropEnds, frameVars, Writing
<1>12. ASSUME NEW r \in Readers, ReaderNext(r) PROVE CacheInv'
  BY <1>1, <1>12 DEF ReaderNext, GetFrame, ReadChunk, ReadAll, Sleep, frameVars, stateVars, Writing
<1>13. CASE UNCHANGED vars
  BY <1>1, <1>13 DEF vars, frameVars, stateVars, Writing
<1> QED
  BY <1>2, <1>4, <1>5, <1>6, <1>7, <1>8, <1>9, <1>10, <1>11, <1>12, <1>13
  DEF Next, WriterNext

(* What poll_get_frame hands out is the frame after the reader's index.     *)
LEMMA FrameAtIndex ==
    ASSUME Types, CacheInv, NEW i \in Nat, PollGetFrame(i) = "frame"
    PROVE  frames[i - offset + 1] = i + 1 /\ i + 1 <= Created
<1>1. /\ offset \in Nat /\ Len(frames) \in Nat /\ Created \in Nat
  BY Numbers
<1>2. ~(i < offset) /\ i - offset < Len(frames)
  BY DEF PollGetFrame
<1>3. i - offset + 1 \in 1..Len(frames)
  BY <1>1, <1>2
<1>4. frames[i - offset + 1] = offset + (i - offset + 1)
  BY <1>3 DEF CacheInv
<1>5. offset + Len(frames) <= Created
  BY DEF CacheInv
<1> QED  BY <1>1, <1>2, <1>4, <1>5

(* The readers stay within the log, and a stream within the bytes written.  *)
LEMMA ReaderStep == Inv /\ [Next]_vars => ReaderInv'
<1> SUFFICES ASSUME Types, CacheInv, WriterInv, ReaderInv, [Next]_vars PROVE ReaderInv'
  BY DEF Inv
<1>N. /\ MaxFrames \in Nat /\ Created \in Nat /\ Created <= MaxFrames
      /\ \A f \in Frames : f \in Nat /\ written[f] \in Nat
      /\ \A f \in 1..Created : f \in Frames
  BY Numbers
<1>T. /\ index \in [Readers -> Nat] /\ reading \in [Readers -> Nat]
      /\ read_idx \in [Readers -> Nat] /\ written \in [Frames -> Nat]
  BY DEF Types
<1>1. ASSUME UNCHANGED readerVars, Created' \in Nat, Created <= Created',
             \A f \in 1..Created : written'[f] \in Nat /\ written[f] <= written'[f]
      PROVE  ReaderInv'
  <2> SUFFICES ASSUME NEW r \in Readers
               PROVE  /\ index[r] <= Created'
                      /\ reading[r] # 0 =>
                          /\ reading[r] <= Created'
                          /\ reading[r] = IF r \in Streams THEN index[r] ELSE index[r] + 1
                          /\ r \in Streams => read_idx[r] <= written'[reading[r]]
    BY <1>1 DEF ReaderInv, readerVars
  <2>1. /\ index[r] <= Created /\ index[r] \in Nat /\ reading[r] \in Nat /\ read_idx[r] \in Nat
        /\ reading[r] # 0 =>
            /\ reading[r] <= Created
            /\ reading[r] = IF r \in Streams THEN index[r] ELSE index[r] + 1
            /\ r \in Streams => read_idx[r] <= written[reading[r]]
    BY <1>T DEF ReaderInv
  <2>2. index[r] <= Created' /\ (reading[r] # 0 => reading[r] <= Created')
    BY <1>N, <1>1, <2>1
  <2>3. reading[r] # 0 /\ r \in Streams => read_idx[r] <= written'[reading[r]]
    <3> SUFFICES ASSUME reading[r] # 0, r \in Streams PROVE read_idx[r] <= written'[reading[r]]
      OBVIOUS
    <3>1. reading[r] \in 1..Created  BY <1>N, <2>1
    <3>2. /\ written[reading[r]] \in Nat /\ written'[reading[r]] \in Nat
          /\ written[reading[r]] <= written'[reading[r]] /\ read_idx[r] <= written[reading[r]]
      BY <1>N, <1>1, <2>1, <3>1
    <3> QED  BY <2>1, <3>2
  <2> QED  BY <2>1, <2>2, <2>3
<1>2. ASSUME NEW n \in 0..MaxFrameSize, RecvSize(n) PROVE ReaderInv'
  <2>1. Created' = Created + 1  BY <1>2, AppendKeepsRun DEF Created
  <2>2. UNCHANGED readerVars /\ written' = written  BY <1>2 DEF RecvSize
  <2> QED  BY <1>N, <1>1, <2>1, <2>2
<1>3. ASSUME NEW n \in 0..MaxFrameSize, RecvChunk(n) PROVE ReaderInv'
  <2>1. /\ written' = [written EXCEPT ![Created] = @ + n] /\ UNCHANGED size /\ UNCHANGED readerVars
    BY <1>3 DEF RecvChunk, StoreWritten, Current
  <2>2. n \in Nat  BY FrameAssumption
  <2>3. \A f \in 1..Created : written'[f] \in Nat /\ written[f] <= written'[f]
    BY <1>N, <1>T, <2>1, <2>2
  <2>4. Created' = Created  BY <2>1 DEF Created
  <2> QED  BY <1>N, <1>1, <2>1, <2>3, <2>4
<1>4. ASSUME UNCHANGED <<size, written>>, UNCHANGED readerVars PROVE ReaderInv'
  <2>1. Created' = Created /\ written' = written  BY <1>4 DEF Created
  <2> QED  BY <1>N, <1>1, <1>4, <2>1
<1>5. CASE HeaderError \/ RecvFin \/ Cancelled \/ Quit
  BY <1>4, <1>5 DEF HeaderError, RecvFin, Cancelled, Quit, frameVars
<1>6. CASE Stored \/ FrameDone \/ FrameError \/ Abort
  BY <1>4, <1>6 DEF Stored, FrameDone, FrameError, Abort, Notify, FinishFrame, SetFin,
                    AbortFrame, CloseFrames, frameVars
<1>7. ASSUME NEW h \in Handles, DropChecks(h) \/ DropEnds(h) PROVE ReaderInv'
  BY <1>4, <1>7 DEF DropChecks, DropEnds, CloseFrames, frameVars
<1>8. ASSUME NEW r \in Readers, GetFrame(r) PROVE ReaderInv'
  <2>1. Created' = Created /\ written' = written
    BY <1>8 DEF GetFrame, frameVars, Created
  <2>2. \A q \in Readers : q # r =>
          index'[q] = index[q] /\ reading'[q] = reading[q] /\ read_idx'[q] = read_idx[q]
    BY <1>8, <1>T DEF GetFrame
  <2>3. CASE PollGetFrame(index[r]) = "frame"
    <3>1. frames[index[r] - offset + 1] = index[r] + 1 /\ index[r] + 1 <= Created
      BY <2>3, <1>T, FrameAtIndex
    <3>2. /\ reading'[r] = index[r] + 1 /\ read_idx'[r] = 0
          /\ index'[r] = IF r \in Streams THEN index[r] + 1 ELSE index[r]
      BY <1>8, <2>3, <1>T, <3>1 DEF GetFrame
    <3>3. index[r] + 1 \in 1..Created /\ index[r] \in Nat
      BY <1>N, <1>T, <3>1
    <3>4. 0 <= written[index[r] + 1]
      BY <1>N, <3>3
    <3>5. /\ index'[r] <= Created /\ reading'[r] <= Created
          /\ reading'[r] = IF r \in Streams THEN index'[r] ELSE index'[r] + 1
          /\ read_idx'[r] <= written[reading'[r]]
      BY <1>N, <3>1, <3>2, <3>3, <3>4
    <3> QED  BY <2>1, <2>2, <3>5 DEF ReaderInv
  <2>4. CASE PollGetFrame(index[r]) # "frame"
    BY <1>4, <1>8, <2>4 DEF GetFrame, frameVars, readerVars, ReaderInv, Created
  <2> QED  BY <2>3, <2>4
<1>9. ASSUME NEW r \in Readers, ReadChunk(r) PROVE ReaderInv'
  <2>1. Created' = Created /\ written' = written /\ index' = index
    BY <1>9 DEF ReadChunk, Sleep, frameVars, Created
  <2>2. /\ \A q \in Readers : q # r => reading'[q] = reading[q] /\ read_idx'[q] = read_idx[q]
        /\ reading'[r] \in {reading[r], 0}
        /\ read_idx'[r] \in {read_idx[r], written[reading[r]]}
    BY <1>9, <1>T DEF ReadChunk
  <2>3. reading[r] # 0 /\ reading[r] \in 1..Created
    BY <1>9, <1>N, <1>T DEF ReadChunk, ReaderInv
  <2>4. written[reading[r]] \in Nat
    BY <1>N, <2>3
  <2>5. reading'[r] # 0 /\ r \in Streams => read_idx'[r] <= written[reading'[r]]
    BY <2>2, <2>3, <2>4 DEF ReaderInv
  <2> QED  BY <2>1, <2>2, <2>5 DEF ReaderInv
<1>10. ASSUME NEW r \in Readers, ReadAll(r) PROVE ReaderInv'
  <2>1. Created' = Created /\ written' = written /\ read_idx' = read_idx
    BY <1>10 DEF ReadAll, Sleep, frameVars, Created
  <2>2. /\ \A q \in Readers : q # r => reading'[q] = reading[q] /\ index'[q] = index[q]
        /\ reading'[r] = 0 /\ index'[r] \in {index[r], index[r] + 1}
    BY <1>10, <1>T DEF ReadAll
  <2>3. index[r] + 1 <= Created /\ index[r] <= Created
    BY <1>10 DEF ReadAll, ReaderInv
  <2> QED  BY <2>1, <2>2, <2>3 DEF ReaderInv
<1>11. CASE UNCHANGED vars
  BY <1>4, <1>11 DEF vars, frameVars
<1> QED
  BY <1>2, <1>3, <1>5, <1>6, <1>7, <1>8, <1>9, <1>10, <1>11 DEF Next, WriterNext, ReaderNext

(* A group starts with nothing written and nobody reading.                  *)
LEMMA InvInit == Init => Inv
<1> SUFFICES ASSUME Init PROVE Inv
  OBVIOUS
<1> USE FrameAssumption DEF Init, FrameInit
<1>1. size = <<>> /\ Created = 0 /\ frames = <<>> /\ Len(frames) = 0
  BY DEF Created
<1>2. Types
  <2>1. size \in Seq(Nat) /\ Len(size) <= MaxFrames /\ frames \in Seq(Nat) /\ offset \in Nat
    BY <1>1 DEF Created
  <2>2. written \in [Frames -> Nat] /\ sleeping \in [Frames -> SUBSET Readers]
    OBVIOUS
  <2>3. handle \in [Handles -> {"held", "checked", "gone"}]
    OBVIOUS
  <2>4. /\ index \in [Readers -> Nat] /\ reading \in [Readers -> Nat] /\ read_idx \in [Readers -> Nat]
        /\ outcome \in [Readers -> {"none", "end", "error", "full"}]
    OBVIOUS
  <2> QED  BY <2>1, <2>2, <2>3, <2>4 DEF Types
<1>3. WriterInv
  BY <1>1 DEF WriterInv, Writing, Frames, Handles
<1>4. CacheInv
  BY <1>1 DEF CacheInv
<1>5. ReaderInv
  BY <1>1 DEF ReaderInv
<1> QED  BY <1>2, <1>3, <1>4, <1>5 DEF Inv

(* Every step keeps what the four lemmas say.                               *)
LEMMA InvStep == Inv /\ [Next]_vars => Inv'
BY TypesStep, WriterStep, CacheStep, ReaderStep DEF Inv

(* What the writer, the cache and the readers agree on, in every state.     *)
THEOREM GroupInvariant == Spec => []Inv
<1>1. Init => Inv  BY InvInit
<1>2. Inv /\ [Next]_vars => Inv'  BY InvStep
<1> QED  BY <1>1, <1>2, PTL DEF Spec

-----------------------------------------------------------------------------
GroupSleepers == \A r \in waiting : PollGetFrame(index[r]) = "pending"
FrameSleepers == \A f \in Frames : sleeping[f] # {} => PollAll(f) = "pending"

(* Every section that gives a sleeper of the group something to do wakes it.*)
LEMMA GroupSleepersStep == Types /\ GroupSleepers /\ [Next]_vars => GroupSleepers'
<1> SUFFICES ASSUME Types, GroupSleepers, [Next]_vars PROVE GroupSleepers'
  OBVIOUS
<1>1. ASSUME waiting' = {} PROVE GroupSleepers'
  BY <1>1 DEF GroupSleepers
<1>2. ASSUME UNCHANGED stateVars, \A r \in waiting : index'[r] = index[r]
      PROVE  GroupSleepers'
  <2> SUFFICES ASSUME NEW r \in waiting' PROVE (PollGetFrame(index[r]))' = "pending"
    BY DEF GroupSleepers
  <2>1. r \in waiting /\ index'[r] = index[r]  BY <1>2 DEF stateVars
  <2>2. PollGetFrame(index[r]) = "pending"  BY <2>1 DEF GroupSleepers
  <2> QED  BY <1>2, <2>1, <2>2 DEF PollGetFrame, stateVars
<1>3. ASSUME NEW n \in 0..MaxFrameSize, RecvSize(n) PROVE GroupSleepers'
  BY <1>1, <1>3 DEF RecvSize, AppendFrame
<1>4. ASSUME NEW n \in 0..MaxFrameSize, RecvChunk(n) PROVE GroupSleepers'
  BY <1>2, <1>4 DEF RecvChunk, readerVars
<1>5. CASE RecvFin \/ Abort
  BY <1>1, <1>5 DEF RecvFin, Abort
<1>6. CASE HeaderError \/ Cancelled \/ Quit \/ Stored \/ FrameDone \/ FrameError
  BY <1>2, <1>6 DEF HeaderError, Cancelled, Quit, Stored, FrameDone, FrameError, readerVars
<1>7. ASSUME NEW h \in Handles, DropChecks(h) PROVE GroupSleepers'
  <2>1. waiting' = {} \/ UNCHANGED <<frames, waiting>>
    BY <1>7 DEF DropChecks
  <2>2. UNCHANGED <<offset, fin, abort, shut>> /\ UNCHANGED index
    BY <1>7 DEF DropChecks, readerVars
  <2>3. ASSUME UNCHANGED <<frames, waiting>> PROVE GroupSleepers'
    BY <2>2, <2>3 DEF GroupSleepers, PollGetFrame
  <2> QED  BY <1>1, <2>1, <2>3
<1>8. ASSUME NEW h \in Handles, DropEnds(h) PROVE GroupSleepers'
  <2>1. waiting' = {} \/ UNCHANGED <<shut, waiting>>
    BY <1>8 DEF DropEnds
  <2>2. UNCHANGED <<frames, offset, fin, abort>> /\ UNCHANGED index
    BY <1>8 DEF DropEnds, readerVars
  <2>3. ASSUME UNCHANGED <<shut, waiting>> PROVE GroupSleepers'
    BY <2>2, <2>3 DEF GroupSleepers, PollGetFrame
  <2> QED  BY <1>1, <2>1, <2>3
<1>9. ASSUME NEW r \in Readers, GetFrame(r) PROVE GroupSleepers'
  <2>1. /\ UNCHANGED <<frames, offset, fin, abort, shut>>
        /\ waiting' \subseteq waiting \cup {r}
        /\ r \notin waiting
    BY <1>9 DEF GetFrame, Running, Asleep
  <2>2. r \in waiting' => PollGetFrame(index[r]) = "pending" /\ index' = index
    BY <1>9, <2>1 DEF GetFrame
  <2>3. \A q \in waiting : index'[q] = index[q]
    BY <1>9, <2>1 DEF GetFrame, Types
  <2>4. \A q \in waiting' : index'[q] = index[q] /\ PollGetFrame(index[q]) = "pending"
    BY <2>1, <2>2, <2>3 DEF GroupSleepers
  <2> QED  BY <2>1, <2>4 DEF GroupSleepers, PollGetFrame
<1>10. ASSUME NEW r \in Readers, ReadChunk(r) PROVE GroupSleepers'
  BY <1>2, <1>10 DEF ReadChunk
<1>11. ASSUME NEW r \in Readers, ReadAll(r) PROVE GroupSleepers'
  <2>1. r \notin waiting /\ UNCHANGED stateVars
    BY <1>11 DEF ReadAll, Running, Asleep
  <2>2. \A q \in waiting : index'[q] = index[q]
    BY <1>11, <2>1 DEF ReadAll, Types
  <2> QED  BY <1>2, <2>1, <2>2
<1>12. CASE UNCHANGED vars
  BY <1>2, <1>12 DEF vars, readerVars
<1> QED
  BY <1>3, <1>4, <1>5, <1>6, <1>7, <1>8, <1>9, <1>10, <1>11, <1>12
  DEF Next, WriterNext, ReaderNext

(* Every section that ends a frame for good wakes its sleepers.             *)
LEMMA FrameSleepersStep == Types /\ FrameSleepers /\ [Next]_vars => FrameSleepers'
<1> SUFFICES ASSUME Types, FrameSleepers, [Next]_vars,
                    NEW f \in Frames, sleeping'[f] # {}
             PROVE  PollAll(f)' = "pending"
  BY DEF FrameSleepers
<1>1. ASSUME sleeping'[f] = sleeping[f], f \in finished' => f \in finished,
             f \in broken' \cup closed' => f \in broken \cup closed
      PROVE  PollAll(f)' = "pending"
  BY <1>1 DEF FrameSleepers, PollAll
<1>2. ASSUME UNCHANGED frameVars PROVE PollAll(f)' = "pending"
  BY <1>1, <1>2 DEF frameVars
<1>3. ASSUME NEW n \in 0..MaxFrameSize, RecvSize(n) PROVE PollAll(f)' = "pending"
  BY <1>1, <1>3 DEF RecvSize
<1>4. ASSUME NEW n \in 0..MaxFrameSize, RecvChunk(n) PROVE PollAll(f)' = "pending"
  BY <1>1, <1>4 DEF RecvChunk, StoreWritten
<1>5. ASSUME NEW S, CloseFrames(S) PROVE PollAll(f)' = "pending"
  BY <1>1, <1>5 DEF CloseFrames
<1>6. ASSUME NEW g, SetFin(g) PROVE PollAll(f)' = "pending"
  BY <1>1, <1>2, <1>6 DEF SetFin, Types
<1>7. ASSUME NEW g, AbortFrame(g) PROVE PollAll(f)' = "pending"
  BY <1>1, <1>2, <1>7 DEF AbortFrame, Types
<1>8. CASE HeaderError \/ RecvFin \/ Cancelled \/ Quit
  BY <1>2, <1>8 DEF HeaderError, RecvFin, Cancelled, Quit
<1>9. CASE Stored \/ FrameDone \/ FrameError \/ Abort
  BY <1>2, <1>5, <1>6, <1>7, <1>9 DEF Stored, FrameDone, FrameError, Abort, Notify, FinishFrame
<1>10. ASSUME NEW h \in Handles, DropChecks(h) \/ DropEnds(h) PROVE PollAll(f)' = "pending"
  BY <1>2, <1>5, <1>10 DEF DropChecks, DropEnds
<1>11. ASSUME NEW r \in Readers, GetFrame(r) PROVE PollAll(f)' = "pending"
  BY <1>2, <1>11 DEF GetFrame
<1>12. ASSUME NEW r, NEW g, Sleep(r, g), PollAll(g) = "pending" PROVE PollAll(f)' = "pending"
  <2>1. UNCHANGED <<finished, broken, closed>>  BY <1>12 DEF Sleep
  <2>2. CASE f = g  BY <1>12, <2>1, <2>2 DEF PollAll
  <2>3. CASE f # g  BY <1>1, <1>12, <2>1, <2>3 DEF Sleep, Types
  <2> QED  BY <2>2, <2>3
<1>13. ASSUME NEW r \in Readers, ReadChunk(r) PROVE PollAll(f)' = "pending"
  <2>1. PollChunk(reading[r], read_idx[r]) = "pending" => PollAll(reading[r]) = "pending"
    BY DEF PollChunk, PollAll
  <2> QED  BY <1>2, <1>12, <1>13, <2>1 DEF ReadChunk
<1>14. ASSUME NEW r \in Readers, ReadAll(r) PROVE PollAll(f)' = "pending"
  BY <1>2, <1>12, <1>14 DEF ReadAll
<1>15. CASE UNCHANGED vars
  BY <1>2, <1>15 DEF vars
<1> QED
  BY <1>3, <1>4, <1>8, <1>9, <1>10, <1>11, <1>13, <1>14, <1>15 DEF Next, WriterNext, ReaderNext

(* NoSleeperLeftBehind holds in every state, for any number of readers:     *)
(* no reader sleeps on a group or a frame that has what it waits for, but   *)
(* for the bytes of an unfinished frame.                                    *)
THEOREM NobodySleepsThrough == Spec => []NoSleeperLeftBehind
<1> DEFINE S == Types /\ GroupSleepers /\ FrameSleepers
<1>1. Init => S
  <2> SUFFICES ASSUME Init PROVE S
    OBVIOUS
  <2>1. Types  BY InvInit DEF Inv
  <2> QED  BY <2>1 DEF Init, FrameInit, GroupSleepers, FrameSleepers
<1>2. S /\ Inv /\ [Next]_vars => S'
  BY TypesStep, GroupSleepersStep, FrameSleepersStep DEF Inv
<1>3. S => NoSleeperLeftBehind
  BY DEF GroupSleepers, FrameSleepers, NoSleeperLeftBehind
<1> QED  BY <1>1, <1>2, <1>3, GroupInvariant, PTL DEF Spec

-----------------------------------------------------------------------------
(* A step that changes nothing the log shows is a stutter of it.            *)
LEMMA LogStutters ==
    ASSUME UNCHANGED <<size, written, fin>>, UNCHANGED readerVars
    PROVE  UNCHANGED Log!vars
BY DEF Log!vars, Filled, Given, Taken, InFrame, Created, readerVars

(* The writer's steps are the log's.                                        *)
LEMMA LogWriter == Inv /\ Inv' /\ WriterNext => [Log!Next]_(Log!vars)
<1> SUFFICES ASSUME Inv, Inv', WriterNext PROVE [Log!Next]_(Log!vars)
  OBVIOUS
<1>N. /\ MaxFrames \in Nat /\ Created \in Nat /\ Created <= MaxFrames
      /\ \A f \in 1..Created : f \in Frames /\ size[f] \in Nat
      /\ \A f \in Frames : f \in Nat /\ written[f] \in Nat
  BY Numbers DEF Inv
<1>R. ASSUME UNCHANGED readerVars PROVE UNCHANGED <<Given, Taken, outcome>>
  BY <1>R DEF readerVars, Given, Taken, InFrame
<1>1. ASSUME NEW n \in 0..MaxFrameSize, RecvSize(n) PROVE Log!AppendFrame
  <2>1. /\ size' \in Seq(Nat) /\ Len(size') = Len(size) + 1 /\ fin' = fin
        /\ \A f \in 1..Len(size) : size'[f] = size[f]
    BY <1>1, AppendKeepsRun DEF Inv
  <2>2. wpc = "header" /\ written' = written /\ UNCHANGED readerVars
    BY <1>1 DEF RecvSize
  <2>3. fin = FALSE
    BY <2>2 DEF Inv, WriterInv, Types
  <2>4. SubSeq(size', 1, Len(size)) = size
    <3>1. size \in Seq(Nat)  BY DEF Inv, Types
    <3>2. size' = Append(size, n)  BY <1>1 DEF RecvSize
    <3> QED  BY <3>1, <3>2
  <2>5. written[Created + 1] = 0
    <3>1. Created < MaxFrames  BY <1>1 DEF RecvSize
    <3>2. Created + 1 \in Frames /\ ~(Created + 1 <= Created)  BY <1>N, <3>1 DEF Frames
    <3>3. \A f \in Frames : IF f <= Created THEN written[f] <= size[f] ELSE written[f] = 0
      BY DEF Inv, WriterInv
    <3> QED  BY <3>2, <3>3
  <2>6. Filled' = Append(Filled, 0)
    <3>1. Filled' = [f \in 1..(Created + 1) |-> written[f]]
      BY <2>1, <2>2 DEF Filled, Created
    <3>2. Filled \in Seq(Nat) /\ Len(Filled) = Created
      BY <1>N DEF Filled
    <3>3. \A i \in 1..Created : Filled[i] = written[i]
      BY DEF Filled
    <3> HIDE DEF Filled
    <3>4. /\ Append(Filled, 0) \in Seq(Nat) /\ Len(Append(Filled, 0)) = Created + 1
          /\ \A i \in 1..Created : Append(Filled, 0)[i] = Filled[i]
          /\ Append(Filled, 0)[Created + 1] = 0
      BY <1>N, <3>2
    <3>5. Append(Filled, 0) = [i \in 1..(Created + 1) |-> Append(Filled, 0)[i]]
      <4> DEFINE a == Append(Filled, 0)
      <4>1. a \in Seq(Nat) /\ Len(a) = Created + 1  BY <3>4
      <4> HIDE DEF a
      <4>2. DOMAIN a = 1..(Created + 1) /\ a = [i \in DOMAIN a |-> a[i]]
        BY <4>1
      <4>3. a = [i \in 1..(Created + 1) |-> a[i]]
        BY <4>2
      <4> QED  BY <4>3 DEF a
    <3>6. \A i \in 1..(Created + 1) : Append(Filled, 0)[i] = written[i]
      <4> SUFFICES ASSUME NEW i \in 1..(Created + 1) PROVE Append(Filled, 0)[i] = written[i]
        OBVIOUS
      <4>1. CASE i = Created + 1  BY <2>5, <3>4, <4>1
      <4>2. CASE i # Created + 1
        <5>1. i \in 1..Created  BY <1>N, <4>2
        <5> QED  BY <3>3, <3>4, <5>1
      <4> QED  BY <4>1, <4>2
    <3> QED  BY <3>1, <3>5, <3>6
  <2> QED  BY <1>R, <2>1, <2>2, <2>3, <2>4, <2>6 DEF Log!AppendFrame
<1>2. ASSUME NEW n \in 0..MaxFrameSize, RecvChunk(n) PROVE Log!Fill(Created) /\ Created \in DOMAIN size
  <2>1. /\ wpc = "frame" /\ n > 0 /\ n \in Nat /\ n <= size[Created] - written[Created]
        /\ written' = [written EXCEPT ![Created] = @ + n]
        /\ UNCHANGED <<size, fin>> /\ UNCHANGED readerVars
    BY <1>2, FrameAssumption DEF RecvChunk, StoreWritten, Remaining, Current, stateVars
  <2>2. fin = FALSE /\ Created >= 1
    BY <2>1 DEF Inv, WriterInv, Writing, Types
  <2>3. Created \in 1..Created /\ Created \in DOMAIN size /\ Created \in Frames
    BY <1>N, <2>2 DEF Created, Inv, Types
  <2>4. Filled[Created] = written[Created] /\ written[Created] \in Nat /\ size[Created] \in Nat
    BY <1>N, <2>3 DEF Filled
  <2>5. written[Created] + n \in (Filled[Created] + 1)..size[Created]
    BY <2>1, <2>4
  <2>6. Filled' = [Filled EXCEPT ![Created] = written[Created] + n]
    <3>1. Created' = Created  BY <2>1 DEF Created
    <3>2. \A f \in 1..Created : written'[f] = IF f = Created THEN written[Created] + n ELSE written[f]
      BY <1>N, <2>1, <2>3 DEF Inv, Types
    <3> QED  BY <2>3, <3>1, <3>2 DEF Filled
  <2> QED  BY <1>R, <2>1, <2>2, <2>3, <2>5, <2>6 DEF Log!Fill
<1>3. CASE RecvFin
  <2>1. /\ wpc = "header" /\ fin' = TRUE /\ UNCHANGED <<size, written>> /\ UNCHANGED readerVars
    BY <1>3 DEF RecvFin, frameVars
  <2>2. ~fin /\ \A f \in 1..Created : written[f] = size[f]
    BY <2>1 DEF Inv, WriterInv, Types
  <2>3. Filled = size
    <3>1. size \in Seq(Nat) /\ Created = Len(size)  BY DEF Inv, Types, Created
    <3>2. DOMAIN size = 1..Created /\ size = [f \in 1..Created |-> size[f]]
      BY <3>1
    <3> QED  BY <2>2, <3>2 DEF Filled
  <2>4. Filled' = Filled  BY <2>1 DEF Filled, Created
  <2>5. Log!Seal
    BY <1>R, <2>1, <2>2, <2>3, <2>4 DEF Log!Seal
  <2> QED  BY <2>5 DEF Log!Next
<1>4. CASE HeaderError \/ Cancelled \/ Quit \/ Stored \/ FrameDone \/ FrameError \/ Abort
  <2>1. UNCHANGED <<size, written, fin>> /\ UNCHANGED readerVars
    BY <1>4 DEF HeaderError, Cancelled, Quit, Stored, FrameDone, FrameError, Abort, Notify,
                FinishFrame, SetFin, AbortFrame, CloseFrames, frameVars, stateVars
  <2> QED  BY <2>1, LogStutters
<1> QED  BY <1>1, <1>2, <1>3, <1>4 DEF WriterNext, Log!Next

(* So are the readers'.                                                     *)
LEMMA LogReader ==
    ASSUME Inv, Inv', NEW r \in Readers, ReaderNext(r)
    PROVE  [Log!Next]_(Log!vars)
<1>N. /\ MaxFrames \in Nat /\ Created \in Nat /\ Created <= MaxFrames
      /\ \A f \in 1..Created : f \in Frames /\ size[f] \in Nat
      /\ \A f \in Frames : f \in Nat /\ written[f] \in Nat
  BY Numbers DEF Inv
<1>T. /\ index \in [Readers -> Nat] /\ reading \in [Readers -> Nat]
      /\ read_idx \in [Readers -> Nat] /\ written \in [Frames -> Nat]
      /\ outcome \in [Readers -> {"none", "end", "error", "full"}]
      /\ offset \in Nat /\ Len(frames) \in Nat
  BY Numbers DEF Inv, Types
<1>L. UNCHANGED <<size, written, fin>> /\ outcome[r] = "none"
  BY DEF ReaderNext, GetFrame, ReadChunk, ReadAll, Sleep, Running, frameVars, stateVars
<1>F. Filled' = Filled /\ Len(size) = Created
  BY <1>L DEF Filled, Created
<1>G. \A q \in Readers :
        /\ Given[q] = IF q \in Streams /\ reading[q] # 0 THEN index[q] - 1 ELSE index[q]
        /\ Taken[q] = IF q \in Streams /\ reading[q] # 0 THEN read_idx[q] ELSE 0
        /\ Given'[q] = IF q \in Streams /\ reading'[q] # 0 THEN index'[q] - 1 ELSE index'[q]
        /\ Taken'[q] = IF q \in Streams /\ reading'[q] # 0 THEN read_idx'[q] ELSE 0
  BY DEF Given, Taken, InFrame
<1>D. /\ DOMAIN Given = Readers /\ DOMAIN Given' = Readers
      /\ DOMAIN Taken = Readers /\ DOMAIN Taken' = Readers
      /\ Given = [q \in Readers |-> Given[q]] /\ Given' = [q \in Readers |-> Given'[q]]
      /\ Taken = [q \in Readers |-> Taken[q]] /\ Taken' = [q \in Readers |-> Taken'[q]]
  BY DEF Given, Taken
<1>O. ASSUME NEW q \in Readers, q # r PROVE Given'[q] = Given[q] /\ Taken'[q] = Taken[q]
  <2>1. index'[q] = index[q] /\ reading'[q] = reading[q] /\ read_idx'[q] = read_idx[q]
    BY <1>O, <1>T DEF ReaderNext, GetFrame, ReadChunk, ReadAll
  <2> QED  BY <1>G, <2>1
<1>S. ASSUME Given'[r] = Given[r], Taken'[r] = Taken[r] PROVE Given' = Given /\ Taken' = Taken
  <2>1. \A q \in Readers : Given'[q] = Given[q] /\ Taken'[q] = Taken[q]
    BY <1>O, <1>S
  <2> QED  BY <1>D, <2>1
<1>U. ASSUME NEW v, NEW w, Given'[r] = v, Taken'[r] = w
      PROVE  Given' = [Given EXCEPT ![r] = v] /\ Taken' = [Taken EXCEPT ![r] = w]
  <2>1. \A q \in Readers : /\ Given'[q] = IF q = r THEN v ELSE Given[q]
                           /\ Taken'[q] = IF q = r THEN w ELSE Taken[q]
    BY <1>O, <1>U
  <2>2. Given' = [q \in Readers |-> IF q = r THEN v ELSE Given[q]]
    BY <1>D, <2>1
  <2>3. Taken' = [q \in Readers |-> IF q = r THEN w ELSE Taken[q]]
    BY <1>D, <2>1
  <2> QED  BY <1>D, <2>2, <2>3
<1>1. CASE GetFrame(r)
  <2>1. CASE PollGetFrame(index[r]) = "frame"
    <3>1. /\ reading[r] = 0 /\ outcome' = outcome /\ read_idx'[r] = 0
          /\ reading'[r] = index[r] + 1
          /\ index'[r] = IF r \in Streams THEN index[r] + 1 ELSE index[r]
      <4>1. frames[index[r] - offset + 1] = index[r] + 1
        BY <2>1, <1>T, FrameAtIndex DEF Inv
      <4>2. /\ reading[r] = 0 /\ outcome' = outcome
            /\ reading' = [reading EXCEPT ![r] = frames[index[r] - offset + 1]]
            /\ read_idx' = [read_idx EXCEPT ![r] = 0]
            /\ index' = [index EXCEPT ![r] = @ + IF r \in Streams THEN 1 ELSE 0]
        BY <1>1, <2>1 DEF GetFrame
      <4>3. reading'[r] = index[r] + 1 /\ read_idx'[r] = 0
        BY <1>T, <4>1, <4>2
      <4>4. index'[r] = IF r \in Streams THEN index[r] + 1 ELSE index[r] + 0
        BY <1>T, <4>2
      <4>5. index[r] + 0 = index[r]
        BY <1>T
      <4> QED  BY <4>2, <4>3, <4>4, <4>5
    <3>2. index[r] \in Nat /\ index[r] + 1 # 0 /\ index[r] + 1 - 1 = index[r]
      BY <1>T
    <3>3. Given'[r] = Given[r] /\ Taken'[r] = Taken[r]
      <4>1. CASE r \in Streams
        <5>1. Given[r] = index[r] /\ Taken[r] = 0  BY <1>G, <3>1
        <5>2. reading'[r] # 0 /\ index'[r] = index[r] + 1 /\ read_idx'[r] = 0
          BY <3>1, <3>2, <4>1
        <5>3. Given'[r] = index'[r] - 1 /\ Taken'[r] = read_idx'[r]  BY <1>G, <4>1, <5>2
        <5>4. index'[r] - 1 = index[r]  BY <3>2, <5>2
        <5>5. Given'[r] = Given[r]  BY <5>1, <5>3, <5>4, Zenon
        <5>6. Taken'[r] = Taken[r]  BY <5>1, <5>2, <5>3, Zenon
        <5> QED  BY <5>5, <5>6
      <4>2. CASE r \notin Streams
        BY <1>G, <3>1, <4>2
      <4> QED  BY <4>1, <4>2
    <3>4. Given' = Given /\ Taken' = Taken
      BY <1>S, <3>3
    <3> QED  BY <1>L, <1>F, <3>1, <3>4 DEF Log!vars
  <2>2. ASSUME PollGetFrame(index[r]) \in {"full", "end", "error"}
        PROVE  Log!Stop(r, PollGetFrame(index[r]))
    <3>1. /\ reading[r] = 0 /\ UNCHANGED <<reading, read_idx, index>>
          /\ outcome' = [outcome EXCEPT ![r] = PollGetFrame(index[r])]
      BY <1>1, <2>2 DEF GetFrame
    <3>2. Given[r] = index[r] /\ Given' = Given /\ Taken' = Taken
      <4>1. Given[r] = index[r] /\ Given'[r] = Given[r] /\ Taken'[r] = Taken[r]
        BY <1>G, <3>1
      <4> QED  BY <1>S, <4>1
    <3>3. index[r] \in Nat /\ index[r] <= Created /\ offset + Len(frames) <= Created
      BY <1>T DEF Inv, ReaderInv, CacheInv
    <3>4. PollGetFrame(index[r]) = "end" => fin /\ index[r] = Created
      <4> SUFFICES ASSUME PollGetFrame(index[r]) = "end" PROVE fin /\ index[r] = Created
        OBVIOUS
      <4>1. fin /\ ~(index[r] < offset) /\ ~(index[r] - offset < Len(frames))
        BY DEF PollGetFrame
      <4>2. offset + Len(frames) = Created  BY <4>1 DEF Inv, CacheInv
      <4> QED  BY <1>N, <1>T, <3>3, <4>1, <4>2
    <3>5. PollGetFrame(index[r]) = "error" => ~fin
      BY DEF PollGetFrame
    <3>6. PollGetFrame(index[r]) = "full" => index[r] < Created
      <4>1. PollGetFrame(index[r]) = "full" => index[r] < offset
        BY DEF PollGetFrame
      <4> QED  BY <1>N, <1>T, <3>3, <4>1
    <3> QED  BY <1>L, <1>F, <3>1, <3>2, <3>4, <3>5, <3>6 DEF Log!Stop
  <2>3. CASE PollGetFrame(index[r]) = "pending"
    <3>1. UNCHANGED <<reading, read_idx, index, outcome>>
      BY <1>1, <2>3 DEF GetFrame
    <3> QED  BY <1>L, <3>1, LogStutters DEF readerVars
  <2>4. PollGetFrame(index[r]) \in {"frame", "full", "end", "error", "pending"}
    BY DEF PollGetFrame
  <2> QED  BY <2>1, <2>2, <2>3, <2>4 DEF Log!Next
<1>2. CASE ReadChunk(r)
  <2> DEFINE f == reading[r]
  <2>1. /\ r \in Streams /\ f # 0 /\ index' = index
        /\ f = index[r] /\ f <= Created /\ read_idx[r] <= written[f]
    BY <1>2 DEF ReadChunk, Inv, ReaderInv
  <2>2. f \in 1..Created /\ written[f] \in Nat /\ size[f] \in Nat /\ read_idx[r] \in Nat
    BY <1>N, <1>T, <2>1
  <2>3. Given[r] = f - 1 /\ Given[r] + 1 = f /\ Taken[r] = read_idx[r] /\ Filled[f] = written[f]
    <3>1. Given[r] = f - 1 /\ Taken[r] = read_idx[r]
      BY <1>G, <2>1
    <3>2. Filled[f] = written[f]
      BY <2>2 DEF Filled
    <3> QED  BY <2>2, <3>1, <3>2
  <2>4. CASE PollChunk(f, read_idx[r]) = "bytes"
    <3>1. /\ read_idx[r] < written[f] /\ UNCHANGED <<reading, outcome>>
          /\ read_idx' = [read_idx EXCEPT ![r] = written[f]]
      BY <1>2, <2>2, <2>4 DEF ReadChunk, PollChunk
    <3>2. Given'[r] = Given[r] /\ Taken'[r] = written[f]
      BY <1>G, <1>T, <2>1, <3>1
    <3>3. Given' = Given /\ Taken' = [Taken EXCEPT ![r] = written[f]]
      <4>1. Given' = [Given EXCEPT ![r] = Given[r]] /\ Taken' = [Taken EXCEPT ![r] = written[f]]
        BY <1>U, <3>2
      <4>2. [Given EXCEPT ![r] = Given[r]] = Given  BY <1>D
      <4> QED  BY <4>1, <4>2
    <3>4. Log!Take(r)
      BY <1>L, <1>F, <2>1, <2>2, <2>3, <3>1, <3>3 DEF Log!Take
    <3> QED  BY <3>4 DEF Log!Next
  <2>5. CASE PollChunk(f, read_idx[r]) = "end"
    <3>1. /\ ~(written[f] > read_idx[r]) /\ f \in finished
          /\ UNCHANGED <<read_idx, outcome>> /\ reading' = [reading EXCEPT ![r] = 0]
      BY <1>2, <2>5 DEF ReadChunk, PollChunk
    <3>2. written[f] = size[f] /\ read_idx[r] = size[f]
      <4>1. written[f] = size[f]  BY <3>1 DEF Inv, WriterInv
      <4>2. /\ read_idx[r] \in Nat /\ written[f] \in Nat /\ read_idx[r] <= written[f]
            /\ ~(written[f] > read_idx[r])
        BY <2>1, <2>2, <3>1
      <4>3. read_idx[r] = written[f]  BY <4>2
      <4> QED  BY <4>1, <4>3
    <3>3. Given'[r] = f /\ Taken'[r] = 0
      BY <1>G, <1>T, <2>1, <3>1
    <3>4. Given' = [Given EXCEPT ![r] = f] /\ Taken' = [Taken EXCEPT ![r] = 0]
      BY <1>U, <3>3
    <3>5. Log!Advance(r)
      BY <1>L, <1>F, <2>1, <2>2, <2>3, <3>1, <3>2, <3>4 DEF Log!Advance
    <3> QED  BY <3>5 DEF Log!Next
  <2>6. CASE PollChunk(f, read_idx[r]) = "error"
    <3>1. /\ f \notin finished /\ UNCHANGED <<read_idx, reading>>
          /\ outcome' = [outcome EXCEPT ![r] = "error"]
      BY <1>2, <2>6 DEF ReadChunk, PollChunk
    <3>2. ~fin  BY <2>2, <3>1 DEF Inv, WriterInv
    <3>3. Given' = Given /\ Taken' = Taken
      <4>1. Given'[r] = Given[r] /\ Taken'[r] = Taken[r]  BY <1>G, <2>1, <3>1
      <4> QED  BY <1>S, <4>1
    <3>4. Log!Stop(r, "error")
      BY <1>L, <1>F, <3>1, <3>2, <3>3 DEF Log!Stop
    <3> QED  BY <3>4 DEF Log!Next
  <2>7. CASE PollChunk(f, read_idx[r]) = "pending"
    <3>1. UNCHANGED <<reading, read_idx, index, outcome>>
      BY <1>2, <2>7 DEF ReadChunk
    <3> QED  BY <1>L, <3>1, LogStutters DEF readerVars
  <2>8. PollChunk(f, read_idx[r]) \in {"bytes", "end", "error", "pending"}
    BY DEF PollChunk
  <2> QED  BY <2>4, <2>5, <2>6, <2>7, <2>8
<1>3. CASE ReadAll(r)
  <2> DEFINE f == reading[r]
  <2>1. /\ r \notin Streams /\ f # 0 /\ read_idx' = read_idx
        /\ f = index[r] + 1 /\ f <= Created /\ reading' = [reading EXCEPT ![r] = 0]
    BY <1>3 DEF ReadAll, Inv, ReaderInv
  <2>2. f \in 1..Created /\ written[f] \in Nat /\ size[f] \in Nat
    BY <1>N, <1>T, <2>1
  <2>3. /\ Given[r] = index[r] /\ Given[r] + 1 = f /\ Taken[r] = 0 /\ Filled[f] = written[f]
        /\ Given'[r] = index'[r] /\ Taken'[r] = 0
    <3>1. Given[r] = index[r] /\ Taken[r] = 0 /\ Given'[r] = index'[r] /\ Taken'[r] = 0
      BY <1>G, <2>1
    <3>2. Filled[f] = written[f]  BY <2>2 DEF Filled
    <3> QED  BY <2>1, <3>1, <3>2
  <2>4. CASE PollAll(f) = "bytes"
    <3>1. f \in finished /\ outcome' = outcome /\ index'[r] = f
      BY <1>3, <1>T, <2>1, <2>4 DEF ReadAll, PollAll
    <3>2. written[f] = size[f]
      BY <3>1 DEF Inv, WriterInv
    <3>3. Given' = [Given EXCEPT ![r] = f] /\ Taken' = [Taken EXCEPT ![r] = 0]
      BY <1>U, <2>3, <3>1
    <3>4. Log!Advance(r)
      BY <1>L, <1>F, <2>1, <2>2, <2>3, <3>1, <3>2, <3>3 DEF Log!Advance
    <3> QED  BY <3>4 DEF Log!Next
  <2>5. CASE PollAll(f) = "error"
    <3>1. f \notin finished /\ index' = index /\ outcome' = [outcome EXCEPT ![r] = "error"]
      BY <1>3, <2>5 DEF ReadAll, PollAll
    <3>2. ~fin  BY <2>2, <3>1 DEF Inv, WriterInv
    <3>3. Given' = Given /\ Taken' = Taken
      <4>1. Given'[r] = Given[r] /\ Taken'[r] = Taken[r]  BY <2>3, <3>1
      <4> QED  BY <1>S, <4>1
    <3>4. Log!Stop(r, "error")
      BY <1>L, <1>F, <3>1, <3>2, <3>3 DEF Log!Stop
    <3> QED  BY <3>4 DEF Log!Next
  <2>6. CASE PollAll(f) = "pending"
    <3>1. index' = index /\ outcome' = outcome
      BY <1>3, <2>6 DEF ReadAll
    <3>2. Given' = Given /\ Taken' = Taken
      <4>1. Given'[r] = Given[r] /\ Taken'[r] = Taken[r]  BY <2>3, <3>1
      <4> QED  BY <1>S, <4>1
    <3> QED  BY <1>L, <1>F, <3>1, <3>2 DEF Log!vars
  <2>7. PollAll(f) \in {"bytes", "error", "pending"}
    BY DEF PollAll
  <2> QED  BY <2>4, <2>5, <2>6, <2>7
<1> QED  BY <1>1, <1>2, <1>3 DEF ReaderNext

(* Every behaviour of a group is one of the log it promises, for any number *)
(* of readers, any limits and any sizes.                                    *)
THEOREM GroupIsLog == Spec => ImplementsLog
<1>1. Init => Log!Init
  <2> SUFFICES ASSUME Init PROVE Log!Init
    OBVIOUS
  <2>1. /\ size = <<>> /\ fin = FALSE /\ Created = 0
        /\ reading = [r \in Readers |-> 0] /\ index = [r \in Readers |-> 0]
        /\ outcome = [r \in Readers |-> "none"]
    BY DEF Init, FrameInit, Created
  <2>2. Filled = <<>>
    BY <2>1 DEF Filled
  <2>3. Given = [r \in Readers |-> 0] /\ Taken = [r \in Readers |-> 0]
    BY <2>1 DEF Given, Taken, InFrame
  <2> QED  BY <2>1, <2>2, <2>3 DEF Log!Init
<1>2. Inv /\ Inv' /\ [Next]_vars => [Log!Next]_(Log!vars)
  <2> SUFFICES ASSUME Inv, Inv', [Next]_vars PROVE [Log!Next]_(Log!vars)
    OBVIOUS
  <2>1. CASE WriterNext  BY <2>1, LogWriter
  <2>2. ASSUME NEW r \in Readers, ReaderNext(r) PROVE [Log!Next]_(Log!vars)
    BY <2>2, LogReader
  <2>3. ASSUME NEW h \in Handles, DropChecks(h) \/ DropEnds(h) PROVE [Log!Next]_(Log!vars)
    <3>1. UNCHANGED <<size, written, fin>> /\ UNCHANGED readerVars
      BY <2>3 DEF DropChecks, DropEnds, CloseFrames, frameVars
    <3> QED  BY <3>1, LogStutters
  <2>4. CASE UNCHANGED vars
    <3>1. UNCHANGED <<size, written, fin>> /\ UNCHANGED readerVars
      BY <2>4 DEF vars, frameVars, stateVars
    <3> QED  BY <3>1, LogStutters
  <2> QED  BY <2>1, <2>2, <2>3, <2>4 DEF Next
<1> QED  BY <1>1, <1>2, GroupInvariant, PTL DEF Spec, ImplementsLog, Log!Spec

-----------------------------------------------------------------------------
(* The size of the cache.                                                   *)

LessThan == {p \in Nat \X Nat : p[1] < p[2]}

(* f[i] is the size of the first i frames of s.                             *)
IsSum(f, s, sizes) ==
    /\ f \in [0..Len(s) -> Int] /\ f[0] = 0
    /\ \A i \in 1..Len(s) : sizes[s[i]] \in Nat /\ f[i] = f[i - 1] + sizes[s[i]]

(* SizeOf is that sum: look at the first place where the two differ.        *)
LEMMA SizeIsSum ==
    ASSUME NEW s, NEW sizes, Len(s) \in Nat, NEW f, IsSum(f, s, sizes)
    PROVE  SizeOf(s, sizes) = f[Len(s)]
<1> DEFINE sum == CHOOSE g : g = [i \in 0..Len(s) |-> IF i = 0 THEN 0 ELSE g[i - 1] + sizes[s[i]]]
           D == {i \in 0..Len(s) : sum[i] # f[i]}
<1>1. SizeOf(s, sizes) = sum[Len(s)]
  BY DEF SizeOf
<1>2. \A i \in 0..Len(s) : f[i] = IF i = 0 THEN 0 ELSE f[i - 1] + sizes[s[i]]
  BY DEF IsSum
<1>3. f = [i \in 0..Len(s) |-> IF i = 0 THEN 0 ELSE f[i - 1] + sizes[s[i]]]
  <2>1. f = [i \in 0..Len(s) |-> f[i]]
    BY DEF IsSum
  <2> QED BY <1>2, <2>1
<1>4. sum = [i \in 0..Len(s) |-> IF i = 0 THEN 0 ELSE sum[i - 1] + sizes[s[i]]]
  BY <1>3
<1> HIDE DEF sum
<1>5. \A i \in 0..Len(s) : sum[i] = IF i = 0 THEN 0 ELSE sum[i - 1] + sizes[s[i]]
  BY <1>4
<1>6. ASSUME D # {} PROVE FALSE
  <2>1. IsWellFoundedOn(LessThan, Nat)
    BY NatLessThanWellFounded DEF OpToRel, LessThan
  <2>2. D \subseteq Nat
    OBVIOUS
  <2>3. PICK x \in D : \A y \in D : ~ (<<y, x>> \in LessThan)
    BY <1>6, <2>1, <2>2, WFMin
  <2>4. x \in 0..Len(s) /\ sum[x] # f[x]
    OBVIOUS
  <2>5. x # 0
    BY <1>2, <1>5, <2>4
  <2>6. x - 1 \in 0..Len(s) /\ <<x - 1, x>> \in LessThan
    BY <2>4, <2>5 DEF LessThan
  <2>7. sum[x - 1] = f[x - 1]
    BY <2>3, <2>6
  <2> QED BY <1>2, <1>5, <2>4, <2>5, <2>7
<1>7. Len(s) \in 0..Len(s)
  OBVIOUS
<1> QED BY <1>1, <1>6, <1>7

(* The size of the front of a queue.                                        *)
LEMMA FrontSize ==
    ASSUME NEW s \in Seq(Nat), NEW sizes, NEW h, IsSum(h, s, sizes), NEW k \in 0..Len(s)
    PROVE  SizeOf(SubSeq(s, 1, k), sizes) = h[k]
<1> DEFINE p == SubSeq(s, 1, k)
           f == [i \in 0..k |-> h[i]]
<1>1. Len(p) = k /\ k \in Nat /\ k <= Len(s) /\ \A i \in 1..k : p[i] = s[i]
  OBVIOUS
<1>2. f \in [0..k -> Int] /\ f[0] = 0 /\ f[k] = h[k]
  BY <1>1 DEF IsSum
<1>3. \A i \in 1..k : sizes[p[i]] \in Nat /\ f[i] = f[i - 1] + sizes[p[i]]
  BY <1>1 DEF IsSum
<1> HIDE DEF p, f
<1>4. IsSum(f, p, sizes)
  BY <1>1, <1>2, <1>3 DEF IsSum
<1>5. SizeOf(p, sizes) = f[k]
  BY <1>1, <1>4, SizeIsSum
<1> QED BY <1>2, <1>5 DEF p

(* The sum of what is left without the front.                               *)
LEMMA RestSum ==
    ASSUME NEW s \in Seq(Nat), NEW sizes, NEW h, IsSum(h, s, sizes), NEW k \in 0..Len(s)
    PROVE  \E g : /\ IsSum(g, SubSeq(s, k + 1, Len(s)), sizes)
                  /\ g[Len(s) - k] = h[Len(s)] - h[k]
<1>1. PICK n \in Nat : n = Len(s)
  OBVIOUS
<1>2. /\ h \in [0..n -> Int] /\ h[0] = 0
      /\ \A i \in 1..n : sizes[s[i]] \in Nat /\ h[i] = h[i - 1] + sizes[s[i]]
  BY <1>1 DEF IsSum
<1>3. PICK q : q = SubSeq(s, k + 1, Len(s))
  OBVIOUS
<1>4. PICK m \in Nat : m = n - k
  <2>1. n - k \in Nat
    BY <1>1
  <2> QED BY <2>1
<1>5. Len(q) = m /\ \A i \in 1..m : q[i] = s[k + i]
  <2>1. Len(q) = m
    BY <1>1, <1>3, <1>4
  <2>2. \A i \in 1..Len(q) : q[i] = s[k + i]
    BY <1>1, <1>3
  <2> QED BY <2>1, <2>2
<1>6. ASSUME NEW i \in 0..m PROVE h[k + i] \in Int /\ h[k] \in Int
  <2>1. k + i \in 0..n /\ k \in 0..n
    BY <1>1, <1>4
  <2> QED BY <1>2, <2>1
<1>7. ASSUME NEW i \in 1..m
      PROVE  /\ i - 1 \in 0..m /\ sizes[q[i]] \in Nat
             /\ h[k + i] - h[k] = (h[k + (i - 1)] - h[k]) + sizes[q[i]]
  <2>1. i \in 0..m /\ i - 1 \in 0..m /\ k + i \in 1..n /\ k + (i - 1) = (k + i) - 1
    BY <1>1, <1>4
  <2>2. sizes[q[i]] \in Nat /\ h[k + i] = h[k + (i - 1)] + sizes[q[i]]
    BY <1>2, <1>5, <2>1
  <2>3. h[k + i] \in Int /\ h[k + (i - 1)] \in Int /\ h[k] \in Int
    BY <1>6, <2>1
  <2>4. h[k + i] - h[k] = (h[k + (i - 1)] - h[k]) + sizes[q[i]]
    BY <2>2, <2>3
  <2> QED BY <2>1, <2>2, <2>4
<1>8. ASSUME NEW i \in 0..m PROVE h[k + i] - h[k] \in Int
  <2>1. h[k + i] \in Int /\ h[k] \in Int
    BY <1>6
  <2> QED BY <2>1
<1>9. PICK g : g = [i \in 0..m |-> h[k + i] - h[k]]
  OBVIOUS
<1>10. g \in [0..m -> Int]
  BY <1>8, <1>9
<1>11. g[0] = 0 /\ g[m] = h[n] - h[k]
  <2>1. k + 0 = k /\ k + m = n /\ 0 \in 0..m /\ m \in 0..m
    BY <1>1, <1>4
  <2>2. g[0] = h[k] - h[k] /\ g[m] = h[n] - h[k]
    BY <1>9, <2>1
  <2>3. h[k] - h[k] = 0
    BY <1>6, <2>1
  <2> QED BY <2>2, <2>3
<1>12. ASSUME NEW i \in 1..m PROVE sizes[q[i]] \in Nat /\ g[i] = g[i - 1] + sizes[q[i]]
  <2>1. i \in 0..m /\ i - 1 \in 0..m
    BY <1>7
  <2>2. g[i] = h[k + i] - h[k] /\ g[i - 1] = h[k + (i - 1)] - h[k]
    BY <1>9, <2>1
  <2> QED BY <1>7, <2>2, Zenon
<1>13. IsSum(g, q, sizes) /\ g[Len(s) - k] = h[Len(s)] - h[k]
  BY <1>1, <1>4, <1>5, <1>10, <1>11, <1>12 DEF IsSum
<1> QED BY <1>3, <1>13

(* What one step does to the deque: create_frame, a clear, or nothing.      *)
LEMMA DequeSteps ==
    ASSUME [Next]_vars
    PROVE  \/ \E n \in 0..MaxFrameSize : RecvSize(n)
           \/ frames' = <<>> /\ cache' = 0 /\ UNCHANGED <<offset, size>>
           \/ UNCHANGED <<frames, cache, offset, size>>
<1> USE DEF frameVars, stateVars
<1>1. CASE UNCHANGED vars
  BY <1>1 DEF vars
<1>2. CASE WriterNext
  <2>1. ASSUME NEW n \in 0..MaxFrameSize, RecvChunk(n) PROVE UNCHANGED <<frames, cache, offset, size>>
    BY <2>1 DEF RecvChunk, StoreWritten
  <2>2. HeaderError \/ RecvFin \/ Cancelled \/ Quit => UNCHANGED <<frames, cache, offset, size>>
    BY DEF HeaderError, RecvFin, Cancelled, Quit
  <2>3. Stored \/ FrameDone \/ FrameError => UNCHANGED <<frames, cache, offset, size>>
    BY DEF Stored, FrameDone, FrameError, Notify, FinishFrame, AbortFrame, SetFin
  <2>4. Abort => frames' = <<>> /\ cache' = 0 /\ UNCHANGED <<offset, size>>
    BY DEF Abort, CloseFrames
  <2> QED BY <1>2, <2>1, <2>2, <2>3, <2>4 DEF WriterNext
<1>3. ASSUME NEW h \in Handles, DropChecks(h) \/ DropEnds(h)
      PROVE  \/ frames' = <<>> /\ cache' = 0 /\ UNCHANGED <<offset, size>>
             \/ UNCHANGED <<frames, cache, offset, size>>
  BY <1>3 DEF DropChecks, DropEnds, CloseFrames
<1>4. ASSUME NEW r \in Readers, ReaderNext(r) PROVE UNCHANGED <<frames, cache, offset, size>>
  BY <1>4 DEF ReaderNext, GetFrame, ReadChunk, ReadAll, Sleep
<1> QED BY <1>1, <1>2, <1>3, <1>4 DEF Next

(* CacheExact with the sum in hand, and a run that ends with the newest     *)
(* frame until it is cleared.                                               *)
SizeInv ==
    /\ \E f : IsSum(f, frames, size) /\ cache = f[Len(frames)]
    /\ cache <= MaxGroupCache /\ Len(frames) <= MaxGroupFrames
    /\ frames # <<>> => offset + Len(frames) = Created
    /\ offset < Created \/ Created = 0

(* An empty deque has size 0.                                               *)
LEMMA NothingCached ==
    ASSUME NEW s, s = <<>>, NEW sizes
    PROVE  \E f : IsSum(f, s, sizes) /\ f[Len(s)] = 0
<1> DEFINE f == [i \in {0} |-> 0]
<1>1. Len(s) = 0 /\ 0..0 = {0} /\ 1..0 = {}
  OBVIOUS
<1>2. f \in [{0} -> Int] /\ f[0] = 0
  OBVIOUS
<1> HIDE DEF f
<1>3. IsSum(f, s, sizes)
  BY <1>1, <1>2 DEF IsSum
<1> QED BY <1>1, <1>2, <1>3

(* create_frame counts the new frame and takes off what evict pops, which   *)
(* is never the new frame: alone it is within both limits.                  *)
LEMMA SizeRecv ==
    ASSUME Inv, SizeInv, NEW n \in 0..MaxFrameSize, RecvSize(n)
    PROVE  SizeInv'
<1>1. PICK s : s = Append(frames, Created + 1)
  OBVIOUS
<1>2. PICK z : z = Append(size, n)
  OBVIOUS
<1>3. PICK f : IsSum(f, frames, size) /\ cache = f[Len(frames)]
  BY DEF SizeInv
<1>4. PICK l \in Nat : l = Len(frames)
  BY DEF Inv, Types
<1>5. /\ n \in Nat /\ Created \in Nat /\ offset + l = Created
      /\ \A i \in 1..l : frames[i] \in 1..Created
  <2>1. Types /\ CacheInv /\ wpc = "header"
    BY DEF Inv, RecvSize
  <2>2. n \in Nat /\ Created \in Nat /\ offset \in Nat
    BY <2>1, FrameAssumption DEF Types, Created
  <2>3. offset + l = Created /\ \A i \in 1..l : frames[i] = offset + i
    BY <1>4, <2>1 DEF CacheInv
  <2>4. \A i \in 1..l : offset + i \in 1..Created
    BY <2>2, <2>3
  <2> QED BY <2>2, <2>3, <2>4
<1>6. /\ s \in Seq(Nat) /\ Len(s) = l + 1 /\ s[l + 1] = Created + 1
      /\ \A i \in 1..l : s[i] = frames[i]
  BY <1>1, <1>4, <1>5 DEF Inv, Types
<1>7. z[Created + 1] = n /\ \A i \in 1..Created : z[i] = size[i]
  BY <1>2, <1>5 DEF Inv, Types, Created
<1>8. /\ f \in [0..l -> Int] /\ f[0] = 0
      /\ \A i \in 1..l : size[frames[i]] \in Nat /\ f[i] = f[i - 1] + size[frames[i]]
  BY <1>3, <1>4 DEF IsSum
<1> DEFINE h == [i \in 0..(l + 1) |-> IF i = l + 1 THEN f[l] + n ELSE f[i]]
<1>9. h \in [0..(l + 1) -> Int] /\ h[0] = 0 /\ h[l + 1] = f[l] + n /\ h[l] = f[l] /\ f[l] \in Int
  BY <1>5, <1>8
<1>10. ASSUME NEW i \in 1..(l + 1) PROVE z[s[i]] \in Nat /\ h[i] = h[i - 1] + z[s[i]]
  <2>1. CASE i = l + 1
    <3>1. z[s[i]] = n
      BY <1>6, <1>7, <2>1
    <3>2. i - 1 = l
      BY <2>1
    <3> QED BY <1>5, <1>9, <2>1, <3>1, <3>2
  <2>2. CASE i # l + 1
    <3>1. i \in 1..l /\ h[i] = f[i] /\ h[i - 1] = f[i - 1]
      BY <2>2
    <3>2. z[s[i]] = size[frames[i]]
      BY <1>5, <1>6, <1>7, <3>1
    <3> QED BY <1>8, <3>1, <3>2
  <2> QED BY <2>1, <2>2
<1> HIDE DEF h
<1>11. IsSum(h, s, z)
  BY <1>6, <1>9, <1>10 DEF IsSum
<1>12. \A j \in 0..(l + 1) : SizeOf(SubSeq(s, 1, j), z) = h[j]
  BY <1>6, <1>11, FrontSize
<1>13. PICK k \in 0..(l + 1) :
         /\ k = l + 1 \/ Fits(s, n, k)
         /\ \A j \in 0..(k - 1) : ~Fits(s, n, j)
         /\ frames' = SubSeq(s, k + 1, Len(s)) /\ offset' = offset + k
         /\ cache' = cache + n - SizeOf(SubSeq(s, 1, k), z)
         /\ size' = z
  BY <1>1, <1>2, <1>6 DEF RecvSize, AppendFrame
<1>14. \A j \in 0..(l + 1) : Fits(s, n, j) <=> f[l] + n - h[j] <= MaxGroupCache /\ (l + 1) - j <= MaxGroupFrames
  BY <1>2, <1>3, <1>4, <1>6, <1>12 DEF Fits
<1>15. Fits(s, n, l)
  <2>1. n <= MaxGroupCache /\ 1 <= MaxGroupFrames
    BY FrameAssumption, GroupAssumption
  <2>2. f[l] + n - h[l] = n /\ (l + 1) - l = 1
    BY <1>5, <1>9
  <2>3. l \in 0..(l + 1)
    OBVIOUS
  <2> QED BY <1>14, <2>1, <2>2, <2>3
<1>16. k \in 0..l /\ Fits(s, n, k)
  BY <1>13, <1>15
<1>17. cache' = h[l + 1] - h[k] /\ cache' <= MaxGroupCache /\ (l + 1) - k <= MaxGroupFrames
  <2>1. cache' = f[l] + n - h[k]
    BY <1>3, <1>4, <1>12, <1>13
  <2> QED BY <1>9, <1>13, <1>14, <1>16, <2>1
<1>18. \E g : IsSum(g, frames', size') /\ cache' = g[Len(frames')]
  <2>1. k \in 0..Len(s)
    BY <1>6, <1>13
  <2>2. s \in Seq(Nat)
    BY <1>6
  <2>3. PICK g : /\ IsSum(g, SubSeq(s, k + 1, Len(s)), z)
                 /\ g[Len(s) - k] = h[Len(s)] - h[k]
    BY <1>11, <2>1, <2>2, RestSum
  <2>4. /\ h[Len(s)] = h[l + 1] /\ size' = z /\ frames' = SubSeq(s, k + 1, Len(s))
        /\ Len(frames') = Len(s) - k
    BY <1>6, <1>13
  <2> QED BY <1>17, <2>3, <2>4
<1>19. Len(frames') = (l + 1) - k /\ Created' = Created + 1
  BY <1>2, <1>6, <1>13 DEF Inv, Types, Created
<1>20. offset' + Len(frames') = Created' /\ offset' < Created'
  <2>1. offset \in Nat /\ k \in Nat /\ k <= l
    BY <1>16 DEF Inv, Types
  <2>2. offset' + Len(frames') = (offset + k) + ((l + 1) - k)
    BY <1>13, <1>19
  <2>3. (offset + k) + ((l + 1) - k) = Created + 1 /\ offset + k < Created + 1
    BY <1>5, <2>1
  <2> QED BY <1>13, <1>19, <2>2, <2>3
<1> QED BY <1>17, <1>18, <1>19, <1>20 DEF SizeInv

(* The size of the cache is exact, its limits hold, and the newest frame of *)
(* a live group is in it: append_frame, evict, abort and drop keep the      *)
(* counter right, for frames of any sizes and for any limits of which the   *)
(* one in bytes admits a single frame.                                      *)
THEOREM CacheIsExact == Spec => []CacheExact
<1>1. Init => SizeInv
  <2> SUFFICES ASSUME Init PROVE SizeInv
    OBVIOUS
  <2>1. frames = <<>> /\ cache = 0 /\ Created = 0 /\ Len(frames) = 0
    BY DEF Init, FrameInit, Created
  <2>2. 0 <= MaxGroupCache /\ 0 <= MaxGroupFrames
    BY GroupAssumption
  <2> QED BY <2>1, <2>2, NothingCached DEF SizeInv
<1>2. Inv /\ SizeInv /\ [Next]_vars => SizeInv'
  <2> SUFFICES ASSUME Inv, SizeInv, [Next]_vars PROVE SizeInv'
    OBVIOUS
  <2>1. ASSUME NEW n \in 0..MaxFrameSize, RecvSize(n) PROVE SizeInv'
    BY <2>1, SizeRecv
  <2>2. CASE frames' = <<>> /\ cache' = 0 /\ UNCHANGED <<offset, size>>
    <3>1. 0 <= MaxGroupCache /\ 0 <= MaxGroupFrames /\ Len(frames') = 0
      BY <2>2, GroupAssumption
    <3> QED BY <2>2, <3>1, NothingCached DEF SizeInv, Created
  <2>3. CASE UNCHANGED <<frames, cache, offset, size>>
    BY <2>3 DEF SizeInv, Created
  <2> QED BY <2>1, <2>2, <2>3, DequeSteps
<1>3. Inv /\ SizeInv => CacheExact
  <2> SUFFICES ASSUME Inv, SizeInv PROVE CacheExact
    OBVIOUS
  <2>1. cache = SizeOf(frames, size)
    <3>1. PICK f : IsSum(f, frames, size) /\ cache = f[Len(frames)]
      BY DEF SizeInv
    <3>2. Len(frames) \in Nat
      BY DEF Inv, Types
    <3> QED BY <3>1, <3>2, SizeIsSum
  <2>2. frames # <<>> => frames[Len(frames)] = Created
    <3>1. frames # <<>> => Len(frames) \in 1..Len(frames)
      BY DEF Inv, Types
    <3> QED BY <3>1 DEF SizeInv, Inv, CacheInv
  <2> QED BY <2>1, <2>2 DEF SizeInv, Inv, CacheInv, CacheExact
<1> QED BY <1>1, <1>2, <1>3, GroupInvariant, PTL DEF Spec

=============================================================================

----------------------- MODULE RawBatchPipeline_proofs -----------------------
(* Proofs of the safety properties of RawBatchPipeline, and of its         *)
(* refinement of BatchLifecycle.                                           *)
EXTENDS RawBatchPipeline, FiniteSetTheorems, TLAPS

USE RawBatchAssumption

-----------------------------------------------------------------------------
(***************************************************************************)
(* Records.                                                                *)
(***************************************************************************)
LEMMA RecordOf ==
  ASSUME NEW b \in Batches, NEW n \in 1..Size[b]
  PROVE  <<b, n>> \in RecordsOf(b) /\ <<b, n>> \in Records
BY DEF RecordsOf, Records

LEMMA RecordsOfType ==
  ASSUME NEW b \in Batches, NEW k \in RecordsOf(b)
  PROVE  k \in Records /\ k = <<b, k[2]>> /\ k[2] \in 1..Size[b]
BY DEF RecordsOf, Records

LEMMA RecordsSplit ==
  ASSUME NEW k \in Records
  PROVE  \E b \in Batches : k \in RecordsOf(b)
BY DEF Records

LEMMA EmittedIsFinite ==
  ASSUME NEW b \in Batches
  PROVE  IsFiniteSet(Emitted(b)) /\ Cardinality(Emitted(b)) \in Nat
<1>1. IsFiniteSet({b}) /\ IsFiniteSet(1..Size[b])
  <2>1. Size[b] \in Int /\ 1 \in Int
    OBVIOUS
  <2>. QED
    BY <2>1, FS_Singleton, FS_Interval
<1>2. IsFiniteSet(RecordsOf(b))
  BY <1>1, FS_Product DEF RecordsOf
<1>3. Emitted(b) \subseteq RecordsOf(b)
  BY DEF Emitted
<1>4. IsFiniteSet(Emitted(b))
  BY <1>2, <1>3, FS_Subset
<1>. QED
  BY <1>4, FS_CardinalityType

-----------------------------------------------------------------------------
(***************************************************************************)
(* Types.                                                                  *)
(***************************************************************************)
LEMMA BusyBatch ==
  ASSUME TypeOK, NEW w \in Workers, ~At(w, "idle")
  PROVE  worker[w].batch \in Batches
BY DEF TypeOK, Calls, At

LEMMA ChunkEndType ==
  ASSUME TypeOK, NEW w \in Workers, At(w, "upload"), MoreChunks(w)
  PROVE  /\ ChunkEnd(w) \in Nat /\ ChunkEnd(w) >= worker[w].next
         /\ ChunkEnd(w) <= Size[worker[w].batch]
<1>1. worker[w].batch \in Batches /\ worker[w].next \in Nat
  BY BusyBatch DEF TypeOK, Calls, At
<1>2. Size[worker[w].batch] \in Nat
  BY <1>1
<1>. QED
  BY <1>1, <1>2 DEF ChunkEnd, MoreChunks

LEMMA InitTypeOK == Init => TypeOK
BY DEF Init, TypeOK, Rows, Calls, NewRow, Idle, BatchStatus, PublishStatus, Steps

(***************************************************************************)
(* What the moves of a call do to its record, field by field.              *)
(***************************************************************************)
Moved(w) == \A v \in Workers \ {w} : worker'[v] = worker[v]

LEMMA GotoMoves ==
  ASSUME worker \in [Workers -> Calls], NEW w \in Workers, NEW pc \in Steps, Goto(w, pc)
  PROVE  /\ worker' \in [Workers -> Calls] /\ Moved(w)
         /\ worker'[w].pc = pc
         /\ worker'[w].batch = worker[w].batch /\ worker'[w].next = worker[w].next
         /\ worker'[w].sent = worker[w].sent /\ worker'[w].failed = worker[w].failed
BY DEF Goto, Calls, Moved

LEMMA TurnMoves ==
  ASSUME worker \in [Workers -> Calls], NEW w \in Workers, NEW pc \in Steps, Turn(w, pc)
  PROVE  /\ worker' \in [Workers -> Calls] /\ Moved(w)
         /\ worker'[w].pc = pc /\ worker'[w].next = 1
         /\ worker'[w].batch = worker[w].batch
         /\ worker'[w].sent = worker[w].sent /\ worker'[w].failed = worker[w].failed
BY DEF Turn, Calls, Moved

LEMMA ReturnMoves ==
  ASSUME worker \in [Workers -> Calls], NEW w \in Workers, Return(w)
  PROVE  worker' \in [Workers -> Calls] /\ Moved(w) /\ worker'[w].pc = "idle"
BY DEF Return, Idle, Calls, Moved, Steps

LEMMA ClaimMoves ==
  ASSUME worker \in [Workers -> Calls], NEW w \in Workers, NEW b \in Batches,
         worker' = [worker EXCEPT ![w] = [Idle EXCEPT !.pc = "download", !.batch = b]]
  PROVE  /\ worker' \in [Workers -> Calls] /\ Moved(w)
         /\ worker'[w].pc = "download" /\ worker'[w].batch = b
         /\ worker'[w].sent = 0 /\ worker'[w].failed = 0
BY DEF Idle, Calls, Moved, Steps

LEMMA PublishMoves ==
  ASSUME worker \in [Workers -> Calls], NEW w \in Workers, PublishRecord(w)
  PROVE  /\ worker' \in [Workers -> Calls] /\ Moved(w)
         /\ worker'[w].pc = "parse" /\ worker'[w].next = worker[w].next + 1
         /\ worker'[w].batch = worker[w].batch
         /\ \/ /\ Deliver(w)
               /\ worker'[w].sent = worker[w].sent + 1
               /\ worker'[w].failed = worker[w].failed
            \/ /\ Deliver(w) \/ UNCHANGED topic
               /\ worker'[w].sent = worker[w].sent
               /\ worker'[w].failed = worker[w].failed + 1
BY DEF PublishRecord, At, Calls, Moved

LEMMA UploadMoves ==
  ASSUME worker \in [Workers -> Calls], NEW w \in Workers, At(w, "upload"),
         ChunkEnd(w) \in Nat,
         worker' = [worker EXCEPT ![w].next = ChunkEnd(w) + 1]
  PROVE  /\ worker' \in [Workers -> Calls] /\ Moved(w)
         /\ worker'[w].pc = "upload" /\ worker'[w].next = ChunkEnd(w) + 1
         /\ worker'[w].batch = worker[w].batch
         /\ worker'[w].sent = worker[w].sent /\ worker'[w].failed = worker[w].failed
BY DEF At, Calls, Moved

(* The one row a verdict writes.                                           *)
LEMMA WrittenRow ==
  ASSUME TypeOK, NEW w \in Workers, worker[w].batch \in Batches,
         NEW status \in BatchStatus, NEW publish \in PublishStatus,
         Written(w, status, publish)
  PROVE  /\ row' \in [Batches -> Rows]
         /\ \A b \in Batches \ {worker[w].batch} : row'[b] = row[b]
         /\ row'[worker[w].batch] = [status |-> status, publish |-> publish,
                                     sent |-> worker[w].sent, failed |-> worker[w].failed]
BY DEF Written, TypeOK, Rows, Calls

LEMMA MarkedRow ==
  ASSUME row \in [Batches -> Rows], NEW b \in Batches,
         row' = [row EXCEPT ![b].status = "DOWNLOADED"]
  PROVE  /\ row' \in [Batches -> Rows]
         /\ \A c \in Batches \ {b} : row'[c] = row[c]
         /\ row'[b].status = "DOWNLOADED" /\ row'[b].publish = row[b].publish
BY DEF Rows, BatchStatus

LEMMA ClaimedRow ==
  ASSUME row \in [Batches -> Rows], NEW b \in Batches,
         row' = [row EXCEPT ![b].publish = "PUBLISHING"]
  PROVE  /\ row' \in [Batches -> Rows]
         /\ \A c \in Batches \ {b} : row'[c] = row[c]
         /\ row'[b].status = row[b].status /\ row'[b].publish = "PUBLISHING"
BY DEF Rows, PublishStatus

LEMMA VerdictType ==
  ASSUME NEW w \in Workers
  PROVE  Verdict(w) \in {"SUCCESS", "FAILED"}
BY DEF Verdict

LEMMA NextTypeOK == TypeOK /\ [Next]_vars => TypeOK'
<1>. SUFFICES ASSUME TypeOK, [Next]_vars PROVE TypeOK'
  OBVIOUS
<1>. DEFINE WorkersOK == /\ worker \in [Workers -> Calls]
                         /\ \A w \in Workers :
                              /\ worker[w].pc # "idle" => worker[w].batch # None
                              /\ worker[w].pc \in {"parse", "upload"} => worker[w].next > 0
<1>0. WorkersOK /\ \A b \in Batches : b # None
  BY DEF TypeOK
<1>1. ASSUME NEW w \in Workers, NEW pc \in Steps \ {"parse", "upload"}, Goto(w, pc),
             ~At(w, "idle")
      PROVE  WorkersOK'
  BY <1>0, <1>1, GotoMoves DEF Moved, At
<1>2. ASSUME NEW w \in Workers, NEW pc \in Steps, Turn(w, pc), ~At(w, "idle")
      PROVE  WorkersOK'
  BY <1>0, <1>2, TurnMoves DEF Moved, At
<1>3. ASSUME NEW w \in Workers, Return(w) PROVE WorkersOK'
  BY <1>0, <1>3, ReturnMoves DEF Moved
<1>4. ASSUME UNCHANGED worker PROVE WorkersOK'
  BY <1>0, <1>4
<1>. HIDE DEF WorkersOK
<1>5. /\ TypeOK <=> /\ row \in [Batches -> Rows]
                    /\ topic \in [Records -> Nat]
                    /\ stored \subseteq Records
                    /\ WorkersOK
                    /\ lost \subseteq Batches
      /\ TypeOK' <=> /\ row' \in [Batches -> Rows]
                     /\ topic' \in [Records -> Nat]
                     /\ stored' \subseteq Records
                     /\ WorkersOK'
                     /\ lost' \subseteq Batches
  BY DEF TypeOK, WorkersOK
<1>6. {"download", "mark", "parse", "upload", "fail"} \subseteq Steps
  BY DEF Steps
<1>a. ASSUME NEW w \in Workers, NEW b \in Batches, ClaimRawBatchForParsing(w, b) PROVE TypeOK'
  <2>1. row' \in [Batches -> Rows]
    BY <1>a, <1>5, ClaimedRow DEF ClaimRawBatchForParsing
  <2>2. CASE UNCHANGED worker
    BY <1>a, <1>4, <1>5, <2>1, <2>2 DEF ClaimRawBatchForParsing
  <2>3. CASE worker' = [worker EXCEPT ![w] = [Idle EXCEPT !.pc = "download", !.batch = b]]
    <3>1. WorkersOK'
      BY <1>0, <2>3, ClaimMoves DEF Moved, WorkersOK
    <3>. QED
      BY <1>a, <1>5, <2>1, <3>1 DEF ClaimRawBatchForParsing
  <2>. QED
    BY <1>a, <2>2, <2>3 DEF ClaimRawBatchForParsing
<1>b. ASSUME NEW w \in Workers, Download(w) PROVE TypeOK'
  BY <1>b, <1>1, <1>5, <1>6 DEF Download, At
<1>c. ASSUME NEW w \in Workers, MarkRawBatchDownloaded(w) PROVE TypeOK'
  <2>1. worker[w].batch \in Batches /\ ~At(w, "idle")
    BY <1>c, BusyBatch DEF MarkRawBatchDownloaded, At
  <2>2. WorkersOK'
    BY <1>c, <1>1, <1>2, <1>6, <2>1 DEF MarkRawBatchDownloaded
  <2>3. row' \in [Batches -> Rows]
    BY <1>c, <1>5, <2>1, MarkedRow DEF MarkRawBatchDownloaded
  <2>. QED
    BY <1>c, <1>5, <2>2, <2>3 DEF MarkRawBatchDownloaded
<1>d. ASSUME NEW w \in Workers, RejectPayload(w) PROVE TypeOK'
  BY <1>d, <1>1, <1>5, <1>6 DEF RejectPayload, At
<1>e. ASSUME NEW w \in Workers, PublishRecord(w) PROVE TypeOK'
  <2>1. topic' \in [Records -> Nat]
    BY <1>e, <1>5 DEF PublishRecord, Deliver
  <2>2. WorkersOK'
    <3>1. worker[w].next \in Nat /\ worker[w].batch # None
      BY <1>0, <1>e DEF WorkersOK, Calls, PublishRecord, At
    <3>. QED
      BY <1>0, <1>e, <3>1, PublishMoves DEF WorkersOK, Moved
  <2>. QED
    BY <1>e, <1>5, <2>1, <2>2 DEF PublishRecord
<1>f. ASSUME NEW w \in Workers, ParserReturns(w) PROVE TypeOK'
  BY <1>f, <1>2, <1>5, <1>6 DEF ParserReturns, At
<1>g. ASSUME NEW w \in Workers, UploadChunk(w) PROVE TypeOK'
  <2>1. At(w, "upload") /\ MoreChunks(w)
    BY <1>g DEF UploadChunk
  <2>2. /\ ChunkEnd(w) \in Nat /\ ChunkEnd(w) <= Size[worker[w].batch]
        /\ worker[w].batch \in Batches /\ worker[w].next \in Nat /\ worker[w].next > 0
    BY <1>0, <2>1, ChunkEndType, BusyBatch DEF WorkersOK, At, Calls
  <2>3. {worker[w].batch} \X (worker[w].next..ChunkEnd(w)) \subseteq Records
    <3>1. worker[w].next..ChunkEnd(w) \subseteq 1..Size[worker[w].batch]
      BY <2>2
    <3>. QED
      BY <2>2, <3>1 DEF Records, RecordsOf
  <2>4. stored' \subseteq Records
    BY <1>g, <1>5, <2>3 DEF UploadChunk, Upload
  <2>5. CASE Goto(w, "fail")
    BY <1>g, <1>1, <1>5, <1>6, <2>1, <2>4, <2>5 DEF UploadChunk, At
  <2>6. CASE worker' = [worker EXCEPT ![w].next = ChunkEnd(w) + 1]
    <3>1. WorkersOK'
      <4>1. worker[w].batch # None /\ ChunkEnd(w) + 1 > 0
        BY <1>0, <2>2
      <4>2. /\ worker' \in [Workers -> Calls] /\ Moved(w)
            /\ worker'[w].next = ChunkEnd(w) + 1 /\ worker'[w].batch = worker[w].batch
        BY <1>0, <2>1, <2>2, <2>6, UploadMoves DEF WorkersOK
      <4>. QED
        BY <1>0, <4>1, <4>2 DEF WorkersOK, Moved
    <3>. QED
      BY <1>g, <1>5, <2>4, <3>1 DEF UploadChunk
  <2>. QED
    BY <1>g, <2>5, <2>6 DEF UploadChunk
<1>h. ASSUME NEW w \in Workers, MarkRawBatchParsed(w) PROVE TypeOK'
  <2>1. worker[w].batch \in Batches /\ ~At(w, "idle")
    BY <1>h, BusyBatch DEF MarkRawBatchParsed, At
  <2>2. WorkersOK'
    BY <1>h, <1>1, <1>3, <1>6, <2>1 DEF MarkRawBatchParsed
  <2>3. row' \in [Batches -> Rows]
    <3>1. Verdict(w) \in PublishStatus /\ "PARSED" \in BatchStatus
      BY VerdictType DEF PublishStatus, BatchStatus
    <3>. QED
      BY <1>h, <1>5, <2>1, <3>1, WrittenRow DEF MarkRawBatchParsed
  <2>. QED
    BY <1>h, <1>5, <2>2, <2>3 DEF MarkRawBatchParsed
<1>i. ASSUME NEW w \in Workers, MarkRawBatchFailed(w) PROVE TypeOK'
  <2>1. worker[w].batch \in Batches
    BY <1>i, BusyBatch DEF MarkRawBatchFailed, At
  <2>2. WorkersOK'
    BY <1>i, <1>3 DEF MarkRawBatchFailed
  <2>3. row' \in [Batches -> Rows]
    <3>1. "PENDING" \in PublishStatus /\ "FAILED" \in BatchStatus
      BY DEF PublishStatus, BatchStatus
    <3>. QED
      BY <1>i, <1>5, <2>1, <3>1, WrittenRow DEF MarkRawBatchFailed
  <2>. QED
    BY <1>i, <1>5, <2>1, <2>2, <2>3 DEF MarkRawBatchFailed
<1>j. ASSUME NEW w \in Workers, Crash(w) PROVE TypeOK'
  BY <1>j, <1>3, <1>5, BusyBatch DEF Crash
<1>k. CASE UNCHANGED vars
  BY <1>k, <1>4, <1>5 DEF vars
<1>. QED
  BY <1>a, <1>b, <1>c, <1>d, <1>e, <1>f, <1>g, <1>h, <1>i, <1>j, <1>k DEF Next, WorkerStep

-----------------------------------------------------------------------------
(***************************************************************************)
(* Frames: a step of a call touches its own record, row and records only.  *)
(***************************************************************************)
LEMMA Delivered ==
  ASSUME TypeOK, CallsAgree, NEW w \in Workers, NEW b \in Batches, worker[w].batch = b,
         At(w, "parse"), Deliver(w), worker[w].next <= Size[b]
  PROVE  /\ topic[Current(w)] = 0
         /\ topic' = [topic EXCEPT ![Current(w)] = 1]
         /\ Emitted(b)' = Emitted(b) \cup {Current(w)}
         /\ Cardinality(Emitted(b))' = Cardinality(Emitted(b)) + 1
         /\ \A c \in Batches \ {b} : Emitted(c)' = Emitted(c)
<1>. DEFINE n == worker[w].next
<1>1. n \in Nat /\ n > 0 /\ n \in 1..Size[b]
  BY DEF TypeOK, Calls, At
<1>2. Current(w) \in RecordsOf(b) /\ Current(w) \in Records /\ Current(w)[2] = n
  BY <1>1, RecordOf DEF Current
<1>3. Current(w) \notin Emitted(b)
  <2>1. Handled(w, b) = 1..(n - 1)
    BY DEF Handled, At
  <2>2. n \notin 1..(n - 1)
    BY <1>1
  <2>. QED
    BY <1>2, <2>1, <2>2 DEF CallsAgree, Agrees, Holds, At
<1>4. topic[Current(w)] = 0 /\ topic \in [Records -> Nat]
  BY <1>2, <1>3 DEF Emitted, TypeOK
<1>5. topic' = [topic EXCEPT ![Current(w)] = 1]
  BY <1>4 DEF Deliver
<1>6. \A k \in Records : topic'[k] = IF k = Current(w) THEN 1 ELSE topic[k]
  BY <1>4, <1>5
<1>7. Emitted(b)' = Emitted(b) \cup {Current(w)}
  <2>1. Emitted(b)' = {k \in RecordsOf(b) : topic'[k] > 0}
    BY DEF Emitted, RecordsOf
  <2>2. RecordsOf(b) \subseteq Records
    BY <1>1, RecordsOfType
  <2>. QED
    BY <1>2, <1>6, <2>1, <2>2 DEF Emitted
<1>8. Cardinality(Emitted(b))' = Cardinality(Emitted(b)) + 1
  BY <1>1, <1>3, <1>7, EmittedIsFinite, FS_AddElement
<1>9. ASSUME NEW c \in Batches \ {b} PROVE Emitted(c)' = Emitted(c)
  <2>1. \A k \in RecordsOf(c) : k \in Records /\ k # Current(w)
    BY RecordsOfType DEF Current, RecordsOf
  <2>2. \A k \in RecordsOf(c) : topic'[k] = topic[k]
    BY <1>6, <2>1
  <2>. QED
    BY <2>2 DEF Emitted, RecordsOf
<1>. QED
  BY <1>4, <1>5, <1>7, <1>8, <1>9

LEMMA QuietTopic ==
  ASSUME UNCHANGED topic
  PROVE  \A b \in Batches : /\ Emitted(b)' = Emitted(b)
                            /\ Cardinality(Emitted(b))' = Cardinality(Emitted(b))
BY DEF Emitted, RecordsOf

(* All steps of calls but the claim.                                       *)
Works(w) == WorkerStep(w) \/ Crash(w)
OthersUntouched(w) ==
  LET b == worker[w].batch
  IN  /\ Moved(w) /\ (worker'[w].pc = "idle" \/ worker'[w].batch = b)
      /\ \A c \in Batches \ {b} : row'[c] = row[c]
      /\ \A c \in Batches \ {b} : Emitted(c)' = Emitted(c)
      /\ stored \subseteq stored'

LEMMA StepFrame ==
  ASSUME TypeOK, CallsAgree, NEW w \in Workers, Works(w)
  PROVE  ~At(w, "idle") /\ worker[w].batch \in Batches /\ OthersUntouched(w)
<1>1. ~At(w, "idle")
  BY DEF Works, WorkerStep, Download, MarkRawBatchDownloaded, RejectPayload, PublishRecord,
         ParserReturns, UploadChunk, MarkRawBatchParsed, MarkRawBatchFailed, Crash, At
<1>2. worker[w].batch \in Batches /\ worker \in [Workers -> Calls] /\ row \in [Batches -> Rows]
  BY <1>1, BusyBatch DEF TypeOK
<1>3. {"download", "mark", "parse", "upload", "fail"} \subseteq Steps
  BY DEF Steps
<1>4. /\ "PARSED" \in BatchStatus /\ "FAILED" \in BatchStatus
      /\ "PENDING" \in PublishStatus /\ Verdict(w) \in PublishStatus
  BY VerdictType DEF BatchStatus, PublishStatus
<1>. SUFFICES OthersUntouched(w)
  BY <1>1, <1>2
<1>. USE DEF OthersUntouched
<1>a. CASE Download(w)
  BY <1>a, <1>2, <1>3, GotoMoves, QuietTopic DEF Download
<1>b. CASE MarkRawBatchDownloaded(w)
  BY <1>b, <1>2, <1>3, GotoMoves, TurnMoves, MarkedRow, QuietTopic DEF MarkRawBatchDownloaded
<1>c. CASE RejectPayload(w)
  BY <1>c, <1>2, <1>3, GotoMoves, QuietTopic DEF RejectPayload
<1>d. CASE PublishRecord(w)
  <2>1. \A c \in Batches \ {worker[w].batch} : Emitted(c)' = Emitted(c)
    BY <1>d, <1>2, Delivered, QuietTopic DEF PublishRecord
  <2>. QED
    BY <1>d, <1>2, <2>1, PublishMoves DEF PublishRecord
<1>e. CASE ParserReturns(w)
  BY <1>e, <1>2, <1>3, TurnMoves, QuietTopic DEF ParserReturns
<1>f. CASE UploadChunk(w)
  <2>1. stored \subseteq stored'
    BY <1>f DEF UploadChunk, Upload
  <2>. QED
    BY <1>f, <1>2, <1>3, <2>1, GotoMoves, UploadMoves, ChunkEndType, QuietTopic DEF UploadChunk
<1>g. CASE MarkRawBatchParsed(w)
  <2>1. \A c \in Batches \ {worker[w].batch} : row'[c] = row[c]
    BY <1>g, <1>2, <1>4, WrittenRow DEF MarkRawBatchParsed
  <2>. QED
    BY <1>g, <1>2, <1>3, <2>1, GotoMoves, ReturnMoves, QuietTopic DEF MarkRawBatchParsed
<1>h. CASE MarkRawBatchFailed(w)
  <2>1. \A c \in Batches \ {worker[w].batch} : row'[c] = row[c]
    BY <1>h, <1>2, <1>4, WrittenRow DEF MarkRawBatchFailed
  <2>. QED
    BY <1>h, <1>2, <2>1, ReturnMoves, QuietTopic DEF MarkRawBatchFailed
<1>i. CASE Crash(w)
  BY <1>i, <1>2, ReturnMoves, QuietTopic DEF Crash
<1>. QED
  BY <1>1, <1>2, <1>a, <1>b, <1>c, <1>d, <1>e, <1>f, <1>g, <1>h, <1>i DEF Works, WorkerStep

(* The four things a step of a call may do to the row of its batch.        *)
Kept(w, b) ==
  /\ row'[b] = row[b]
  /\ worker'[w].pc = "idle" => b \in lost'
  /\ At(w, "fail") => worker'[w].pc = "idle"
Marked(w, b) ==
  /\ At(w, "mark")
  /\ row'[b].status = "DOWNLOADED" /\ row'[b].publish = row[b].publish
  /\ worker'[w].pc # "idle" /\ UNCHANGED topic
Parsed(w, b) ==
  /\ At(w, "upload") /\ ~MoreChunks(w)
  /\ row'[b] = [status |-> "PARSED", publish |-> Verdict(w),
                sent |-> worker[w].sent, failed |-> worker[w].failed]
  /\ worker'[w].pc \in {"idle", "fail"} /\ UNCHANGED <<topic, stored>>
Dropped(w, b) ==
  /\ At(w, "fail")
  /\ row'[b] = [status |-> "FAILED", publish |-> "PENDING",
                sent |-> worker[w].sent, failed |-> worker[w].failed]
  /\ worker'[w].pc = "idle" /\ UNCHANGED <<topic, stored>>

LEMMA OwnRow ==
  ASSUME TypeOK, NEW w \in Workers, NEW b \in Batches, worker[w].batch = b, Works(w)
  PROVE  /\ lost \subseteq lost'
         /\ Kept(w, b) \/ Marked(w, b) \/ Parsed(w, b) \/ Dropped(w, b)
<1>1. worker \in [Workers -> Calls] /\ row \in [Batches -> Rows]
  BY DEF TypeOK
<1>2. {"download", "mark", "parse", "upload", "fail"} \subseteq Steps
  BY DEF Steps
<1>3. /\ "PARSED" \in BatchStatus /\ "FAILED" \in BatchStatus
      /\ "PENDING" \in PublishStatus /\ Verdict(w) \in PublishStatus
  BY VerdictType DEF BatchStatus, PublishStatus
<1>a. CASE Download(w)
  BY <1>a, <1>1, <1>2, GotoMoves DEF Download, Kept, At
<1>b. CASE MarkRawBatchDownloaded(w)
  <2>1. CASE row' = [row EXCEPT ![b].status = "DOWNLOADED"]
    BY <1>b, <1>1, <1>2, <2>1, GotoMoves, TurnMoves, MarkedRow DEF MarkRawBatchDownloaded, Marked
  <2>2. CASE Goto(w, "fail") /\ UNCHANGED row
    BY <1>b, <1>1, <1>2, <2>2, GotoMoves DEF MarkRawBatchDownloaded, Kept, At
  <2>. QED
    BY <1>b, <2>1, <2>2 DEF MarkRawBatchDownloaded
<1>c. CASE RejectPayload(w)
  BY <1>c, <1>1, <1>2, GotoMoves DEF RejectPayload, Kept, At
<1>d. CASE PublishRecord(w)
  BY <1>d, <1>1, PublishMoves DEF PublishRecord, Kept, At
<1>e. CASE ParserReturns(w)
  BY <1>e, <1>1, <1>2, TurnMoves DEF ParserReturns, Kept, At
<1>f. CASE UploadChunk(w)
  BY <1>f, <1>1, <1>2, GotoMoves, UploadMoves, ChunkEndType DEF UploadChunk, Kept, At
<1>g. CASE MarkRawBatchParsed(w)
  <2>1. CASE Written(w, "PARSED", Verdict(w))
    BY <1>g, <1>1, <1>2, <1>3, <2>1, WrittenRow, GotoMoves, ReturnMoves
    DEF MarkRawBatchParsed, Parsed
  <2>2. CASE Goto(w, "fail") /\ UNCHANGED row
    BY <1>g, <1>1, <1>2, <2>2, GotoMoves DEF MarkRawBatchParsed, Kept, At
  <2>. QED
    BY <1>g, <2>1, <2>2 DEF MarkRawBatchParsed
<1>h. CASE MarkRawBatchFailed(w)
  <2>1. CASE Written(w, "FAILED", "PENDING") /\ UNCHANGED lost
    BY <1>h, <1>1, <1>3, <2>1, WrittenRow, ReturnMoves DEF MarkRawBatchFailed, Dropped
  <2>2. CASE lost' = lost \cup {b} /\ UNCHANGED row
    BY <1>h, <1>1, <2>2, ReturnMoves DEF MarkRawBatchFailed, Kept
  <2>. QED
    BY <1>h, <2>1, <2>2 DEF MarkRawBatchFailed
<1>i. CASE Crash(w)
  BY <1>i, <1>1, ReturnMoves DEF Crash, Kept
<1>. QED
  BY <1>a, <1>b, <1>c, <1>d, <1>e, <1>f, <1>g, <1>h, <1>i DEF Works, WorkerStep

-----------------------------------------------------------------------------
(***************************************************************************)
(* The parts of the inductive invariant, one lemma each.                   *)
(***************************************************************************)
LEMMA InitIInv == Init => IInv
<1>. SUFFICES ASSUME Init PROVE IInv
  OBVIOUS
<1>1. TypeOK
  BY InitTypeOK
<1>2. \A b \in Batches : Emitted(b) = {} /\ row[b] = NewRow
  BY RecordsOfType DEF Init, Emitted
<1>3. \A w \in Workers : At(w, "idle")
  BY DEF Init, Idle, At
<1>4. OneHolder /\ HeldIsTaken /\ CallsAgree
  BY <1>3 DEF OneHolder, HeldIsTaken, CallsAgree, Holds, At
<1>5. ClaimableIsFresh /\ TopicIsAccounted /\ ParsedIsWhole /\ ClaimedIsHeld
  BY <1>2 DEF ClaimableIsFresh, TopicIsAccounted, ParsedIsWhole, ClaimedIsHeld, NewRow
<1>6. PublishedOnce
  BY DEF Init, PublishedOnce
<1>. QED
  BY <1>1, <1>4, <1>5, <1>6 DEF IInv

(* A call keeps agreeing while its record and its batch are left alone.    *)
LEMMA AgreesFrame ==
  ASSUME NEW v \in Workers, NEW c \in Batches, Agrees(v, c), worker'[v] = worker[v],
         Emitted(c)' = Emitted(c), stored \subseteq stored'
  PROVE  Agrees(v, c)'
<1>1. Handled(v, c)' = Handled(v, c)
  BY DEF Handled
<1>2. Cardinality(Emitted(c))' = Cardinality(Emitted(c)) /\ RecordsOf(c)' = RecordsOf(c)
  BY DEF RecordsOf
<1>. QED
  BY <1>1, <1>2 DEF Agrees, Brackets, At

LEMMA ClaimStep ==
  ASSUME IInv, TypeOK', NEW w \in Workers, NEW b \in Batches, ClaimRawBatchForParsing(w, b)
  PROVE  IInv'
<1>1. /\ TypeOK /\ worker \in [Workers -> Calls] /\ row \in [Batches -> Rows]
      /\ \A v \in Workers : ~At(v, "idle") => worker[v].batch \in Batches
  BY BusyBatch DEF IInv, TypeOK
<1>2. /\ \A c \in Batches \ {b} : row'[c] = row[c]
      /\ row'[b].status = "RECEIVED" /\ row'[b].publish = "PUBLISHING"
  BY <1>1, ClaimedRow DEF ClaimRawBatchForParsing, Claimable
<1>3. \A c \in Batches : /\ Emitted(c)' = Emitted(c)
                         /\ Cardinality(Emitted(c))' = Cardinality(Emitted(c))
  BY QuietTopic DEF ClaimRawBatchForParsing
<1>4. Emitted(b) = {}
  BY DEF IInv, ClaimableIsFresh, ClaimRawBatchForParsing
<1>5. \A v \in Workers : ~At(v, "idle") => worker[v].batch # b
  BY DEF IInv, HeldIsTaken, Holds, At, ClaimRawBatchForParsing, Claimable
<1>6. /\ \A v \in Workers \ {w} : worker'[v] = worker[v]
      /\ At(w, "idle")
      /\ \/ worker'[w] = worker[w] /\ b \in lost'
         \/ /\ worker'[w].pc = "download" /\ worker'[w].batch = b
            /\ worker'[w].sent = 0 /\ worker'[w].failed = 0
  BY <1>1, ClaimMoves DEF ClaimRawBatchForParsing, Moved
<1>7. OneHolder'
  BY <1>5, <1>6 DEF IInv, OneHolder, Holds, At
<1>8. HeldIsTaken'
  BY <1>2, <1>5, <1>6 DEF IInv, HeldIsTaken, Holds, At
<1>9. ClaimableIsFresh'
  BY <1>2, <1>3 DEF IInv, ClaimableIsFresh, Claimable
<1>10. CallsAgree'
  <2>1. SUFFICES ASSUME NEW v \in Workers, NEW c \in Batches, Holds(v, c)' PROVE Agrees(v, c)'
    BY DEF CallsAgree
  <2>2. CASE worker'[v] = worker[v]
    <3>1. Agrees(v, c)
      BY <2>1, <2>2 DEF IInv, CallsAgree, Holds
    <3>. QED
      BY <1>3, <2>2, <3>1, AgreesFrame DEF ClaimRawBatchForParsing
  <2>3. CASE worker'[v] # worker[v]
    <3>1. /\ c = b /\ worker'[v].pc = "download"
          /\ worker'[v].sent = 0 /\ worker'[v].failed = 0
      BY <1>6, <2>1, <2>3 DEF Holds
    <3>2. Cardinality(Emitted(b))' = 0 /\ Emitted(b)' = {}
      BY <1>3, <1>4, FS_EmptySet
    <3>. QED
      BY <3>1, <3>2 DEF Agrees, Brackets, At
  <2>. QED
    BY <2>2, <2>3
<1>11. PublishedOnce' /\ TopicIsAccounted' /\ ParsedIsWhole'
  BY <1>2, <1>3
  DEF IInv, PublishedOnce, TopicIsAccounted, ParsedIsWhole, Brackets, ClaimRawBatchForParsing, RecordsOf
<1>12. ClaimedIsHeld'
  BY <1>2, <1>6 DEF IInv, ClaimedIsHeld, Holds, At, ClaimRawBatchForParsing
<1>. QED
  BY <1>7, <1>8, <1>9, <1>10, <1>11, <1>12 DEF IInv

(***************************************************************************)
(* The steps of a call that holds its batch, one lemma per part.           *)
(***************************************************************************)
LEMMA HoldersStep ==
  ASSUME IInv, NEW w \in Workers, Works(w)
  PROVE  OneHolder' /\ HeldIsTaken' /\ ClaimableIsFresh'
<1>. DEFINE mine == worker[w].batch
<1>1. ~At(w, "idle") /\ mine \in Batches /\ OthersUntouched(w)
  BY StepFrame DEF IInv
<1>2. PICK b \in Batches : b = mine /\ Holds(w, b)
  BY <1>1 DEF Holds, At
<1>3. Kept(w, b) \/ Marked(w, b) \/ Parsed(w, b) \/ Dropped(w, b)
  BY <1>2, OwnRow DEF IInv
<1>4. \A v \in Workers \ {w} : worker'[v] = worker[v] /\ ~Holds(v, b)
  BY <1>1, <1>2 DEF IInv, OneHolder, OthersUntouched, Moved
<1>5. /\ \A c \in Batches \ {b} : row'[c] = row[c] /\ Emitted(c)' = Emitted(c)
      /\ worker'[w].pc = "idle" \/ worker'[w].batch = b
  BY <1>1, <1>2 DEF OthersUntouched
<1>6. OneHolder'
  BY <1>2, <1>4, <1>5 DEF IInv, OneHolder, Holds
<1>7. \/ row[b].publish = "PUBLISHING" /\ row[b].status \in {"RECEIVED", "DOWNLOADED"}
      \/ At(w, "fail") /\ row[b].status = "PARSED"
  BY <1>2 DEF IInv, HeldIsTaken
<1>8. HeldIsTaken'
  <2>1. SUFFICES ASSUME NEW v \in Workers, NEW c \in Batches, Holds(v, c)'
                 PROVE  \/ /\ row'[c].publish = "PUBLISHING"
                           /\ row'[c].status \in {"RECEIVED", "DOWNLOADED"}
                        \/ worker'[v].pc = "fail" /\ row'[c].status = "PARSED"
    BY DEF HeldIsTaken, At
  <2>2. CASE v = w
    <3>1. c = b /\ worker'[w].pc # "idle"
      BY <1>5, <2>1, <2>2 DEF Holds
    <3>2. CASE Kept(w, b)
      BY <1>7, <2>2, <3>1, <3>2 DEF Kept
    <3>3. CASE Marked(w, b)
      BY <1>7, <2>2, <3>1, <3>3 DEF Marked, At
    <3>4. CASE Parsed(w, b)
      BY <2>2, <3>1, <3>4 DEF Parsed
    <3>5. CASE Dropped(w, b)
      BY <3>1, <3>5 DEF Dropped
    <3>. QED
      BY <1>3, <3>2, <3>3, <3>4, <3>5
  <2>3. CASE v # w
    <3>1. worker'[v] = worker[v] /\ Holds(v, c) /\ c # b
      BY <1>4, <2>1, <2>3 DEF Holds
    <3>. QED
      BY <1>5, <3>1 DEF IInv, HeldIsTaken, At
  <2>. QED
    BY <2>2, <2>3
<1>9. ClaimableIsFresh'
  <2>1. ~Claimable(b)'
    BY <1>3, <1>7, VerdictType DEF Kept, Marked, Parsed, Dropped, Claimable
  <2>2. ASSUME NEW c \in Batches, Claimable(c)' PROVE Emitted(c)' = {}
    BY <1>5, <2>1, <2>2 DEF IInv, ClaimableIsFresh, Claimable
  <2>. QED
    BY <2>2 DEF ClaimableIsFresh
<1>. QED
  BY <1>6, <1>8, <1>9

LEMMA CallsStep ==
  ASSUME IInv, NEW w \in Workers, Works(w)
  PROVE  CallsAgree'
<1>. DEFINE mine == worker[w].batch
<1>1. ~At(w, "idle") /\ mine \in Batches /\ OthersUntouched(w)
  BY StepFrame DEF IInv
<1>2. PICK b \in Batches : b = mine /\ Holds(w, b)
  BY <1>1 DEF Holds, At
<1>3. \A v \in Workers \ {w} : worker'[v] = worker[v] /\ ~Holds(v, b)
  BY <1>1, <1>2 DEF IInv, OneHolder, OthersUntouched, Moved
<1>4. /\ \A c \in Batches \ {b} : Emitted(c)' = Emitted(c)
      /\ worker'[w].pc = "idle" \/ worker'[w].batch = b
      /\ stored \subseteq stored'
  BY <1>1, <1>2 DEF OthersUntouched
<1>5. Agrees(w, b)
  BY <1>2 DEF IInv, CallsAgree
<1>6. /\ TypeOK /\ worker \in [Workers -> Calls] /\ worker[w] \in Calls
      /\ Size[b] \in Nat /\ Cardinality(Emitted(b)) \in Nat
      /\ worker[w].pc \in {"parse", "upload"} => worker[w].next > 0
  BY EmittedIsFinite DEF IInv, TypeOK
<1>7. {"download", "mark", "parse", "upload", "fail"} \subseteq Steps
  BY DEF Steps
<1>8. SUFFICES ASSUME worker'[w].pc # "idle" PROVE Agrees(w, b)'
  <2>1. SUFFICES ASSUME NEW v \in Workers, NEW c \in Batches, Holds(v, c)' PROVE Agrees(v, c)'
    BY DEF CallsAgree
  <2>2. CASE v = w
    BY <1>4, <1>8, <2>1, <2>2 DEF Holds
  <2>3. CASE v # w
    <3>1. worker'[v] = worker[v] /\ Holds(v, c) /\ c # b
      BY <1>3, <2>1, <2>3 DEF Holds
    <3>2. Agrees(v, c)
      BY <3>1 DEF IInv, CallsAgree
    <3>. QED
      BY <1>4, <3>1, <3>2, AgreesFrame
  <2>. QED
    BY <2>2, <2>3
(* Calls that go on with the same counts: to fail, or to the next step.    *)
<1>9. ASSUME UNCHANGED topic
      PROVE  /\ Emitted(b)' = Emitted(b) /\ RecordsOf(b)' = RecordsOf(b)
             /\ Cardinality(Emitted(b))' = Cardinality(Emitted(b))
  BY <1>9, QuietTopic DEF RecordsOf
<1>10. \A k \in Emitted(b) : k[2] \in 1..Size[b]
  BY RecordsOfType DEF Emitted
<1>11. ASSUME UNCHANGED topic, Goto(w, "fail") PROVE Agrees(w, b)'
  <2>1. /\ worker'[w].pc = "fail"
        /\ worker'[w].sent = worker[w].sent /\ worker'[w].failed = worker[w].failed
    BY <1>6, <1>7, <1>11, GotoMoves
  <2>2. Handled(w, b)' = 1..Size[b]
    BY <2>1 DEF Handled
  <2>. QED
    BY <1>5, <1>9, <1>10, <1>11, <2>1, <2>2 DEF Agrees, Brackets, At
<1>a. CASE Download(w)
  <2>1. CASE Goto(w, "mark")
    <3>1. /\ worker'[w].pc = "mark" /\ At(w, "download")
          /\ worker'[w].sent = worker[w].sent /\ worker'[w].failed = worker[w].failed
      BY <1>6, <1>7, <1>a, <2>1, GotoMoves DEF Download
    <3>2. Handled(w, b)' = {} /\ Handled(w, b) = {}
      BY <3>1 DEF Handled, At
    <3>. QED
      BY <1>5, <1>9, <1>a, <3>1, <3>2 DEF Agrees, Brackets, At, Download
  <2>. QED
    BY <1>11, <1>a, <2>1 DEF Download
<1>b. CASE MarkRawBatchDownloaded(w)
  <2>1. CASE Turn(w, "parse")
    <3>1. /\ worker'[w].pc = "parse" /\ worker'[w].next = 1 /\ At(w, "mark")
          /\ worker'[w].sent = worker[w].sent /\ worker'[w].failed = worker[w].failed
      BY <1>6, <1>7, <1>b, <2>1, TurnMoves DEF MarkRawBatchDownloaded
    <3>2. Handled(w, b)' = {} /\ Handled(w, b) = {}
      BY <3>1 DEF Handled, At
    <3>3. 1 \in 1..(Size[b] + 1)
      BY <1>6
    <3>. QED
      BY <1>5, <1>9, <1>b, <3>1, <3>2, <3>3 DEF Agrees, Brackets, At, MarkRawBatchDownloaded
  <2>. QED
    BY <1>11, <1>b, <2>1 DEF MarkRawBatchDownloaded
<1>c. CASE RejectPayload(w)
  BY <1>11, <1>c DEF RejectPayload
<1>d. CASE PublishRecord(w)
  <2>. DEFINE n == worker[w].next
  <2>1. /\ At(w, "parse") /\ n \in 1..Size[b] /\ n \in Nat
        /\ worker[w].sent \in Nat /\ worker[w].failed \in Nat
    BY <1>2, <1>5, <1>6, <1>d DEF PublishRecord, Calls, Agrees, At
  <2>2. Handled(w, b) = 1..(n - 1)
    BY <2>1 DEF Handled, At
  <2>3. worker'[w].pc = "parse" /\ worker'[w].next = n + 1
    BY <1>6, <1>d, PublishMoves
  <2>4. Handled(w, b)' = 1..n
    BY <2>1, <2>3 DEF Handled
  <2>5. Current(w) = <<b, n>> /\ RecordsOf(b)' = RecordsOf(b)
    BY <1>2 DEF Current, RecordsOf
  <2>6. \A k \in RecordsOf(b) : k = <<b, k[2]>> /\ k[2] \in 1..Size[b]
    BY RecordsOfType
  <2>7. n + 1 \in 1..(Size[b] + 1)
    BY <1>6, <2>1
  <2>8. CASE Deliver(w)
    <3>1. /\ Emitted(b)' = Emitted(b) \cup {<<b, n>>}
          /\ Cardinality(Emitted(b))' = Cardinality(Emitted(b)) + 1
      BY <1>2, <1>6, <1>d, <2>1, <2>5, <2>8, Delivered DEF IInv, PublishRecord
    <3>3. \A k \in Emitted(b)' : k[2] \in 1..n
      BY <1>5, <2>1, <2>2, <3>1 DEF Agrees
    <3>4. \A k \in RecordsOf(b) : worker[w].failed = 0 /\ k[2] \in 1..n => k \in Emitted(b)'
      BY <1>5, <2>1, <2>2, <2>6, <3>1 DEF Agrees, At
    <3>5. /\ worker'[w].sent <= Cardinality(Emitted(b)) + 1
          /\ Cardinality(Emitted(b)) + 1 <= worker'[w].sent + worker'[w].failed
          /\ worker'[w].failed = 0 => worker[w].failed = 0
      <4>1. \/ /\ worker'[w].sent = worker[w].sent + 1
               /\ worker'[w].failed = worker[w].failed
            \/ /\ worker'[w].sent = worker[w].sent
               /\ worker'[w].failed = worker[w].failed + 1
        BY <1>6, <1>d, PublishMoves
      <4>. QED
        BY <1>5, <1>6, <2>1, <4>1 DEF Agrees, Brackets
    <3>. QED
      BY <2>3, <2>4, <2>5, <2>7, <3>1, <3>3, <3>4, <3>5 DEF Agrees, Brackets, At
  <2>9. CASE UNCHANGED topic /\ ~Deliver(w)
    <3>1. /\ worker'[w].sent = worker[w].sent
          /\ worker'[w].failed = worker[w].failed + 1
      BY <1>6, <1>d, <2>9, PublishMoves
    <3>2. \A k \in Emitted(b) : k[2] \in 1..n
      BY <1>5, <2>1, <2>2 DEF Agrees
    <3>3. /\ worker'[w].sent <= Cardinality(Emitted(b))
          /\ Cardinality(Emitted(b)) <= worker'[w].sent + worker'[w].failed
          /\ worker'[w].failed # 0
      BY <1>5, <1>6, <2>1, <3>1 DEF Agrees, Brackets
    <3>. QED
      BY <1>9, <2>3, <2>4, <2>7, <2>9, <3>2, <3>3 DEF Agrees, Brackets, At
  <2>. QED
    BY <1>d, <2>8, <2>9 DEF PublishRecord
<1>e. CASE ParserReturns(w)
  <2>1. /\ worker'[w].pc = "upload" /\ worker'[w].next = 1 /\ At(w, "parse")
        /\ worker'[w].sent = worker[w].sent /\ worker'[w].failed = worker[w].failed
    BY <1>6, <1>7, <1>e, TurnMoves DEF ParserReturns
  <2>2. worker[w].next = Size[b] + 1
    BY <1>2, <1>5, <1>6, <1>e, <2>1 DEF Agrees, ParserReturns, At
  <2>3. Handled(w, b) = 1..Size[b] /\ Handled(w, b)' = 1..Size[b]
    BY <1>6, <2>1, <2>2 DEF Handled, At
  <2>4. 1 \in 1..(Size[b] + 1) /\ \A k \in RecordsOf(b) : ~(k[2] < 1)
    BY <1>6, RecordsOfType
  <2>. QED
    BY <1>5, <1>9, <1>e, <2>1, <2>3, <2>4 DEF Agrees, Brackets, At, ParserReturns
<1>f. CASE UploadChunk(w)
  <2>. DEFINE n == worker[w].next
              e == ChunkEnd(w)
  <2>1. At(w, "upload") /\ MoreChunks(w) /\ UNCHANGED topic
    BY <1>f DEF UploadChunk
  <2>2. e \in Nat /\ e <= Size[b] /\ e >= n /\ n \in Nat /\ n > 0
    BY <1>2, <1>6, <2>1, ChunkEndType DEF Calls, At
  <2>. HIDE DEF e
  <2>3. CASE Upload(w) /\ worker' = [worker EXCEPT ![w].next = e + 1]
    <3>1. /\ worker'[w].pc = "upload" /\ worker'[w].next = e + 1
          /\ worker'[w].sent = worker[w].sent /\ worker'[w].failed = worker[w].failed
      BY <1>6, <2>1, <2>2, <2>3, UploadMoves DEF e
    <3>2. Handled(w, b) = 1..Size[b] /\ Handled(w, b)' = 1..Size[b]
      BY <2>1, <3>1 DEF Handled, At
    <3>3. e + 1 \in 1..(Size[b] + 1)
      BY <1>6, <2>2
    <3>4. ASSUME NEW k \in RecordsOf(b), k[2] < e + 1 PROVE k \in stored'
      <4>1. k = <<b, k[2]>> /\ k[2] \in Nat
        BY RecordsOfType
      <4>2. CASE k[2] < n
        BY <1>4, <1>5, <2>1, <4>2 DEF Agrees
      <4>3. CASE k[2] \in n..e
        BY <1>2, <2>3, <4>1, <4>3 DEF Upload, e
      <4>. QED
        BY <2>2, <3>4, <4>1, <4>2, <4>3
    <3>. QED
      BY <1>5, <1>9, <2>1, <3>1, <3>2, <3>3, <3>4 DEF Agrees, Brackets, At
  <2>. QED
    BY <1>11, <1>f, <2>1, <2>3 DEF UploadChunk, e
<1>g. CASE MarkRawBatchParsed(w)
  BY <1>6, <1>8, <1>11, <1>g, ReturnMoves DEF MarkRawBatchParsed
<1>h. CASE MarkRawBatchFailed(w)
  BY <1>6, <1>8, <1>h, ReturnMoves DEF MarkRawBatchFailed
<1>i. CASE Crash(w)
  BY <1>6, <1>8, <1>i, ReturnMoves DEF Crash
<1>. QED
  BY <1>a, <1>b, <1>c, <1>d, <1>e, <1>f, <1>g, <1>h, <1>i DEF Works, WorkerStep

LEMMA VerdictsStep ==
  ASSUME IInv, NEW w \in Workers, Works(w)
  PROVE  PublishedOnce' /\ TopicIsAccounted' /\ ParsedIsWhole' /\ ClaimedIsHeld'
<1>. DEFINE mine == worker[w].batch
<1>1. ~At(w, "idle") /\ mine \in Batches /\ OthersUntouched(w)
  BY StepFrame DEF IInv
<1>2. PICK b \in Batches : b = mine /\ Holds(w, b)
  BY <1>1 DEF Holds, At
<1>3. lost \subseteq lost' /\ (Kept(w, b) \/ Marked(w, b) \/ Parsed(w, b) \/ Dropped(w, b))
  BY <1>2, OwnRow DEF IInv
<1>4. /\ \A c \in Batches \ {b} : row'[c] = row[c] /\ Emitted(c)' = Emitted(c)
      /\ worker'[w].pc = "idle" \/ worker'[w].batch = b
      /\ stored \subseteq stored'
  BY <1>1, <1>2 DEF OthersUntouched
<1>5. \A v \in Workers \ {w} : worker'[v] = worker[v] /\ ~Holds(v, b)
  BY <1>1, <1>2 DEF IInv, OneHolder, OthersUntouched, Moved
<1>6. Agrees(w, b)
  BY <1>2 DEF IInv, CallsAgree
<1>7. \/ row[b].publish = "PUBLISHING" /\ row[b].status \in {"RECEIVED", "DOWNLOADED"}
      \/ At(w, "fail") /\ row[b].status = "PARSED"
  BY <1>2 DEF IInv, HeldIsTaken
<1>8. PublishedOnce'
  <2>1. CASE UNCHANGED topic
    BY <2>1 DEF IInv, PublishedOnce
  <2>2. CASE PublishRecord(w) /\ Deliver(w)
    <3>1. topic' = [topic EXCEPT ![Current(w)] = 1] /\ topic \in [Records -> Nat]
      BY <1>2, <2>2, Delivered DEF IInv, TypeOK, PublishRecord
    <3>. QED
      BY <3>1 DEF IInv, PublishedOnce
  <2>. QED
    BY <2>1, <2>2
    DEF Works, WorkerStep, Download, MarkRawBatchDownloaded, RejectPayload, PublishRecord,
        ParserReturns, UploadChunk, MarkRawBatchParsed, MarkRawBatchFailed, Crash
<1>9. row'[b].status \in {"PARSED", "FAILED"} =>
        /\ Brackets(row[b].sent, row[b].failed, b)'
        /\ row'[b].status = "PARSED" => RecordsOf(b) \subseteq stored'
  <2>1. CASE Kept(w, b)
    <3>1. SUFFICES ASSUME row'[b].status \in {"PARSED", "FAILED"}
                   PROVE  /\ Brackets(row[b].sent, row[b].failed, b)'
                          /\ RecordsOf(b) \subseteq stored'
      OBVIOUS
    <3>2. At(w, "fail") /\ row[b].status = "PARSED"
      BY <1>7, <2>1, <3>1 DEF Kept
    <3>3. UNCHANGED topic
      BY <3>2 DEF At, Works, WorkerStep, Download, MarkRawBatchDownloaded, RejectPayload,
           PublishRecord, ParserReturns, UploadChunk, MarkRawBatchParsed, MarkRawBatchFailed, Crash
    <3>4. Brackets(row[b].sent, row[b].failed, b) /\ RecordsOf(b) \subseteq stored
      BY <3>2 DEF IInv, TopicIsAccounted, ParsedIsWhole
    <3>5. Cardinality(Emitted(b))' = Cardinality(Emitted(b)) /\ UNCHANGED row[b]
      BY <2>1, <3>3, QuietTopic DEF Kept
    <3>. QED
      BY <1>4, <3>4, <3>5 DEF Brackets
  <2>2. CASE Marked(w, b)
    BY <2>2 DEF Marked
  <2>3. CASE Parsed(w, b) \/ Dropped(w, b)
    <3>1. /\ UNCHANGED <<topic, stored>>
          /\ row'[b].sent = worker[w].sent /\ row'[b].failed = worker[w].failed
      BY <2>3 DEF Parsed, Dropped
    <3>2. Brackets(row[b].sent, row[b].failed, b)'
      BY <1>6, <3>1, QuietTopic DEF Agrees, Brackets
    <3>3. ASSUME row'[b].status = "PARSED" PROVE RecordsOf(b) \subseteq stored
      <4>1. At(w, "upload") /\ ~MoreChunks(w)
        BY <2>3, <3>3 DEF Parsed, Dropped
      <4>2. worker[w].next > Size[b] /\ worker[w].next \in Nat /\ Size[b] \in Nat
        BY <1>2, <4>1 DEF IInv, TypeOK, Calls, MoreChunks
      <4>3. \A k \in RecordsOf(b) : k[2] \in 1..Size[b]
        BY RecordsOfType
      <4>. QED
        BY <1>6, <4>1, <4>2, <4>3 DEF Agrees
    <3>. QED
      BY <3>1, <3>2, <3>3
  <2>. QED
    BY <1>3, <2>1, <2>2, <2>3
<1>10. TopicIsAccounted' /\ ParsedIsWhole'
  <2>1. ASSUME NEW c \in Batches \ {b}, row'[c].status \in {"PARSED", "FAILED"}
        PROVE  /\ Brackets(row[c].sent, row[c].failed, c)'
               /\ row'[c].status = "PARSED" => RecordsOf(c) \subseteq stored'
    <3>1. row'[c] = row[c] /\ Cardinality(Emitted(c))' = Cardinality(Emitted(c))
      BY <1>4
    <3>. QED
      BY <1>4, <2>1, <3>1 DEF IInv, TopicIsAccounted, ParsedIsWhole, Brackets
  <2>2. \A c \in Batches : RecordsOf(c)' = RecordsOf(c)
    BY DEF RecordsOf
  <2>. QED
    BY <1>9, <2>1, <2>2 DEF TopicIsAccounted, ParsedIsWhole, Brackets
<1>11. ClaimedIsHeld'
  <2>1. SUFFICES ASSUME NEW c \in Batches, row'[c].publish = "PUBLISHING", c \notin lost'
                 PROVE  \E v \in Workers : Holds(v, c)'
    BY DEF ClaimedIsHeld
  <2>2. CASE c = b
    <3>1. worker'[w].pc # "idle"
      BY <1>3, <2>1, <2>2, VerdictType DEF Kept, Marked, Parsed, Dropped
    <3>. QED
      BY <1>4, <2>2, <3>1 DEF Holds
  <2>3. CASE c # b
    <3>1. PICK v \in Workers : Holds(v, c)
      BY <1>3, <1>4, <2>1, <2>3 DEF IInv, ClaimedIsHeld
    <3>2. v # w
      BY <1>2, <2>3, <3>1 DEF Holds
    <3>. QED
      BY <1>5, <3>1, <3>2 DEF Holds
  <2>. QED
    BY <2>2, <2>3
<1>. QED
  BY <1>8, <1>10, <1>11

-----------------------------------------------------------------------------
(***************************************************************************)
(* The theorems.                                                           *)
(***************************************************************************)

(* The claim keeps calls apart, and every call's counts agree with the     *)
(* topic and the parts.                                                    *)
THEOREM Invariance == Spec => []IInv
<1>1. IInv /\ [Next]_vars => IInv'
  <2>. SUFFICES ASSUME IInv, [Next]_vars PROVE IInv'
    OBVIOUS
  <2>1. TypeOK'
    BY NextTypeOK DEF IInv
  <2>2. ASSUME NEW w \in Workers, NEW b \in Batches, ClaimRawBatchForParsing(w, b) PROVE IInv'
    BY <2>1, <2>2, ClaimStep
  <2>3. ASSUME NEW w \in Workers, Works(w) PROVE IInv'
    BY <2>1, <2>3, HoldersStep, CallsStep, VerdictsStep DEF IInv
  <2>4. CASE UNCHANGED vars
    <3>1. /\ \A b \in Batches : Emitted(b)' = Emitted(b)
          /\ \A b \in Batches : Cardinality(Emitted(b))' = Cardinality(Emitted(b))
      BY <2>4, QuietTopic DEF vars
    <3>2. CallsAgree'
      <4>1. \A v \in Workers, b \in Batches : Agrees(v, b) => Agrees(v, b)'
        BY <2>4, <3>1, AgreesFrame DEF vars
      <4>. QED
        BY <2>4, <4>1 DEF IInv, CallsAgree, Holds, vars
    <3>3. OneHolder' /\ HeldIsTaken' /\ PublishedOnce' /\ ClaimedIsHeld'
      BY <2>4 DEF vars, IInv, OneHolder, HeldIsTaken, PublishedOnce, ClaimedIsHeld, Holds, At
    <3>4. ClaimableIsFresh' /\ TopicIsAccounted' /\ ParsedIsWhole'
      BY <2>4, <3>1
      DEF vars, IInv, ClaimableIsFresh, TopicIsAccounted, ParsedIsWhole, Claimable, Brackets, RecordsOf
    <3>. QED
      BY <2>1, <3>2, <3>3, <3>4 DEF IInv
  <2>. QED
    BY <2>2, <2>3, <2>4 DEF Next, Works
<1>. QED
  BY <1>1, InitIInv, PTL DEF Spec

(* Rows, topic, parts and calls keep their shapes.                         *)
THEOREM TypeCorrect == Spec => []TypeOK
<1>1. IInv => TypeOK
  BY DEF IInv
<1>. QED
  BY <1>1, Invariance, PTL

(* No record is handed to the topic twice, whoever calls the pipeline for  *)
(* its batch, however often, and wherever those calls fail.                *)
THEOREM RecordsPublishedOnce == Spec => []PublishedOnce
<1>1. IInv => PublishedOnce
  BY DEF IInv
<1>. QED
  BY <1>1, Invariance, PTL

(* The row of a batch that came to an end accounts for the topic.          *)
THEOREM RowsAccountForTopic == Spec => []TopicIsAccounted
<1>1. IInv => TopicIsAccounted
  BY DEF IInv
<1>. QED
  BY <1>1, Invariance, PTL

(* A PARSED batch is in stored parts, all of it.                           *)
THEOREM ParsedBatchesAreWhole == Spec => []ParsedIsWhole
<1>1. IInv => ParsedIsWhole
  BY DEF IInv
<1>. QED
  BY <1>1, Invariance, PTL

(* A claim is held by a running call, or by one that died.                 *)
THEOREM ClaimsAreHeld == Spec => []ClaimedIsHeld
<1>1. IInv => ClaimedIsHeld
  BY DEF IInv
<1>. QED
  BY <1>1, Invariance, PTL

-----------------------------------------------------------------------------
(***************************************************************************)
(* The refinement.                                                         *)
(***************************************************************************)
StateMap == [b \in Batches |-> StateOf(row[b])]

LEMMA InitRefines == Init => Lifecycle!Init
BY DEF Init, NewRow, StateOf, Lifecycle!Init, Lifecycle!Records, Lifecycle!RecordsOf,
       Records, RecordsOf

LEMMA StepRefines ==
  ASSUME IInv, NEW w \in Workers, Works(w)
  PROVE  [Lifecycle!Next]_(Lifecycle!vars)
<1>. DEFINE mine == worker[w].batch
<1>1. ~At(w, "idle") /\ mine \in Batches /\ OthersUntouched(w)
  BY StepFrame DEF IInv
<1>2. PICK b \in Batches : b = mine /\ Holds(w, b)
  BY <1>1 DEF Holds, At
<1>3. Kept(w, b) \/ Marked(w, b) \/ Parsed(w, b) \/ Dropped(w, b)
  BY <1>2, OwnRow DEF IInv
<1>4. \A c \in Batches \ {b} : StateMap'[c] = StateMap[c]
  BY <1>1, <1>2 DEF OthersUntouched, StateMap
<1>5. \/ row[b].publish = "PUBLISHING" /\ row[b].status \in {"RECEIVED", "DOWNLOADED"}
      \/ At(w, "fail") /\ row[b].status = "PARSED"
  BY <1>2 DEF IInv, HeldIsTaken
<1>6. ASSUME NEW s, StateOf(row[b])' = s PROVE StateMap' = [StateMap EXCEPT ![b] = s]
  BY <1>4, <1>6 DEF StateMap
<1>7. Lifecycle!RecordsOf(b) = RecordsOf(b) /\ RecordsOf(b) \subseteq Records
  BY RecordsOfType DEF Lifecycle!RecordsOf, RecordsOf
<1>8. CASE Marked(w, b)
  <2>1. StateOf(row[b])' = StateOf(row[b])
    BY <1>5, <1>8 DEF Marked, StateOf, At
  <2>2. StateMap' = StateMap
    BY <1>4, <2>1 DEF StateMap
  <2>. QED
    BY <1>8, <2>2 DEF Marked, StateMap, Lifecycle!vars
<1>9. CASE Parsed(w, b)
  <2>1. StateOf(row[b]) = "claimed"
    BY <1>5, <1>9 DEF Parsed, StateOf, At
  <2>2. StateOf(row'[b]) = IF Verdict(w) = "SUCCESS" THEN "published" ELSE "unpublished"
    <3>1. row'[b].status = "PARSED" /\ row'[b].publish = Verdict(w)
      BY <1>9 DEF Parsed
    <3>. QED
      BY <3>1 DEF StateOf
  <2>3. ASSUME Verdict(w) = "SUCCESS" PROVE \A k \in RecordsOf(b) : topic[k] = 1
    <3>1. worker[w].failed = 0 /\ At(w, "upload")
      BY <1>9, <2>3 DEF Verdict, Parsed, IInv, TypeOK, Calls
    <3>2. Handled(w, b) = 1..Size[b]
      BY <3>1 DEF Handled, At
    <3>3. \A k \in RecordsOf(b) : k \in Emitted(b)
      BY <1>2, <3>1, <3>2, RecordsOfType DEF IInv, CallsAgree, Agrees, At
    <3>. QED
      BY <1>7, <3>3 DEF IInv, TypeOK, PublishedOnce, Emitted
  <2>4. Lifecycle!Settle(b)
    BY <1>6, <1>7, <1>9, <2>1, <2>2, <2>3
    DEF Parsed, StateMap, Lifecycle!Settle, Lifecycle!Settled
  <2>. QED
    BY <2>4 DEF Lifecycle!Next
<1>10. CASE Dropped(w, b)
  <2>1. StateOf(row[b]) \in {"claimed", "published", "unpublished"}
    BY <1>5 DEF StateOf
  <2>2. StateOf(row[b])' = "failed"
    BY <1>10 DEF Dropped, StateOf
  <2>3. Lifecycle!Fail(b)
    BY <1>6, <1>10, <2>1, <2>2 DEF Dropped, StateMap, Lifecycle!Fail, Lifecycle!Settled
  <2>. QED
    BY <2>3 DEF Lifecycle!Next
<1>11. CASE Kept(w, b)
  <2>1. StateMap' = StateMap
    BY <1>4, <1>11 DEF Kept, StateMap
  <2>2. CASE UNCHANGED topic
    BY <2>1, <2>2 DEF StateMap, Lifecycle!vars
  <2>3. CASE PublishRecord(w) /\ Deliver(w)
    <3>1. At(w, "parse") /\ worker[w].next <= Size[b]
      BY <1>2, <2>3 DEF PublishRecord
    <3>2. topic[Current(w)] = 0 /\ topic' = [topic EXCEPT ![Current(w)] = 1]
      BY <1>2, <2>3, <3>1, Delivered DEF IInv
    <3>3. Current(w) \in RecordsOf(b)
      <4>1. worker[w].next \in 1..Size[b]
        BY <3>1 DEF IInv, TypeOK, Calls, At
      <4>. QED
        BY <1>2, <4>1, RecordOf DEF Current
    <3>4. StateOf(row[b]) = "claimed"
      BY <1>5, <3>1 DEF StateOf, At
    <3>5. Lifecycle!Emit(b)
      BY <1>7, <2>1, <3>2, <3>3, <3>4 DEF StateMap, Lifecycle!Emit
    <3>. QED
      BY <3>5 DEF Lifecycle!Next
  <2>. QED
    BY <2>2, <2>3
    DEF Works, WorkerStep, Download, MarkRawBatchDownloaded, RejectPayload, PublishRecord,
        ParserReturns, UploadChunk, MarkRawBatchParsed, MarkRawBatchFailed, Crash
<1>. QED
  BY <1>3, <1>8, <1>9, <1>10, <1>11

LEMMA ClaimRefines ==
  ASSUME IInv, NEW w \in Workers, NEW b \in Batches, ClaimRawBatchForParsing(w, b)
  PROVE  Lifecycle!Claim(b)
<1>1. /\ \A c \in Batches \ {b} : row'[c] = row[c]
      /\ row'[b].status = "RECEIVED" /\ row'[b].publish = "PUBLISHING"
  BY ClaimedRow DEF IInv, TypeOK, ClaimRawBatchForParsing, Claimable
<1>2. StateOf(row[b]) = "received" /\ StateOf(row[b])' = "claimed"
  BY <1>1 DEF StateOf, ClaimRawBatchForParsing, Claimable
<1>3. StateMap' = [StateMap EXCEPT ![b] = "claimed"]
  BY <1>1, <1>2 DEF StateMap
<1>. QED
  BY <1>2, <1>3 DEF StateMap, Lifecycle!Claim, ClaimRawBatchForParsing

(* Every step of the pipeline is one its readers were promised, or         *)
(* changes nothing they see: for any batches, sizes, chunk size, number of *)
(* calls and set of faults.                                                *)
THEOREM Refinement == Spec => ImplementsBatchLifecycle
<1>1. IInv /\ [Next]_vars => [Lifecycle!Next]_(Lifecycle!vars)
  <2>. SUFFICES ASSUME IInv, [Next]_vars PROVE [Lifecycle!Next]_(Lifecycle!vars)
    OBVIOUS
  <2>1. ASSUME NEW w \in Workers, NEW b \in Batches, ClaimRawBatchForParsing(w, b)
        PROVE  Lifecycle!Next
    BY <2>1, ClaimRefines DEF Lifecycle!Next
  <2>2. ASSUME NEW w \in Workers, Works(w) PROVE [Lifecycle!Next]_(Lifecycle!vars)
    BY <2>2, StepRefines
  <2>3. CASE UNCHANGED vars
    BY <2>3 DEF vars, Lifecycle!vars
  <2>. QED
    BY <2>1, <2>2, <2>3 DEF Next, Works
<1>. QED
  BY <1>1, InitRefines, Invariance, PTL DEF Spec, ImplementsBatchLifecycle, Lifecycle!Spec
=============================================================================

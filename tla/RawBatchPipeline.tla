-------------------------- MODULE RawBatchPipeline --------------------------
(***************************************************************************)
(* The UAP pipeline of ingest-srv: how a recorded raw batch is claimed,    *)
(* downloaded, parsed into UAP records that are published to Kafka one by  *)
(* one, stored in parts, and given its verdict (internal/uap).             *)
(*                                                                         *)
(* ParseAndStoreRawBatch runs in the consumer that recorded the batch.  No *)
(* transaction spans its steps; an action is one database statement, one   *)
(* broker or object store call.  The model lets any worker call it for any *)
(* batch at any time, so that the claim alone keeps calls apart.           *)
(***************************************************************************)
EXTENDS Naturals, FiniteSets

CONSTANTS
  Batches,      \* raw batches recorded with status RECEIVED
  Size,         \* the number of UAP records the parser makes of a batch
  ChunkSize,    \* uap.ChunkSize
  Workers,      \* goroutines that call ParseAndStoreRawBatch
  Faults,       \* the failures a run lets happen
  None          \* "no batch"

(* "db" is a statement that fails, "answer" one that takes effect but is   *)
(* reported as failed, "payload" an artefact the parser rejects.           *)
FaultKinds == {"db", "answer", "object", "payload", "publish", "upload", "crash"}

ASSUME RawBatchAssumption ==
  /\ Size \in [Batches -> Nat]
  /\ ChunkSize \in Nat \ {0}
  /\ Faults \subseteq FaultKinds
  /\ None \notin Batches

VARIABLES
  row,          \* raw_batches: status, publish_status, kafka_publish of raw_metadata
  topic,        \* how often a record was handed to the topic of UAP records
  stored,       \* the records in uploaded parts
  worker,       \* the calls of ParseAndStoreRawBatch
  lost          \* history: batches whose call died or could not write its verdict

vars == <<row, topic, stored, worker, lost>>

RecordsOf(b) == {b} \X (1..Size[b])
Records == UNION {RecordsOf(b) : b \in Batches}
Emitted(b) == {k \in RecordsOf(b) : topic[k] > 0}

BatchStatus == {"RECEIVED", "DOWNLOADED", "PARSED", "FAILED"}
PublishStatus == {"PENDING", "PUBLISHING", "SUCCESS", "FAILED"}
Steps == {"idle", "download", "mark", "parse", "upload", "fail"}

Rows == [status : BatchStatus, publish : PublishStatus, sent : Nat, failed : Nat]
Calls == [pc : Steps, batch : Batches \cup {None}, next : Nat, sent : Nat, failed : Nat]

NewRow == [status |-> "RECEIVED", publish |-> "PENDING", sent |-> 0, failed |-> 0]
Idle == [pc |-> "idle", batch |-> None, next |-> 0, sent |-> 0, failed |-> 0]

Holds(w, b) == worker[w].pc # "idle" /\ worker[w].batch = b
At(w, pc) == worker[w].pc = pc
Goto(w, pc) == worker' = [worker EXCEPT ![w].pc = pc]
Turn(w, pc) == worker' = [worker EXCEPT ![w].pc = pc, ![w].next = 1]
Return(w) == worker' = [worker EXCEPT ![w] = Idle]

Init ==
  /\ row = [b \in Batches |-> NewRow]
  /\ topic = [k \in Records |-> 0]
  /\ stored = {}
  /\ worker = [w \in Workers |-> Idle]
  /\ lost = {}

-----------------------------------------------------------------------------
(***************************************************************************)
(* The claim.  A call that loses it returns at once, which changes nothing.*)
(***************************************************************************)

(* Mutant of Claimable: the claim looks at the parse status only.          *)
ClaimableByStatus(b) == row[b].status = "RECEIVED"

Claimable(b) == row[b].status = "RECEIVED" /\ row[b].publish = "PENDING"

ClaimRawBatchForParsing(w, b) ==
  /\ At(w, "idle")
  /\ Claimable(b)
  /\ row' = [row EXCEPT ![b].publish = "PUBLISHING"]
  /\ \/ /\ worker' = [worker EXCEPT ![w] = [Idle EXCEPT !.pc = "download", !.batch = b]]
        /\ UNCHANGED lost
     \/ /\ "answer" \in Faults
        /\ lost' = lost \cup {b}
        /\ UNCHANGED worker
  /\ UNCHANGED <<topic, stored>>

(* Mutant of Download: a failed download returns without failing the batch.*)
DownloadReturns(w) ==
  /\ At(w, "download")
  /\ Goto(w, "mark") \/ ("object" \in Faults /\ Return(w))
  /\ UNCHANGED <<row, topic, stored, lost>>

(* DownloadFile and readAllAndClose.                                       *)
Download(w) ==
  /\ At(w, "download")
  /\ Goto(w, "mark") \/ ("object" \in Faults /\ Goto(w, "fail"))
  /\ UNCHANGED <<row, topic, stored, lost>>

(* Mutant of MarkRawBatchDownloaded: a failed update starts over.          *)
MarkDownloadedRetried(w) ==
  /\ At(w, "mark")
  /\ \/ /\ row' = [row EXCEPT ![worker[w].batch].status = "DOWNLOADED"]
        /\ Turn(w, "parse")
     \/ "db" \in Faults /\ Goto(w, "download") /\ UNCHANGED row
  /\ UNCHANGED <<topic, stored, lost>>

MarkRawBatchDownloaded(w) ==
  /\ At(w, "mark")
  /\ \/ /\ row' = [row EXCEPT ![worker[w].batch].status = "DOWNLOADED"]
        /\ Turn(w, "parse") \/ ("answer" \in Faults /\ Goto(w, "fail"))
     \/ "db" \in Faults /\ Goto(w, "fail") /\ UNCHANGED row
  /\ UNCHANGED <<topic, stored, lost>>

-----------------------------------------------------------------------------
(***************************************************************************)
(* Parsing.  The parsers reject an artefact before they make a record of   *)
(* it; then they hand each record to publishRecord as soon as it is made.  *)
(***************************************************************************)
RejectPayload(w) ==
  /\ At(w, "parse") /\ worker[w].next = 1
  /\ "payload" \in Faults
  /\ Goto(w, "fail")
  /\ UNCHANGED <<row, topic, stored, lost>>

Current(w) == <<worker[w].batch, worker[w].next>>
Deliver(w) == topic' = [topic EXCEPT ![Current(w)] = @ + 1]

(* A publish that is reported as failed may have reached the topic.        *)
PublishRecord(w) ==
  /\ At(w, "parse") /\ worker[w].next <= Size[worker[w].batch]
  /\ \/ /\ Deliver(w)
        /\ worker' = [worker EXCEPT ![w].next = @ + 1, ![w].sent = @ + 1]
     \/ /\ "publish" \in Faults
        /\ Deliver(w) \/ UNCHANGED topic
        /\ worker' = [worker EXCEPT ![w].next = @ + 1, ![w].failed = @ + 1]
  /\ UNCHANGED <<row, stored, lost>>

ParserReturns(w) ==
  /\ At(w, "parse") /\ worker[w].next > Size[worker[w].batch]
  /\ Turn(w, "upload")
  /\ UNCHANGED <<row, topic, stored, lost>>

-----------------------------------------------------------------------------
(***************************************************************************)
(* The parts.  worker[w].next is the first record not uploaded yet.        *)
(***************************************************************************)

MoreChunks(w) == worker[w].next <= Size[worker[w].batch]

ChunkEnd(w) ==
  LET end == worker[w].next + ChunkSize - 1
  IN  IF end > Size[worker[w].batch] THEN Size[worker[w].batch] ELSE end

Upload(w) == stored' = stored \cup ({worker[w].batch} \X (worker[w].next..ChunkEnd(w)))

(* An upload that is reported as failed may have stored the part.          *)
UploadChunk(w) ==
  /\ At(w, "upload") /\ MoreChunks(w)
  /\ \/ Upload(w) /\ worker' = [worker EXCEPT ![w].next = ChunkEnd(w) + 1]
     \/ /\ "upload" \in Faults
        /\ Upload(w) \/ UNCHANGED stored
        /\ Goto(w, "fail")
  /\ UNCHANGED <<row, topic, lost>>

-----------------------------------------------------------------------------
(***************************************************************************)
(* The verdict.                                                            *)
(***************************************************************************)

(* Mutant of Verdict: only a batch that published nothing has failed.      *)
LenientVerdict(w) ==
  IF worker[w].failed > 0 /\ worker[w].sent = 0 THEN "FAILED" ELSE "SUCCESS"

Verdict(w) ==
  IF worker[w].failed > 0 \/ worker[w].sent < Size[worker[w].batch]
  THEN "FAILED" ELSE "SUCCESS"

(* kafka_publish in raw_metadata, and publish_record_count of PARSED rows. *)
Written(w, status, publish) ==
  row' = [row EXCEPT ![worker[w].batch] =
            [status |-> status, publish |-> publish,
             sent |-> worker[w].sent, failed |-> worker[w].failed]]

MarkRawBatchParsed(w) ==
  /\ At(w, "upload") /\ ~MoreChunks(w)
  /\ \/ /\ Written(w, "PARSED", Verdict(w))
        /\ Return(w) \/ ("answer" \in Faults /\ Goto(w, "fail"))
     \/ "db" \in Faults /\ Goto(w, "fail") /\ UNCHANGED row
  /\ UNCHANGED <<topic, stored, lost>>

(* Mutant of MarkRawBatchFailed: the publish statistics are not written.   *)
MarkFailedWithoutStats(w) ==
  /\ At(w, "fail")
  /\ \/ /\ row' = [row EXCEPT ![worker[w].batch].status = "FAILED",
                              ![worker[w].batch].publish = "PENDING"]
        /\ UNCHANGED lost
     \/ /\ "db" \in Faults
        /\ lost' = lost \cup {worker[w].batch}
        /\ UNCHANGED row
  /\ Return(w)
  /\ UNCHANGED <<topic, stored>>

(* failRawBatch: its own failure is logged and ignored.                    *)
MarkRawBatchFailed(w) ==
  /\ At(w, "fail")
  /\ \/ Written(w, "FAILED", "PENDING") /\ UNCHANGED lost
     \/ /\ "db" \in Faults
        /\ lost' = lost \cup {worker[w].batch}
        /\ UNCHANGED row
  /\ Return(w)
  /\ UNCHANGED <<topic, stored>>

(* The process stops, or a panic ends the call (workers.go:15).            *)
Crash(w) ==
  /\ "crash" \in Faults /\ ~At(w, "idle")
  /\ lost' = lost \cup {worker[w].batch}
  /\ Return(w)
  /\ UNCHANGED <<row, topic, stored>>

-----------------------------------------------------------------------------
WorkerStep(w) ==
  \/ Download(w) \/ MarkRawBatchDownloaded(w)
  \/ RejectPayload(w) \/ PublishRecord(w) \/ ParserReturns(w)
  \/ UploadChunk(w) \/ MarkRawBatchParsed(w) \/ MarkRawBatchFailed(w)

Next ==
  \E w \in Workers : \/ \E b \in Batches : ClaimRawBatchForParsing(w, b)
                     \/ WorkerStep(w)
                     \/ Crash(w)

Spec == Init /\ [][Next]_vars

(* A running goroutine goes on; nothing is assumed of calls and faults.    *)
FairSpec == Spec /\ \A w \in Workers : WF_vars(WorkerStep(w))

-----------------------------------------------------------------------------
(***************************************************************************)
(* Properties.                                                             *)
(***************************************************************************)

(* Rows, topic, parts and calls have the shapes the tables and the code    *)
(* give them; no part holds a record its batch does not have.              *)
TypeOK ==
  /\ row \in [Batches -> Rows]
  /\ topic \in [Records -> Nat]
  /\ stored \subseteq Records
  /\ worker \in [Workers -> Calls]
  /\ \A w \in Workers : /\ worker[w].pc # "idle" => worker[w].batch # None
                        /\ worker[w].pc \in {"parse", "upload"} => worker[w].next > 0
  /\ lost \subseteq Batches

(* However many calls are made for a batch, by however many consumers, and *)
(* wherever they fail, no record of it is handed to the topic twice.       *)
PublishedOnce == \A k \in Records : topic[k] <= 1

(* sent and failed bracket what is in the topic of batch b.                *)
Brackets(sent, failed, b) ==
  sent <= Cardinality(Emitted(b)) /\ Cardinality(Emitted(b)) <= sent + failed

(* The row of a batch that came to an end tells what is in the topic: its  *)
(* statistics count every record that was accepted, and what may be there  *)
(* beyond those is among the ones counted as failed.                       *)
TopicIsAccounted ==
  \A b \in Batches : row[b].status \in {"PARSED", "FAILED"} =>
     Brackets(row[b].sent, row[b].failed, b)

(* A batch becomes PARSED only when all its records are in stored parts,   *)
(* the ones of an incomplete last chunk included.                          *)
ParsedIsWhole ==
  \A b \in Batches : row[b].status = "PARSED" => RecordsOf(b) \subseteq stored

(* A claim is held by a call that is still running, unless the call died   *)
(* or could not write its verdict: every error path gives the claim up.    *)
ClaimedIsHeld ==
  \A b \in Batches : row[b].publish = "PUBLISHING" =>
     (\E w \in Workers : Holds(w, b)) \/ b \in lost

(* Every claim ends, with a verdict or with the death of its call.         *)
ClaimsEnd ==
  \A b \in Batches : row[b].publish = "PUBLISHING" ~>
     row[b].publish # "PUBLISHING" \/ b \in lost

-----------------------------------------------------------------------------
(***************************************************************************)
(* The promise of BatchLifecycle, read off the row.                        *)
(***************************************************************************)
StateOf(r) ==
  CASE r.status = "FAILED" -> "failed"
    [] r.status = "PARSED" -> IF r.publish = "SUCCESS" THEN "published" ELSE "unpublished"
    [] OTHER -> IF r.publish = "PUBLISHING" THEN "claimed" ELSE "received"

Lifecycle == INSTANCE BatchLifecycle WITH state <- [b \in Batches |-> StateOf(row[b])]

(* Every step of the pipeline, failures included, is one its readers were  *)
(* promised, or changes nothing they see.                                  *)
ImplementsBatchLifecycle == Lifecycle!Spec
-----------------------------------------------------------------------------
(***************************************************************************)
(* The inductive invariant.                                                *)
(***************************************************************************)

(* A batch is held by one call at a time.                                  *)
OneHolder ==
  \A b \in Batches : \A w, v \in Workers : Holds(w, b) /\ Holds(v, b) => w = v

(* The row of a held batch cannot be claimed: it is PUBLISHING, or has a   *)
(* verdict its call takes for unwritten.                                   *)
HeldIsTaken ==
  \A w \in Workers, b \in Batches : Holds(w, b) =>
     \/ row[b].publish = "PUBLISHING" /\ row[b].status \in {"RECEIVED", "DOWNLOADED"}
     \/ At(w, "fail") /\ row[b].status = "PARSED"

(* Nothing of a batch that can be claimed is in the topic.                 *)
ClaimableIsFresh == \A b \in Batches : Claimable(b) => Emitted(b) = {}

(* What a call has counted and where it is in the records agree with the   *)
(* topic and the parts.                                                    *)
Handled(w, b) ==
  CASE worker[w].pc \in {"download", "mark"} -> {}
    [] worker[w].pc = "parse" -> 1..(worker[w].next - 1)
    [] OTHER -> 1..Size[b]

Agrees(w, b) ==
  /\ Brackets(worker[w].sent, worker[w].failed, b)
  /\ \A k \in Emitted(b) : k[2] \in Handled(w, b)
  /\ worker[w].pc \in {"parse", "upload"} =>
        /\ worker[w].next \in 1..(Size[b] + 1)
        /\ worker[w].failed = 0 =>
              \A k \in RecordsOf(b) : k[2] \in Handled(w, b) => k \in Emitted(b)
  /\ At(w, "upload") =>
        \A k \in RecordsOf(b) : k[2] < worker[w].next => k \in stored

CallsAgree == \A w \in Workers, b \in Batches : Holds(w, b) => Agrees(w, b)

IInv ==
  /\ TypeOK
  /\ OneHolder
  /\ HeldIsTaken
  /\ ClaimableIsFresh
  /\ CallsAgree
  /\ PublishedOnce
  /\ TopicIsAccounted
  /\ ParsedIsWhole
  /\ ClaimedIsHeld
=============================================================================

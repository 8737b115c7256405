------------------------ MODULE GenerationLifecycle ------------------------
(***************************************************************************)
(* One generation (one streamed assistant answer) from the moment its      *)
(* database row exists to its terminal state.  The actors are              *)
(*   - the deliveries of its BullMQ job: each one is a call of             *)
(*     GenerationProcessor.process in some worker process (a "run");       *)
(*   - the user, who may cancel at any time through the API;               *)
(*   - the zombie monitors of the worker processes;                        *)
(*   - crashes, lost job locks, expired heartbeats and failing I/O.        *)
(* A step is one database statement or transaction, or one publication to  *)
(* Redis: whatever happens between two awaits of the code.  Generations    *)
(* share no row, so one is enough; what they do share (permits, the user's *)
(* quota) is left to the environment here.                                 *)
(* The answer is abstracted to its length in deltas: a run only appends.   *)
(* Reasoning counts like text, as with LLM_REASONING_MODE enabled;         *)
(* otherwise it is published but not saved.                                *)
(***************************************************************************)
EXTENDS Naturals, Sequences

CONSTANTS
    MaxRuns,      \* bound: deliveries of the job
    Scheduled,    \* whether a scheduled task created the generation
    Monitors,     \* the worker processes' zombie monitors
    MaxAttempts,  \* GENERATION_MAX_ATTEMPTS
    MaxDeltas,    \* bound: deltas a provider stream yields
    JobAttempts,  \* attempts of queue.add in the outbox dispatcher
    MaxStalls     \* bound: times the queue re-delivers after a lost lock

ASSUME LifecycleAssumption ==
    /\ MaxRuns \in Nat
    /\ Scheduled \in BOOLEAN
    /\ MaxAttempts \in Nat \ {0}
    /\ MaxDeltas \in Nat
    /\ JobAttempts \in Nat \ {0}
    /\ MaxStalls \in Nat

\* Runs are numbered in the order of delivery.  The number also stands for the
\* random writerToken of the run; 0 is the null token and the absent holder.
Runs == 1 .. MaxRuns
NoRun == 0

VARIABLES
    \* the generations row
    status, writerToken, heartbeatStale, checkpointSequence,
    \* the response message, the scheduled task run, generation_attempts and
    \* the terminal rows of outbox_events
    messageStatus, messageContent, taskRun, attempts, outbox,
    \* the BullMQ job and the Redis sequence counter (external)
    job, holder, attemptsMade, stalls, redisSequence,
    \* local state of every run
    pc, claimed, inTry, content, sequence, attemptNo, receivedFirstDelta,
    buffered, retryable, ownershipLost, cancelObserved,
    \* local state of every monitor: the row its scan has read
    seen

rowVars == <<status, writerToken, heartbeatStale, checkpointSequence>>
messageVars == <<messageStatus, messageContent>>
jobVars == <<job, holder, attemptsMade, stalls>>
flagVars == <<claimed, inTry, receivedFirstDelta, buffered, retryable,
              ownershipLost, cancelObserved>>
progressVars == <<content, sequence, attemptNo>>
outcomeVars == <<status, messageStatus, messageContent, taskRun, outbox>>
dbVars == <<rowVars, messageVars, taskRun, attempts, outbox>>
vars == <<dbVars, jobVars, redisSequence, pc, flagVars, progressVars, seen>>

Running == {"STARTING", "STREAMING"}
Terminal == {"COMPLETED", "FAILED", "CANCELLED"}
Cancellable == {"QUEUED"} \cup Running               \* CREATABLE_STATUSES
Active == Cancellable \cup {"CANCEL_REQUESTED"}

\* Program points.  Each names the next await of the run.
EntryPoints == {"candidate", "claim", "taskRun"}
SetupPoints == {"prepare", "loop", "create", "publishStarted",
                "checkpointStarted"}
StreamPoints == {"stream", "mark", "flush", "checkpoint", "flushEnd",
                 "checkpointEnd", "endCheck", "completeAttempt", "usage",
                 "finalizeCompleted"}
CatchPoints == {"flushCatch", "checkpointCatch", "catchCheck", "failAttempt"}
WriterPoints == SetupPoints \cup StreamPoints \cup CatchPoints
FinalPoints == {"cancelAttempt", "finalizeCancelled", "finalizeFailed",
                "postCheck"}
OwnedPoints == {"owned"} \cup WriterPoints \cup FinalPoints
LivePoints == EntryPoints \cup OwnedPoints \cup {"returned", "threw"}
Points == {"idle", "done"} \cup LivePoints

\* Where the code awaits I/O that may throw; "stream" throws by StreamBreaks.
IoPoints == (EntryPoints \cup OwnedPoints) \ {"stream"}
\* Where the cancel-poll timer of the current attempt is running.
PollPoints == {"create", "publishStarted", "checkpointStarted"}
                \cup StreamPoints \cup CatchPoints

NothingSeen == [token |-> NoRun, content |-> 0, probed |-> FALSE]

Init ==
    /\ status = "QUEUED"
    /\ writerToken = NoRun
    /\ heartbeatStale = FALSE
    /\ checkpointSequence = 0
    /\ messageStatus = "PENDING"
    /\ messageContent = 0
    /\ taskRun = IF Scheduled THEN "QUEUED" ELSE "NONE"
    /\ attempts = <<>>
    /\ outbox = <<>>
    /\ job = "absent"
    /\ holder = NoRun
    /\ attemptsMade = 0
    /\ stalls = 0
    /\ redisSequence = 0
    /\ pc = [r \in Runs |-> "idle"]
    /\ claimed = [r \in Runs |-> FALSE]
    /\ inTry = [r \in Runs |-> FALSE]
    /\ content = [r \in Runs |-> 0]
    /\ sequence = [r \in Runs |-> 0]
    /\ attemptNo = [r \in Runs |-> 0]
    /\ receivedFirstDelta = [r \in Runs |-> FALSE]
    /\ buffered = [r \in Runs |-> FALSE]
    /\ retryable = [r \in Runs |-> FALSE]
    /\ ownershipLost = [r \in Runs |-> FALSE]
    /\ cancelObserved = [r \in Runs |-> FALSE]
    /\ seen = [m \in Monitors |-> NothingSeen]

Jump(r, point) == pc' = [pc EXCEPT ![r] = point]

\* The call is over: its local variables are gone.
Forget(r) ==
    /\ claimed' = [claimed EXCEPT ![r] = FALSE]
    /\ inTry' = [inTry EXCEPT ![r] = FALSE]
    /\ content' = [content EXCEPT ![r] = 0]
    /\ sequence' = [sequence EXCEPT ![r] = 0]
    /\ attemptNo' = [attemptNo EXCEPT ![r] = 0]
    /\ receivedFirstDelta' = [receivedFirstDelta EXCEPT ![r] = FALSE]
    /\ buffered' = [buffered EXCEPT ![r] = FALSE]
    /\ retryable' = [retryable EXCEPT ![r] = FALSE]
    /\ ownershipLost' = [ownershipLost EXCEPT ![r] = FALSE]
    /\ cancelObserved' = [cancelObserved EXCEPT ![r] = FALSE]

\* From one program point to another.
Go(r, from, to) == pc[r] = from /\ Jump(r, to)

----------------------------------------------------------------------------
(* The API and the queue                                                   *)

\* A cancellation that forgets the allowed source states.
CancelUnguarded ==
    /\ status # "CANCEL_REQUESTED"
    /\ status' = "CANCEL_REQUESTED"
    /\ UNCHANGED <<writerToken, heartbeatStale, checkpointSequence,
                   messageVars, taskRun, attempts, outbox, jobVars,
                   redisSequence, pc, flagVars, progressVars, seen>>

\* POST cancel: a conditional update, a no-op on a settled generation.
Cancel ==
    /\ status \in Cancellable
    /\ status' = "CANCEL_REQUESTED"
    /\ UNCHANGED <<writerToken, heartbeatStale, checkpointSequence,
                   messageVars, taskRun, attempts, outbox, jobVars,
                   redisSequence, pc, flagVars, progressVars, seen>>

\* The outbox dispatcher adds the job; its jobId makes a second add a no-op.
Enqueue ==
    /\ job = "absent"
    /\ job' = "waiting"
    /\ UNCHANGED <<dbVars, holder, attemptsMade, stalls, redisSequence, pc,
                   flagVars, progressVars, seen>>

Deliver(r) ==
    /\ job = "waiting"
    /\ job' = "active"
    /\ holder' = r
    /\ \A s \in Runs : s < r => pc[s] # "idle"
    /\ Go(r, "idle", "candidate")
    /\ UNCHANGED <<dbVars, attemptsMade, stalls, redisSequence, flagVars,
                   progressVars, seen>>

\* The processor function returned.  Without the lock nothing is reported.
JobReturns(r) ==
    /\ Go(r, "returned", "done")
    /\ job' = IF holder = r THEN "completed" ELSE job
    /\ holder' = IF holder = r THEN NoRun ELSE holder
    /\ Forget(r)
    /\ UNCHANGED <<dbVars, attemptsMade, stalls, redisSequence, seen>>

\* The processor function threw: retried until JobAttempts are used up.
JobThrows(r) ==
    /\ Go(r, "threw", "done")
    /\ \/ /\ holder = r
          /\ attemptsMade' = attemptsMade + 1
          /\ job' = IF attemptsMade + 1 < JobAttempts
                    THEN "waiting" ELSE "failed"
          /\ holder' = NoRun
       \/ /\ holder # r
          /\ UNCHANGED <<job, holder, attemptsMade>>
    /\ Forget(r)
    /\ UNCHANGED <<dbVars, stalls, redisSequence, seen>>

\* The holder's lock was not renewed: the queue takes the job back.
Stall ==
    /\ job = "active"
    /\ holder' = NoRun
    /\ \/ /\ stalls < MaxStalls
          /\ stalls' = stalls + 1
          /\ job' = "waiting"
       \/ /\ stalls = MaxStalls
          /\ job' = "failed"
          /\ UNCHANGED stalls
    /\ UNCHANGED <<dbVars, attemptsMade, redisSequence, pc, flagVars,
                   progressVars, seen>>

\* The worker process of a run dies; the queue still names it as the holder.
Crash(r) ==
    /\ pc[r] \in LivePoints
    /\ Jump(r, "done")
    /\ Forget(r)
    /\ UNCHANGED <<dbVars, jobVars, redisSequence, seen>>

----------------------------------------------------------------------------
(* GenerationProcessor.process                                             *)

CandidateRoute ==
    CASE status \in Terminal -> "returned"
      [] status = "CANCEL_REQUESTED" -> "owned"
      [] status = "QUEUED" -> "claim"
      [] OTHER -> "returned"

ReadCandidate(r) ==
    /\ Go(r, "candidate", CandidateRoute)
    /\ UNCHANGED <<dbVars, jobVars, redisSequence, flagVars, progressVars,
                   seen>>

TakeRow(r) ==
    /\ status' = "STARTING"
    /\ writerToken' = r
    /\ heartbeatStale' = FALSE
    /\ UNCHANGED checkpointSequence

\* A claim that takes over a row somebody else has started.
ClaimGuardTakeover == status \in {"QUEUED", "STARTING"}

ClaimGuard == status = "QUEUED" /\ writerToken = NoRun

\* Permit and conditional update; without a permit (and when the permit store
\* fails) the run throws, see Throw.  When the update's commit is not acknowledged,
\* withDatabaseRetry repeats it, the second try matches no row and the run
\* returns although the row now carries its token.
Claim(r) ==
    /\ \/ /\ ClaimGuard
          /\ TakeRow(r)
          /\ \/ /\ Go(r, "claim", "taskRun")
                /\ claimed' = [claimed EXCEPT ![r] = TRUE]
             \/ /\ Go(r, "claim", "returned")
                /\ UNCHANGED claimed
       \/ /\ ~ClaimGuard
          /\ Go(r, "claim", "returned")
          /\ UNCHANGED <<rowVars, claimed>>
    /\ UNCHANGED <<messageVars, taskRun, attempts, outbox, jobVars,
                   redisSequence, inTry, receivedFirstDelta, buffered,
                   retryable, ownershipLost, cancelObserved, progressVars,
                   seen>>

MarkTaskRunning(r) ==
    /\ Go(r, "taskRun", "owned")
    /\ taskRun' = IF taskRun = "QUEUED" THEN "RUNNING" ELSE taskRun
    /\ UNCHANGED <<rowVars, messageVars, attempts, outbox, jobVars,
                   redisSequence, flagVars, progressVars, seen>>

\* One tick of the heartbeat timer: a lost permit or a row that no longer
\* carries the token in a running state ends the ownership.
Heartbeat(r) ==
    /\ claimed[r]
    /\ pc[r] \in OwnedPoints
    /\ \/ /\ status \in Running
          /\ writerToken = r
          /\ heartbeatStale' = FALSE
          /\ UNCHANGED ownershipLost
       \/ /\ ownershipLost' = [ownershipLost EXCEPT ![r] = TRUE]
          /\ UNCHANGED heartbeatStale
    /\ UNCHANGED <<status, writerToken, checkpointSequence, messageVars,
                   taskRun, attempts, outbox, jobVars, redisSequence, pc,
                   claimed, inTry, receivedFirstDelta, buffered, retryable,
                   cancelObserved, progressVars, seen>>

\* GENERATION_HEARTBEAT_TIMEOUT_MS pass without a heartbeat; nobody reads the
\* heartbeat of a row that is not running.
HeartbeatExpires ==
    /\ status \in Running
    /\ ~heartbeatStale
    /\ heartbeatStale' = TRUE
    /\ UNCHANGED <<status, writerToken, checkpointSequence, messageVars,
                   taskRun, attempts, outbox, jobVars, redisSequence, pc,
                   flagVars, progressVars, seen>>

----------------------------------------------------------------------------
(* processOwned: up to the attempt loop                                    *)

\* Route of the row just read: an orphaned cancellation is finalized with
\* empty content, a writer goes on, everything else returns.
OwnedRoutes(r) ==
    CASE status = "CANCEL_REQUESTED" -> {"finalizeCancelled"}
      [] status = "STARTING" /\ (claimed[r] => writerToken = r) ->
             {"prepare", "finalizeFailed"}    \* CONFIGURATION_MISMATCH
      [] OTHER -> {"returned"}

ReadOwned(r) ==
    /\ \E point \in OwnedRoutes(r) :
          /\ Go(r, "owned", point)
          /\ content' = [content EXCEPT ![r] =
                           IF point = "finalizeFailed" THEN messageContent
                           ELSE 0]
    /\ sequence' = [sequence EXCEPT ![r] = checkpointSequence]
    /\ UNCHANGED <<dbVars, jobVars, redisSequence, flagVars, attemptNo, seen>>

\* Attempts left STARTED are closed, then the checkpoint is loaded.
Prepare(r) ==
    /\ Go(r, "prepare", IF Len(attempts) >= MaxAttempts
                        THEN "finalizeFailed" ELSE "loop")
    /\ attempts' = [i \in DOMAIN attempts |->
                      IF attempts[i].status = "STARTED"
                      THEN [attempts[i] EXCEPT !.status = "FAILED"]
                      ELSE attempts[i]]
    /\ content' = [content EXCEPT ![r] = messageContent]
    /\ UNCHANGED <<rowVars, messageVars, taskRun, outbox, jobVars,
                   redisSequence, flagVars, sequence, attemptNo, seen>>

CancelPending == status = "CANCEL_REQUESTED"

LoopHead(r) ==
    /\ Go(r, "loop", IF CancelPending THEN "finalizeCancelled" ELSE "create")
    /\ cancelObserved' = [cancelObserved EXCEPT ![r] = FALSE]
    /\ UNCHANGED <<dbVars, jobVars, redisSequence, claimed, inTry,
                   receivedFirstDelta, buffered, retryable, ownershipLost,
                   progressVars, seen>>

\* An attempt recorded without its writer's token.
CreateAttemptUnowned(r) ==
    /\ Go(r, "create", "publishStarted")
    /\ attempts' = Append(attempts, [status |-> "STARTED", token |-> NoRun])
    /\ attemptNo' = [attemptNo EXCEPT ![r] = Len(attempts) + 1]
    /\ UNCHANGED <<rowVars, messageVars, taskRun, outbox, jobVars,
                   redisSequence, flagVars, content, sequence, seen>>

CreateAttempt(r) ==
    /\ Go(r, "create", "publishStarted")
    /\ attempts' = Append(attempts, [status |-> "STARTED", token |-> r])
    /\ attemptNo' = [attemptNo EXCEPT ![r] = Len(attempts) + 1]
    /\ UNCHANGED <<rowVars, messageVars, taskRun, outbox, jobVars,
                   redisSequence, flagVars, content, sequence, seen>>

\* publishEvent: the script increments the sequence and returns it.
Publish(r) ==
    /\ redisSequence' = redisSequence + 1
    /\ sequence' = [sequence EXCEPT ![r] = redisSequence + 1]

PublishStarted(r) ==
    /\ Go(r, "publishStarted", "checkpointStarted")
    /\ Publish(r)
    /\ UNCHANGED <<dbVars, jobVars, flagVars, content, attemptNo, seen>>

\* A checkpoint that ignores the status of the generation.
CheckpointGuardAnyStatus(r) == checkpointSequence < sequence[r]

\* Only a larger sequence on a running generation moves the checkpoint.
CheckpointGuard(r) ==
    checkpointSequence < sequence[r] /\ status \in Running

WriteCheckpoint(r) ==
    /\ \/ /\ CheckpointGuard(r)
          /\ checkpointSequence' = sequence[r]
          /\ messageContent' = content[r]
       \/ /\ ~CheckpointGuard(r)
          /\ UNCHANGED <<checkpointSequence, messageContent>>
    /\ UNCHANGED <<status, writerToken, heartbeatStale, messageStatus,
                   taskRun, attempts, outbox>>

CheckpointStarted(r) ==
    /\ Go(r, "checkpointStarted", "stream")
    /\ WriteCheckpoint(r)
    /\ inTry' = [inTry EXCEPT ![r] = TRUE]
    /\ receivedFirstDelta' = [receivedFirstDelta EXCEPT ![r] = FALSE]
    /\ buffered' = [buffered EXCEPT ![r] = FALSE]
    /\ UNCHANGED <<jobVars, redisSequence, claimed, retryable, ownershipLost,
                   cancelObserved, progressVars, seen>>

----------------------------------------------------------------------------
(* The provider stream                                                     *)

\* bufferDelta: a length or time threshold decides whether to flush now.
AfterDelta == {"stream", "flush"}

\* A delta arrives on an owned stream; the first one marks the row STREAMING.
ReceiveDelta(r) ==
    /\ ~ownershipLost[r]
    /\ content[r] < MaxDeltas
    /\ content' = [content EXCEPT ![r] = @ + 1]
    /\ buffered' = [buffered EXCEPT ![r] = TRUE]
    /\ receivedFirstDelta' = [receivedFirstDelta EXCEPT ![r] = TRUE]
    /\ \E point \in IF receivedFirstDelta[r] THEN AfterDelta ELSE {"mark"} :
          Go(r, "stream", point)
    /\ UNCHANGED <<dbVars, jobVars, redisSequence, claimed, inTry, retryable,
                   ownershipLost, cancelObserved, sequence, attemptNo, seen>>

\* Ownership lost after the last event goes unnoticed.
StreamEnds(r) ==
    /\ Go(r, "stream", "flushEnd")
    /\ UNCHANGED <<dbVars, jobVars, redisSequence, flagVars, progressVars,
                   seen>>

EnterCatch(r, canRetry) ==
    /\ pc' = [pc EXCEPT ![r] = "flushCatch"]
    /\ inTry' = [inTry EXCEPT ![r] = FALSE]
    /\ retryable' = [retryable EXCEPT ![r] = canRetry]

\* The stream throws: a provider error (retryable or not), the abort of a
\* cancellation, or WRITER_OWNERSHIP_LOST at the next event.
StreamBreaks(r) ==
    /\ pc[r] = "stream"
    /\ \E canRetry \in BOOLEAN :
          /\ canRetry => ~ownershipLost[r]
          /\ EnterCatch(r, canRetry)
    /\ UNCHANGED <<dbVars, jobVars, redisSequence, claimed,
                   receivedFirstDelta, buffered, ownershipLost,
                   cancelObserved, progressVars, seen>>

\* Two conditional updates in one transaction.
MarkStreaming(r) ==
    /\ \E point \in AfterDelta : Go(r, "mark", point)
    /\ status' = IF status = "STARTING" THEN "STREAMING" ELSE status
    /\ messageStatus' = IF messageStatus = "PENDING" THEN "STREAMING"
                        ELSE messageStatus
    /\ UNCHANGED <<writerToken, heartbeatStale, checkpointSequence,
                   messageContent, taskRun, attempts, outbox, jobVars,
                   redisSequence, flagVars, progressVars, seen>>

\* flushDelta publishes the buffer.  When a checkpoint is due it is written
\* before the buffer is cleared.
Flush(r, here, checkpoint, next) ==
    /\ \/ /\ buffered[r]
          /\ Publish(r)
          /\ \/ /\ Go(r, here, checkpoint)
                /\ UNCHANGED buffered
             \/ /\ Go(r, here, next)
                /\ buffered' = [buffered EXCEPT ![r] = FALSE]
       \/ /\ ~buffered[r]
          /\ Go(r, here, next)
          /\ UNCHANGED <<redisSequence, sequence, buffered>>
    /\ UNCHANGED <<dbVars, jobVars, claimed, inTry, receivedFirstDelta,
                   retryable, ownershipLost, cancelObserved, content,
                   attemptNo, seen>>

FlushCheckpoint(r, here, next) ==
    /\ Go(r, here, next)
    /\ WriteCheckpoint(r)
    /\ buffered' = [buffered EXCEPT ![r] = FALSE]
    /\ UNCHANGED <<jobVars, redisSequence, claimed, inTry,
                   receivedFirstDelta, retryable, ownershipLost,
                   cancelObserved, progressVars, seen>>

\* One tick of the cancel-poll timer; it also aborts the provider stream.
ObserveCancel(r) ==
    /\ pc[r] \in PollPoints
    /\ CancelPending
    /\ cancelObserved' = [cancelObserved EXCEPT ![r] = TRUE]
    /\ UNCHANGED <<dbVars, jobVars, redisSequence, pc, claimed, inTry,
                   receivedFirstDelta, buffered, retryable, ownershipLost,
                   progressVars, seen>>

\* The check after the stream, and the same check in the catch block.
CheckCancel(r, here, next) ==
    /\ Go(r, here, IF cancelObserved[r] \/ CancelPending
                   THEN "cancelAttempt" ELSE next)
    /\ UNCHANGED <<dbVars, jobVars, redisSequence, flagVars, progressVars,
                   seen>>

\* completeAttempt updates by id, whatever the attempt's status is.
SetAttempt(r, result) ==
    /\ attempts' = [attempts EXCEPT ![attemptNo[r]].status = result]
    /\ UNCHANGED <<rowVars, messageVars, taskRun, outbox, jobVars,
                   redisSequence, flagVars, progressVars, seen>>

CancelAttempt(r) ==
    /\ Go(r, "cancelAttempt", "finalizeCancelled")
    /\ SetAttempt(r, "CANCELLED")

\* A usage event is published only when the provider reported usage.
CompleteAttempt(r) ==
    /\ \E point \in {"usage", "finalizeCompleted"} :
          Go(r, "completeAttempt", point)
    /\ SetAttempt(r, "COMPLETED")

PublishUsage(r) ==
    /\ Go(r, "usage", "finalizeCompleted")
    /\ Publish(r)
    /\ UNCHANGED <<dbVars, jobVars, flagVars, content, attemptNo, seen>>

\* A retry that ignores what the user has already seen.
CanRetryAlways(r) == retryable[r] /\ attemptNo[r] < MaxAttempts

CanRetry(r) ==
    ~receivedFirstDelta[r] /\ retryable[r] /\ attemptNo[r] < MaxAttempts

FailAttempt(r) ==
    /\ Go(r, "failAttempt", IF CanRetry(r) THEN "loop" ELSE "finalizeFailed")
    /\ SetAttempt(r, "FAILED")

----------------------------------------------------------------------------
(* The terminal transactions                                               *)

\* A terminal transaction that does not check the state it leaves.
SettleUnconditionally(outcome, from, answer, seq, told) ==
    /\ status' = outcome
    /\ checkpointSequence' = seq
    /\ messageStatus' = outcome
    /\ messageContent' = answer
    /\ taskRun' = IF taskRun = "NONE" THEN taskRun ELSE outcome
    /\ outbox' = Append(outbox, [type |-> outcome, content |-> told])

\* Generation row, task run, message and outbox event change together or
\* not at all, when the row still is in one of the states `from`.
Settle(outcome, from, answer, seq, told) ==
    \/ /\ status \in from
       /\ status' = outcome
       /\ checkpointSequence' = seq
       /\ messageStatus' = outcome
       /\ messageContent' = answer
       /\ taskRun' = IF taskRun = "NONE" THEN taskRun ELSE outcome
       /\ outbox' = Append(outbox, [type |-> outcome, content |-> told])
    \/ /\ status \notin from
       /\ UNCHANGED <<status, checkpointSequence, messageVars, taskRun,
                      outbox>>

\* finalizeCompleted and finalizeFailed; both look for a cancellation after
\* their transaction.
Finalize(r, here, outcome) ==
    /\ Go(r, here, "postCheck")
    /\ Settle(outcome, Running, content[r], sequence[r], content[r])
    /\ UNCHANGED <<writerToken, heartbeatStale, attempts, jobVars,
                   redisSequence, flagVars, progressVars, seen>>

\* A completion that trusts the last checkpoint to be the whole answer.
FinalizeCompletedFromCheckpoint(r) ==
    /\ Go(r, "finalizeCompleted", "postCheck")
    /\ Settle("COMPLETED", Running, messageContent, sequence[r],
              messageContent)
    /\ UNCHANGED <<writerToken, heartbeatStale, attempts, jobVars,
                   redisSequence, flagVars, progressVars, seen>>

FinalizeCompleted(r) == Finalize(r, "finalizeCompleted", "COMPLETED")
FinalizeFailed(r) == Finalize(r, "finalizeFailed", "FAILED")

PostCheck(r) ==
    /\ Go(r, "postCheck", IF CancelPending THEN "finalizeCancelled"
                          ELSE "returned")
    /\ UNCHANGED <<dbVars, jobVars, redisSequence, flagVars, progressVars,
                   seen>>

FinalizeCancelled(r) ==
    /\ Go(r, "finalizeCancelled", "returned")
    /\ Settle("CANCELLED", Active, content[r], sequence[r], content[r])
    /\ UNCHANGED <<writerToken, heartbeatStale, attempts, jobVars,
                   redisSequence, flagVars, progressVars, seen>>

\* An await throws.  Inside the try block the catch block takes over; an
\* exception anywhere else, the catch block included, leaves processOwned
\* and fails the job.
Throw(r) ==
    /\ pc[r] \in IoPoints
    /\ \/ /\ inTry[r]
          /\ EnterCatch(r, FALSE)
       \/ /\ ~inTry[r]
          /\ Jump(r, "threw")
          /\ UNCHANGED <<inTry, retryable>>
    /\ UNCHANGED <<dbVars, jobVars, redisSequence, claimed,
                   receivedFirstDelta, buffered, ownershipLost,
                   cancelObserved, progressVars, seen>>

----------------------------------------------------------------------------
(* ZombieGenerationMonitorService.checkOnce, for this generation           *)

\* A scan that only looks for streaming rows.
MonitorScanStreaming(m) ==
    /\ seen[m] = NothingSeen
    /\ status = "STREAMING"
    /\ writerToken # NoRun
    /\ heartbeatStale
    /\ seen' = [seen EXCEPT ![m] = [token |-> writerToken,
                                    content |-> messageContent,
                                    probed |-> FALSE]]
    /\ UNCHANGED <<dbVars, jobVars, redisSequence, pc, flagVars,
                   progressVars>>

\* The scan reads token and message content of a stale running row.
MonitorScan(m) ==
    /\ seen[m] = NothingSeen
    /\ status \in Running
    /\ writerToken # NoRun
    /\ heartbeatStale
    /\ seen' = [seen EXCEPT ![m] = [token |-> writerToken,
                                    content |-> messageContent,
                                    probed |-> FALSE]]
    /\ UNCHANGED <<dbVars, jobVars, redisSequence, pc, flagVars,
                   progressVars>>

\* A generation whose job is active is skipped.
MonitorProbe(m) ==
    /\ seen[m].token # NoRun
    /\ ~seen[m].probed
    /\ seen' = [seen EXCEPT ![m] = IF job = "active" THEN NothingSeen
                                   ELSE [@ EXCEPT !.probed = TRUE]]
    /\ UNCHANGED <<dbVars, jobVars, redisSequence, pc, flagVars,
                   progressVars>>

MonitorGuard(m) ==
    /\ status \in Running
    /\ writerToken = seen[m].token
    /\ heartbeatStale

\* The conditional transaction: WORKER_LOST, partial content kept, the
\* token's open attempts closed, the event carrying the scanned content.
MonitorSettle(m) ==
    /\ seen[m].probed
    /\ \/ /\ MonitorGuard(m)
          /\ Settle("FAILED", Running, messageContent, checkpointSequence,
                    seen[m].content)
          /\ writerToken' = NoRun
          /\ attempts' = [i \in DOMAIN attempts |->
                IF attempts[i] = [status |-> "STARTED", token |-> writerToken]
                THEN [attempts[i] EXCEPT !.status = "FAILED"]
                ELSE attempts[i]]
       \/ /\ ~MonitorGuard(m)
          /\ UNCHANGED <<status, checkpointSequence, messageVars, taskRun,
                         outbox, writerToken, attempts>>
    /\ seen' = [seen EXCEPT ![m] = NothingSeen]
    /\ UNCHANGED <<heartbeatStale, jobVars, redisSequence, pc, flagVars,
                   progressVars>>

----------------------------------------------------------------------------

ProcessStep(r) ==
    \/ ReadCandidate(r) \/ Claim(r) \/ MarkTaskRunning(r)
    \/ ReadOwned(r) \/ Prepare(r) \/ LoopHead(r) \/ CreateAttempt(r)
    \/ PublishStarted(r) \/ CheckpointStarted(r)

StreamStep(r) ==
    \/ ReceiveDelta(r) \/ StreamEnds(r) \/ StreamBreaks(r) \/ MarkStreaming(r)
    \/ Flush(r, "flush", "checkpoint", "stream")
    \/ Flush(r, "flushEnd", "checkpointEnd", "endCheck")
    \/ Flush(r, "flushCatch", "checkpointCatch", "catchCheck")
    \/ FlushCheckpoint(r, "checkpoint", "stream")
    \/ FlushCheckpoint(r, "checkpointEnd", "endCheck")
    \/ FlushCheckpoint(r, "checkpointCatch", "catchCheck")

EndStep(r) ==
    \/ CheckCancel(r, "endCheck", "completeAttempt")
    \/ CheckCancel(r, "catchCheck", "failAttempt")
    \/ CancelAttempt(r) \/ CompleteAttempt(r) \/ PublishUsage(r)
    \/ FailAttempt(r) \/ FinalizeCompleted(r) \/ FinalizeFailed(r)
    \/ PostCheck(r) \/ FinalizeCancelled(r)

\* What a run that is neither crashed nor failing does next.
RunStep(r) == ProcessStep(r) \/ StreamStep(r) \/ EndStep(r)

JobStep(r) == Deliver(r) \/ JobReturns(r) \/ JobThrows(r)

MonitorStep(m) == MonitorScan(m) \/ MonitorProbe(m) \/ MonitorSettle(m)

Next ==
    \/ Cancel \/ Enqueue \/ Stall \/ HeartbeatExpires
    \/ \E r \in Runs :
          \/ JobStep(r) \/ RunStep(r)
          \/ Heartbeat(r) \/ ObserveCancel(r) \/ Throw(r) \/ Crash(r)
    \/ \E m \in Monitors : MonitorStep(m)

Spec == Init /\ [][Next]_vars

\* Fair: live runs take their steps, the queue enqueues, delivers and notices
\* a dead holder, the monitors keep scanning, and a row whose writer no longer
\* beats expires.  Users, crashes and failures owe nothing.
NoBeat == \A r \in Runs : ~(claimed[r] /\ pc[r] \in OwnedPoints)

QueueStep ==
    \/ Enqueue
    \/ \E r \in Runs : Deliver(r)
    \/ holder # NoRun /\ pc[holder] = "done" /\ Stall

Fairness ==
    /\ WF_vars(QueueStep)
    /\ WF_vars(NoBeat /\ HeartbeatExpires)
    /\ \A r \in Runs : WF_vars(RunStep(r) \/ JobReturns(r) \/ JobThrows(r))
    /\ \A m \in Monitors : WF_vars(MonitorStep(m))

FairSpec == Spec /\ Fairness

----------------------------------------------------------------------------
(* Properties                                                              *)

AttemptStatus == {"STARTED", "COMPLETED", "FAILED", "CANCELLED"}
Attempt == [status : AttemptStatus, token : Runs]
TerminalEvent == [type : Terminal, content : Nat]
Scan == [token : Runs \cup {NoRun}, content : Nat, probed : BOOLEAN]

DbTypeOK ==
    /\ status \in Active \cup Terminal
    /\ writerToken \in Runs \cup {NoRun}
    /\ heartbeatStale \in BOOLEAN
    /\ checkpointSequence \in Nat
    /\ messageStatus \in {"PENDING", "STREAMING"} \cup Terminal
    /\ messageContent \in Nat
    /\ taskRun \in {"NONE", "QUEUED", "RUNNING"} \cup Terminal
    /\ attempts \in Seq(Attempt)
    /\ outbox \in Seq(TerminalEvent)

QueueTypeOK ==
    /\ job \in {"absent", "waiting", "active", "completed", "failed"}
    /\ holder \in Runs \cup {NoRun}
    /\ attemptsMade \in Nat
    /\ stalls \in Nat
    /\ redisSequence \in Nat

RunTypeOK ==
    /\ pc \in [Runs -> Points]
    /\ claimed \in [Runs -> BOOLEAN]
    /\ inTry \in [Runs -> BOOLEAN]
    /\ content \in [Runs -> Nat]
    /\ sequence \in [Runs -> Nat]
    /\ attemptNo \in [Runs -> Nat]
    /\ receivedFirstDelta \in [Runs -> BOOLEAN]
    /\ buffered \in [Runs -> BOOLEAN]
    /\ retryable \in [Runs -> BOOLEAN]
    /\ ownershipLost \in [Runs -> BOOLEAN]
    /\ cancelObserved \in [Runs -> BOOLEAN]

TypeOK ==
    /\ DbTypeOK
    /\ QueueTypeOK
    /\ RunTypeOK
    /\ seen \in [Monitors -> Scan]

\* A terminal generation has exactly one terminal outbox event, and event,
\* message and scheduled task run tell the same outcome; a generation that
\* is not terminal has none.  Three finalizers, the monitor and the user
\* race for this.
OutcomesAgree ==
    /\ status \in Terminal =>
          /\ Len(outbox) = 1
          /\ outbox[1].type = status
          /\ messageStatus = status
          /\ taskRun \in {"NONE", status}
    /\ status \notin Terminal =>
          /\ outbox = <<>>
          /\ messageStatus \notin Terminal
          /\ taskRun \notin Terminal

\* Only one terminal state wins: afterwards neither a late writer, a late
\* cancellation nor a monitor changes the row, the message or the event.
TerminalIsFinal ==
    [][(status \in Terminal) => UNCHANGED outcomeVars]_vars

\* No two deliveries ever stream at the same time, and the one that streams
\* is the one whose token is on the row, until a monitor takes it away.
SingleWriter ==
    \A r \in Runs : pc[r] \in WriterPoints =>
        /\ writerToken = r \/ (writerToken = NoRun /\ status = "FAILED")
        /\ \A s \in Runs : pc[s] \in WriterPoints => s = r

\* A message completes with everything its writer has received, buffered or
\* not, whatever was saved by checkpoints before.
CompletedIsWhole ==
    [][status # "COMPLETED" /\ status' = "COMPLETED" =>
          \E r \in Runs : writerToken = r /\ messageContent' = content[r]]_vars

\* The provider is called again only while nothing of an earlier attempt was
\* saved, every earlier attempt is closed as FAILED, and the budget allows.
RetryOnlyBeforeFirstDelta ==
    [][Len(attempts') # Len(attempts) =>
          /\ messageContent = 0
          /\ Len(attempts') <= MaxAttempts
          /\ \A i \in DOMAIN attempts : attempts[i].status = "FAILED"]_vars

\* Nothing is left that could still finalize a cancellation.
Abandoned ==
    /\ job \in {"completed", "failed"}
    /\ \A r \in Runs : pc[r] \notin LivePoints

\* A generation that has left the queue reaches a terminal state whatever
\* crashes, throws or stalls, except when a cancellation was requested and
\* neither a delivery of the job nor a run is left to finalize it.
StartedSettles ==
    status \in Running \cup {"CANCEL_REQUESTED"} ~>
        status \in Terminal \/ (status = "CANCEL_REQUESTED" /\ Abandoned)

\* What the acceptance document of phase 4 says: cancelling keeps the content
\* produced so far.
CancelKeepsContent ==
    [][status' = "CANCELLED" => messageContent' >= messageContent]_vars

\* What the acceptance document of phase 4 says: a cancel mark makes the
\* generation converge to CANCELLED.  A job the queue has given up is excused.
CancelConverges ==
    status = "CANCEL_REQUESTED" ~> status = "CANCELLED" \/ job = "failed"

----------------------------------------------------------------------------
(* The inductive invariant                                                 *)

\* Points a run reaches only through a claim of its own.
ClaimedPoints == {"taskRun", "finalizeFailed"} \cup WriterPoints

\* Points at which a run holds the answer loaded from the row, or more.
HoldingPoints == ClaimedPoints \ {"taskRun", "prepare"}

\* Points inside the try block, up to the return of the call.
TryPoints == StreamPoints \cup
                 {"cancelAttempt", "finalizeCancelled", "postCheck", "returned"}

\* At most one run has claimed the row and it holds the token, until a
\* monitor clears it with the outcome FAILED.  A run that came to finalize an
\* orphaned cancellation finds the row no longer in a state a writer may own.
Ownership ==
    /\ \A r \in Runs : pc[r] \in ClaimedPoints \/ inTry[r] => claimed[r]
    /\ \A r \in Runs : claimed[r] =>
          writerToken = r \/ (writerToken = NoRun /\ status = "FAILED")
    /\ \A r, s \in Runs : claimed[r] /\ claimed[s] => r = s
    /\ \A r \in Runs : pc[r] = "owned" /\ ~claimed[r] =>
          status \notin Cancellable
    /\ status = "QUEUED" => writerToken = NoRun

\* Row and message move together.
Shown ==
    /\ status \in {"QUEUED", "STARTING"} => messageStatus = "PENDING"
    /\ status = "STREAMING" => messageStatus = "STREAMING"

InsideTry == \A r \in Runs : inTry[r] => pc[r] \in TryPoints

\* A writer holds at least what was saved, so saving never loses anything.
Held == \A r \in Runs :
    /\ pc[r] \in HoldingPoints \/ inTry[r]
    /\ status \in Running
    => content[r] >= messageContent

\* What a monitor has scanned was saved.
Scanned == \A m \in Monitors :
    status \in Cancellable => seen[m].content <= messageContent

Inv ==
    /\ TypeOK
    /\ OutcomesAgree
    /\ Ownership
    /\ Shown
    /\ InsideTry
    /\ Held
    /\ Scanned

----------------------------------------------------------------------------
(* The abstract specification                                              *)

Contract == INSTANCE GenerationContract
    WITH phase <- status, shown <- messageStatus, answer <- messageContent,
         notices <- outbox

\* Whatever the actors do, a snapshot of the database shows the behaviour of
\* GenerationContract: the answer grows until one outcome is reached, which
\* is announced exactly once and never changes.
RefinesContract == Contract!Spec
=============================================================================

--------------------- MODULE GenerationLifecycle_proofs ---------------------
(***************************************************************************)
(* Proofs about one generation, for any number of deliveries, monitors,    *)
(* attempts, deltas and stalls.                                            *)
(***************************************************************************)
EXTENDS GenerationLifecycle, SequenceTheorems, TLAPS

USE DEF Runs, NoRun, Running, Terminal, Cancellable, Active

----------------------------------------------------------------------------
(* Type correctness                                                        *)

\* A queued generation without job, attempts or runs is well formed.
LEMMA InitTyped == Init => TypeOK
<1> SUFFICES ASSUME Init PROVE TypeOK
  OBVIOUS
<1>1. attempts \in Seq(Attempt) /\ outbox \in Seq(TerminalEvent)
  BY EmptySeq DEF Init
<1>2. seen \in [Monitors -> Scan]
  BY DEF Init, Scan, NothingSeen
<1>3. pc \in [Runs -> Points]
  BY DEF Init, Points
<1> QED
  BY <1>1, <1>2, <1>3 DEF Init, TypeOK, DbTypeOK, QueueTypeOK, RunTypeOK

\* Closing some of the attempts leaves a sequence of attempts.
LEMMA CloseTyped ==
  ASSUME DbTypeOK,
         NEW P, P \subseteq DOMAIN attempts,
         NEW result \in AttemptStatus
  PROVE  [i \in DOMAIN attempts |->
            IF i \in P THEN [attempts[i] EXCEPT !.status = result]
            ELSE attempts[i]] \in Seq(Attempt)
<1>1. \A i \in DOMAIN attempts : attempts[i] \in Attempt
  BY LenProperties, ElementOfSeq DEF DbTypeOK
<1>2. DOMAIN attempts = 1 .. Len(attempts) /\ Len(attempts) \in Nat
  BY LenProperties DEF DbTypeOK
<1>3. [i \in 1 .. Len(attempts) |->
            IF i \in P THEN [attempts[i] EXCEPT !.status = result]
            ELSE attempts[i]] \in [1 .. Len(attempts) -> Attempt]
  BY <1>1, <1>2 DEF Attempt
<1> QED
  BY <1>2, <1>3, SeqDef

\* completeAttempt leaves a sequence of attempts.
LEMMA SetAttemptTyped ==
  ASSUME DbTypeOK, NEW n, NEW result \in AttemptStatus
  PROVE  [attempts EXCEPT ![n].status = result] \in Seq(Attempt)
<1> DEFINE P == {n} \cap DOMAIN attempts
           closed == [i \in DOMAIN attempts |->
                        IF i \in P THEN [attempts[i] EXCEPT !.status = result]
                        ELSE attempts[i]]
<1>1. [attempts EXCEPT ![n].status = result] = closed
  OBVIOUS
<1>2. P \subseteq DOMAIN attempts
  OBVIOUS
<1>3. closed \in Seq(Attempt)
  <2> HIDE DEF P
  <2> QED
    BY <1>2, CloseTyped
<1> HIDE DEF closed
<1> QED
  BY <1>1, <1>3

\* A terminal transaction is typed when the values it is given are.
LEMMA SettleTyped ==
  ASSUME DbTypeOK,
         NEW outcome \in Terminal, NEW from, NEW answer \in Nat,
         NEW seq \in Nat, NEW told \in Nat,
         Settle(outcome, from, answer, seq, told)
  PROVE  /\ status' \in Active \cup Terminal
         /\ checkpointSequence' \in Nat
         /\ messageStatus' \in {"PENDING", "STREAMING"} \cup Terminal
         /\ messageContent' \in Nat
         /\ taskRun' \in {"NONE", "QUEUED", "RUNNING"} \cup Terminal
         /\ outbox' \in Seq(TerminalEvent)
<1>1. [type |-> outcome, content |-> told] \in TerminalEvent
  BY DEF TerminalEvent
<1>2. Append(outbox, [type |-> outcome, content |-> told])
        \in Seq(TerminalEvent)
  BY <1>1, AppendProperties DEF DbTypeOK
<1> QED
  BY <1>2 DEF Settle, DbTypeOK, messageVars

\* Actions of the user, the queue and the timers.
LEMMA OutsideTyped ==
  ASSUME TypeOK,
         \/ Cancel \/ Enqueue \/ Stall \/ HeartbeatExpires
         \/ \E r \in Runs : \/ JobStep(r) \/ Heartbeat(r) \/ ObserveCancel(r)
                            \/ Throw(r) \/ Crash(r)
  PROVE  TypeOK'
<1> USE DEF TypeOK, DbTypeOK, QueueTypeOK, RunTypeOK, dbVars, rowVars,
            messageVars, jobVars, flagVars, progressVars
<1>1. CASE Cancel
  BY <1>1 DEF Cancel
<1>2. CASE Enqueue
  BY <1>2 DEF Enqueue
<1>3. CASE Stall
  BY <1>3 DEF Stall
<1>4. CASE HeartbeatExpires
  BY <1>4 DEF HeartbeatExpires
<1>5. ASSUME NEW r \in Runs, Deliver(r) PROVE TypeOK'
  BY <1>5 DEF Deliver, Go, Jump, Points, LivePoints, EntryPoints
<1>6. ASSUME NEW r \in Runs, JobReturns(r) PROVE TypeOK'
  BY <1>6 DEF JobReturns, Go, Jump, Points, Forget
<1>7. ASSUME NEW r \in Runs, JobThrows(r) PROVE TypeOK'
  BY <1>7 DEF JobThrows, Go, Jump, Points, Forget
<1>8. ASSUME NEW r \in Runs, Heartbeat(r) PROVE TypeOK'
  <2>1. ownershipLost' \in [Runs -> BOOLEAN]
    BY <1>8 DEF Heartbeat
  <2>2. heartbeatStale' \in BOOLEAN
    BY <1>8 DEF Heartbeat
  <2> QED
    BY <1>8, <2>1, <2>2 DEF Heartbeat
<1>9. ASSUME NEW r \in Runs, ObserveCancel(r) PROVE TypeOK'
  <2>1. cancelObserved' \in [Runs -> BOOLEAN]
    BY <1>9 DEF ObserveCancel
  <2>2. DbTypeOK' /\ QueueTypeOK' /\ (seen \in [Monitors -> Scan])'
    BY <1>9 DEF ObserveCancel
  <2>3. RunTypeOK'
    BY <1>9, <2>1 DEF ObserveCancel
  <2> QED
    BY <2>2, <2>3
<1>10. ASSUME NEW r \in Runs, Throw(r) PROVE TypeOK'
  <2>1. {"flushCatch", "threw"} \subseteq Points
    BY DEF Points, LivePoints, OwnedPoints, WriterPoints, CatchPoints
  <2>2. /\ pc' \in [Runs -> Points]
        /\ inTry' \in [Runs -> BOOLEAN]
        /\ retryable' \in [Runs -> BOOLEAN]
    <3>1. CASE EnterCatch(r, FALSE)
      BY <2>1, <3>1 DEF EnterCatch
    <3>2. CASE Jump(r, "threw") /\ UNCHANGED <<inTry, retryable>>
      BY <2>1, <3>2 DEF Jump
    <3> QED
      BY <1>10, <3>1, <3>2 DEF Throw
  <2>3. DbTypeOK' /\ QueueTypeOK' /\ (seen \in [Monitors -> Scan])'
    BY <1>10 DEF Throw
  <2>4. RunTypeOK'
    BY <1>10, <2>2 DEF Throw
  <2> QED
    BY <2>3, <2>4
<1>11. ASSUME NEW r \in Runs, Crash(r) PROVE TypeOK'
  BY <1>11 DEF Crash, Jump, Points, Forget
<1> HIDE DEF TypeOK
<1> QED
  BY <1>1, <1>2, <1>3, <1>4, <1>5, <1>6, <1>7, <1>8, <1>9, <1>10, <1>11
  DEF JobStep

\* A run up to its attempt loop.
LEMMA ProcessTyped ==
  ASSUME TypeOK, NEW r \in Runs, ProcessStep(r)
  PROVE  TypeOK'
<1> USE DEF TypeOK, DbTypeOK, QueueTypeOK, RunTypeOK, dbVars, rowVars,
            messageVars, jobVars, flagVars, progressVars, Go, Jump
<1>0. /\ EntryPoints \subseteq Points
      /\ OwnedPoints \subseteq Points
      /\ {"returned", "done"} \subseteq Points
      /\ {"owned", "finalizeCancelled", "finalizeFailed"} \subseteq OwnedPoints
      /\ SetupPoints \subseteq OwnedPoints
      /\ "stream" \in OwnedPoints
  BY DEF Points, LivePoints, OwnedPoints, FinalPoints, WriterPoints,
         StreamPoints
<1>1. CASE ReadCandidate(r)
  BY <1>0, <1>1 DEF ReadCandidate, CandidateRoute, EntryPoints
<1>2. CASE Claim(r)
  <2>1. claimed' \in [Runs -> BOOLEAN]
    BY <1>2 DEF Claim
  <2>2. pc' \in [Runs -> Points]
    BY <1>0, <1>2 DEF Claim, EntryPoints
  <2>3. DbTypeOK'
    BY <1>2 DEF Claim, TakeRow
  <2>4. QueueTypeOK' /\ (seen \in [Monitors -> Scan])'
    BY <1>2 DEF Claim
  <2>5. RunTypeOK'
    BY <1>2, <2>1, <2>2 DEF Claim
  <2> QED
    BY <2>3, <2>4, <2>5
<1>3. CASE MarkTaskRunning(r)
  BY <1>0, <1>3 DEF MarkTaskRunning
<1>4. CASE ReadOwned(r)
  BY <1>0, <1>4 DEF ReadOwned, OwnedRoutes, SetupPoints
<1>5. CASE Prepare(r)
  <2> DEFINE P == {i \in DOMAIN attempts : attempts[i].status = "STARTED"}
  <2>1. attempts' = [i \in DOMAIN attempts |->
                       IF i \in P THEN [attempts[i] EXCEPT !.status = "FAILED"]
                       ELSE attempts[i]]
    BY <1>5 DEF Prepare
  <2>2. P \subseteq DOMAIN attempts /\ "FAILED" \in AttemptStatus
    BY DEF AttemptStatus
  <2> HIDE DEF P
  <2>3. attempts' \in Seq(Attempt)
    BY <2>1, <2>2, CloseTyped
  <2> QED
    BY <1>0, <1>5, <2>3 DEF Prepare, SetupPoints
<1>6. CASE LoopHead(r)
  BY <1>0, <1>6 DEF LoopHead, SetupPoints
<1>7. CASE CreateAttempt(r)
  <2>1. [status |-> "STARTED", token |-> r] \in Attempt
    BY DEF Attempt, AttemptStatus
  <2>2. attempts' \in Seq(Attempt)
    BY <1>7, <2>1, AppendProperties DEF CreateAttempt
  <2>3. Len(attempts) + 1 \in Nat
    BY LenProperties
  <2> QED
    BY <1>0, <1>7, <2>2, <2>3 DEF CreateAttempt, SetupPoints
<1>8. CASE PublishStarted(r)
  BY <1>0, <1>8 DEF PublishStarted, Publish, SetupPoints
<1>9. CASE CheckpointStarted(r)
  BY <1>0, <1>9 DEF CheckpointStarted, WriteCheckpoint
<1> HIDE DEF TypeOK
<1> QED
  BY <1>1, <1>2, <1>3, <1>4, <1>5, <1>6, <1>7, <1>8, <1>9 DEF ProcessStep

\* A run that receives the provider stream.
LEMMA StreamTyped ==
  ASSUME TypeOK, NEW r \in Runs, StreamStep(r)
  PROVE  TypeOK'
<1> USE DEF TypeOK, DbTypeOK, QueueTypeOK, RunTypeOK, dbVars, rowVars,
            messageVars, jobVars, flagVars, progressVars, Go, Jump
<1>0. {"stream", "mark", "flush", "checkpoint", "flushEnd", "checkpointEnd",
       "endCheck", "flushCatch", "checkpointCatch", "catchCheck"}
        \subseteq Points
  BY DEF Points, LivePoints, OwnedPoints, WriterPoints, StreamPoints,
         CatchPoints
<1>1. CASE ReceiveDelta(r)
  <2>1. pc' \in [Runs -> Points]
    BY <1>0, <1>1 DEF ReceiveDelta, AfterDelta
  <2>2. /\ content' \in [Runs -> Nat]
        /\ buffered' \in [Runs -> BOOLEAN]
        /\ receivedFirstDelta' \in [Runs -> BOOLEAN]
    BY <1>1 DEF ReceiveDelta
  <2>3. DbTypeOK' /\ QueueTypeOK' /\ (seen \in [Monitors -> Scan])'
    BY <1>1 DEF ReceiveDelta
  <2>4. RunTypeOK'
    BY <1>1, <2>1, <2>2 DEF ReceiveDelta
  <2> QED
    BY <2>3, <2>4
<1>2. CASE StreamEnds(r)
  BY <1>0, <1>2 DEF StreamEnds
<1>3. CASE StreamBreaks(r)
  <2>1. PICK canRetry \in BOOLEAN : EnterCatch(r, canRetry)
    BY <1>3 DEF StreamBreaks
  <2>2. /\ pc' \in [Runs -> Points]
        /\ inTry' \in [Runs -> BOOLEAN]
        /\ retryable' \in [Runs -> BOOLEAN]
    BY <1>0, <2>1 DEF EnterCatch
  <2>3. DbTypeOK' /\ QueueTypeOK' /\ (seen \in [Monitors -> Scan])'
    BY <1>3 DEF StreamBreaks
  <2>4. RunTypeOK'
    BY <1>3, <2>2 DEF StreamBreaks
  <2> QED
    BY <2>3, <2>4
<1>4. CASE MarkStreaming(r)
  BY <1>0, <1>4 DEF MarkStreaming, AfterDelta
<1>5. ASSUME NEW here, NEW checkpoint \in Points, NEW next \in Points,
             Flush(r, here, checkpoint, next)
      PROVE  TypeOK'
  <2>1. pc' \in [Runs -> Points]
    BY <1>5 DEF Flush
  <2>2. buffered' \in [Runs -> BOOLEAN]
    BY <1>5 DEF Flush
  <2>3. redisSequence' \in Nat /\ sequence' \in [Runs -> Nat]
    BY <1>5 DEF Flush, Publish
  <2>4. DbTypeOK' /\ QueueTypeOK' /\ (seen \in [Monitors -> Scan])'
    BY <1>5, <2>3 DEF Flush
  <2>5. RunTypeOK'
    BY <1>5, <2>1, <2>2, <2>3 DEF Flush
  <2> QED
    BY <2>4, <2>5
<1>6. ASSUME NEW here, NEW next \in Points, FlushCheckpoint(r, here, next)
      PROVE  TypeOK'
  <2>1. buffered' \in [Runs -> BOOLEAN] /\ pc' \in [Runs -> Points]
    BY <1>6 DEF FlushCheckpoint
  <2>2. checkpointSequence' \in Nat /\ messageContent' \in Nat
    BY <1>6 DEF FlushCheckpoint, WriteCheckpoint
  <2>3. DbTypeOK' /\ QueueTypeOK' /\ (seen \in [Monitors -> Scan])'
    BY <1>6, <2>2 DEF FlushCheckpoint, WriteCheckpoint
  <2>4. RunTypeOK'
    BY <1>6, <2>1 DEF FlushCheckpoint
  <2> QED
    BY <2>3, <2>4
<1> HIDE DEF TypeOK
<1> QED
  BY <1>0, <1>1, <1>2, <1>3, <1>4, <1>5, <1>6 DEF StreamStep

\* A run that closes its attempt and finalizes.
LEMMA EndTyped ==
  ASSUME TypeOK, NEW r \in Runs, EndStep(r)
  PROVE  TypeOK'
<1> USE DEF TypeOK, DbTypeOK, QueueTypeOK, RunTypeOK, dbVars, rowVars,
            messageVars, jobVars, flagVars, progressVars, Go, Jump
<1>0. {"cancelAttempt", "completeAttempt", "failAttempt", "usage",
       "finalizeCompleted", "finalizeFailed", "finalizeCancelled",
       "postCheck", "returned", "loop"} \subseteq Points
  BY DEF Points, LivePoints, OwnedPoints, WriterPoints, SetupPoints,
         StreamPoints, CatchPoints, FinalPoints
<1>1. ASSUME NEW here, NEW next \in Points, CheckCancel(r, here, next)
      PROVE  TypeOK'
  BY <1>0, <1>1 DEF CheckCancel
<1>2. ASSUME NEW result \in AttemptStatus, SetAttempt(r, result),
             pc' \in [Runs -> Points]
      PROVE  TypeOK'
  <2>1. attempts' \in Seq(Attempt)
    BY <1>2, SetAttemptTyped DEF SetAttempt
  <2> QED
    BY <1>2, <2>1 DEF SetAttempt
<1>3. CASE CancelAttempt(r)
  <2>1. pc' \in [Runs -> Points] /\ SetAttempt(r, "CANCELLED")
    BY <1>0, <1>3 DEF CancelAttempt
  <2> QED
    BY <1>2, <2>1 DEF AttemptStatus
<1>4. CASE CompleteAttempt(r)
  <2>1. pc' \in [Runs -> Points] /\ SetAttempt(r, "COMPLETED")
    BY <1>0, <1>4 DEF CompleteAttempt
  <2> QED
    BY <1>2, <2>1 DEF AttemptStatus
<1>5. CASE PublishUsage(r)
  BY <1>0, <1>5 DEF PublishUsage, Publish
<1>6. CASE FailAttempt(r)
  <2>1. pc' \in [Runs -> Points] /\ SetAttempt(r, "FAILED")
    BY <1>0, <1>6 DEF FailAttempt
  <2> QED
    BY <1>2, <2>1 DEF AttemptStatus
<1>7. ASSUME NEW outcome \in Terminal, NEW here, Finalize(r, here, outcome)
      PROVE  TypeOK'
  <2>1. content[r] \in Nat /\ sequence[r] \in Nat
    OBVIOUS
  <2>2. /\ status' \in Active \cup Terminal
        /\ checkpointSequence' \in Nat
        /\ messageStatus' \in {"PENDING", "STREAMING"} \cup Terminal
        /\ messageContent' \in Nat
        /\ taskRun' \in {"NONE", "QUEUED", "RUNNING"} \cup Terminal
        /\ outbox' \in Seq(TerminalEvent)
    <3> HIDE DEF DbTypeOK
    <3> QED
      BY <1>7, <2>1, SettleTyped DEF Finalize
  <2> QED
    BY <1>0, <1>7, <2>2 DEF Finalize
<1>8. CASE PostCheck(r)
  BY <1>0, <1>8 DEF PostCheck
<1>9. CASE FinalizeCancelled(r)
  <2>1. content[r] \in Nat /\ sequence[r] \in Nat
    OBVIOUS
  <2>2. /\ status' \in Active \cup Terminal
        /\ checkpointSequence' \in Nat
        /\ messageStatus' \in {"PENDING", "STREAMING"} \cup Terminal
        /\ messageContent' \in Nat
        /\ taskRun' \in {"NONE", "QUEUED", "RUNNING"} \cup Terminal
        /\ outbox' \in Seq(TerminalEvent)
    <3> HIDE DEF DbTypeOK
    <3> QED
      BY <1>9, <2>1, SettleTyped DEF FinalizeCancelled
  <2> QED
    BY <1>0, <1>9, <2>2 DEF FinalizeCancelled
<1> HIDE DEF TypeOK
<1> QED
  BY <1>0, <1>1, <1>3, <1>4, <1>5, <1>6, <1>7, <1>8, <1>9
  DEF EndStep, FinalizeCompleted, FinalizeFailed

\* A zombie monitor.
LEMMA MonitorTyped ==
  ASSUME TypeOK, NEW m \in Monitors, MonitorStep(m)
  PROVE  TypeOK'
<1> USE DEF TypeOK, DbTypeOK, QueueTypeOK, RunTypeOK, dbVars, rowVars,
            messageVars, jobVars, flagVars, progressVars
<1>0. NothingSeen \in Scan
  BY DEF NothingSeen, Scan
<1>1. CASE MonitorScan(m)
  <2>1. seen' \in [Monitors -> Scan]
    BY <1>1 DEF MonitorScan, Scan
  <2> QED
    BY <1>1, <2>1 DEF MonitorScan
<1>2. CASE MonitorProbe(m)
  <2>1. [seen[m] EXCEPT !.probed = TRUE] \in Scan
    BY DEF Scan
  <2>2. seen' \in [Monitors -> Scan]
    BY <1>0, <1>2, <2>1 DEF MonitorProbe
  <2> QED
    BY <1>2, <2>2 DEF MonitorProbe
<1>3. CASE MonitorSettle(m)
  <2>1. seen' \in [Monitors -> Scan]
    BY <1>0, <1>3 DEF MonitorSettle
  <2>2. QueueTypeOK' /\ RunTypeOK' /\ heartbeatStale' \in BOOLEAN
    BY <1>3 DEF MonitorSettle
  <2>3. CASE MonitorGuard(m)
    <3> DEFINE P == {i \in DOMAIN attempts :
                 attempts[i] = [status |-> "STARTED", token |-> writerToken]}
    <3>1. Settle("FAILED", Running, messageContent, checkpointSequence,
                 seen[m].content)
      BY <1>3, <2>3 DEF MonitorSettle
    <3>2. seen[m].content \in Nat
      BY DEF Scan
    <3>3. /\ status' \in Active \cup Terminal
          /\ checkpointSequence' \in Nat
          /\ messageStatus' \in {"PENDING", "STREAMING"} \cup Terminal
          /\ messageContent' \in Nat
          /\ taskRun' \in {"NONE", "QUEUED", "RUNNING"} \cup Terminal
          /\ outbox' \in Seq(TerminalEvent)
      <4>1. DbTypeOK /\ messageContent \in Nat /\ checkpointSequence \in Nat
        OBVIOUS
      <4> HIDE DEF TypeOK, DbTypeOK
      <4> QED
        BY <3>1, <3>2, <4>1, SettleTyped
    <3>4. attempts' = [i \in DOMAIN attempts |->
                         IF i \in P
                         THEN [attempts[i] EXCEPT !.status = "FAILED"]
                         ELSE attempts[i]]
      BY <1>3, <2>3 DEF MonitorSettle
    <3>5. P \subseteq DOMAIN attempts /\ "FAILED" \in AttemptStatus
      BY DEF AttemptStatus
    <3>6. attempts' \in Seq(Attempt)
      <4> HIDE DEF P
      <4> QED
        BY <3>4, <3>5, CloseTyped
    <3>7. writerToken' = NoRun
      BY <1>3, <2>3 DEF MonitorSettle
    <3> QED
      BY <2>1, <2>2, <3>3, <3>6, <3>7
  <2>4. CASE ~MonitorGuard(m)
    BY <1>3, <2>1, <2>2, <2>4 DEF MonitorSettle
  <2> QED
    BY <2>3, <2>4
<1> HIDE DEF TypeOK
<1> QED
  BY <1>1, <1>2, <1>3 DEF MonitorStep

\* Every step keeps row, job, runs and monitors well formed.
LEMMA TypeStep == TypeOK /\ [Next]_vars => TypeOK'
<1> SUFFICES ASSUME TypeOK, [Next]_vars PROVE TypeOK'
  OBVIOUS
<1>1. CASE Next
  BY <1>1, OutsideTyped, ProcessTyped, StreamTyped, EndTyped, MonitorTyped
  DEF Next, RunStep
<1>2. CASE UNCHANGED vars
  BY <1>2 DEF vars, dbVars, rowVars, messageVars, jobVars, flagVars,
              progressVars, TypeOK, DbTypeOK, QueueTypeOK, RunTypeOK
<1> QED
  BY <1>1, <1>2

\* Every row, job and run of the generation stays well formed.
THEOREM TypeCorrect == Spec => []TypeOK
<1> QED
  BY InitTyped, TypeStep, PTL DEF Spec

----------------------------------------------------------------------------
(* The inductive invariant                                                 *)

SavePoints == {"checkpointStarted", "checkpoint", "checkpointEnd",
               "checkpointCatch"}

\* The steps that touch the generation row, its message, its task run or its
\* terminal event.
LEMMA OutcomeFrame ==
  ASSUME [Next]_vars
  PROVE  \/ UNCHANGED outcomeVars
         \/ Cancel
         \/ \E r \in Runs :
               \/ Claim(r) \/ MarkTaskRunning(r) \/ MarkStreaming(r)
               \/ pc[r] \in SavePoints /\ WriteCheckpoint(r)
               \/ FinalizeCompleted(r) \/ FinalizeFailed(r)
               \/ FinalizeCancelled(r)
         \/ \E m \in Monitors : MonitorSettle(m)
<1> DEFINE Goal == UNCHANGED outcomeVars
<1> USE DEF outcomeVars, dbVars, rowVars, messageVars
<1>1. CASE UNCHANGED vars
  BY <1>1 DEF vars
<1>2. CASE Enqueue \/ Stall \/ HeartbeatExpires
  BY <1>2 DEF Enqueue, Stall, HeartbeatExpires
<1>3. ASSUME NEW r \in Runs, JobStep(r) PROVE Goal
  BY <1>3 DEF JobStep, Deliver, JobReturns, JobThrows
<1>4. ASSUME NEW r \in Runs,
             Heartbeat(r) \/ ObserveCancel(r) \/ Throw(r) \/ Crash(r)
      PROVE  Goal
  BY <1>4 DEF Heartbeat, ObserveCancel, Throw, Crash
<1>5. ASSUME NEW r \in Runs, ProcessStep(r)
      PROVE  \/ Goal \/ Claim(r) \/ MarkTaskRunning(r)
             \/ pc[r] \in SavePoints /\ WriteCheckpoint(r)
  <2>1. CASE \/ ReadCandidate(r) \/ ReadOwned(r) \/ LoopHead(r)
             \/ PublishStarted(r)
    BY <2>1 DEF ReadCandidate, ReadOwned, LoopHead, PublishStarted
  <2>2. CASE Prepare(r) \/ CreateAttempt(r)
    BY <2>2 DEF Prepare, CreateAttempt
  <2>3. CASE CheckpointStarted(r)
    BY <2>3 DEF CheckpointStarted, Go, SavePoints
  <2> QED
    BY <1>5, <2>1, <2>2, <2>3 DEF ProcessStep
<1>6. ASSUME NEW r \in Runs, StreamStep(r)
      PROVE  \/ Goal \/ MarkStreaming(r)
             \/ pc[r] \in SavePoints /\ WriteCheckpoint(r)
  <2>1. CASE ReceiveDelta(r) \/ StreamEnds(r) \/ StreamBreaks(r)
    BY <2>1 DEF ReceiveDelta, StreamEnds, StreamBreaks
  <2>2. ASSUME NEW here, NEW point, NEW next, Flush(r, here, point, next)
        PROVE  Goal
    BY <2>2 DEF Flush
  <2>3. ASSUME NEW here \in SavePoints, NEW next,
               FlushCheckpoint(r, here, next)
        PROVE  pc[r] \in SavePoints /\ WriteCheckpoint(r)
    BY <2>3 DEF FlushCheckpoint, Go
  <2> QED
    BY <1>6, <2>1, <2>2, <2>3 DEF StreamStep, SavePoints
<1>7. ASSUME NEW r \in Runs, EndStep(r)
      PROVE  \/ Goal \/ FinalizeCompleted(r) \/ FinalizeFailed(r)
             \/ FinalizeCancelled(r)
  <2>1. ASSUME NEW here, NEW next, CheckCancel(r, here, next) PROVE Goal
    BY <2>1 DEF CheckCancel
  <2>2. CASE \/ CancelAttempt(r) \/ CompleteAttempt(r) \/ FailAttempt(r)
             \/ PublishUsage(r) \/ PostCheck(r)
    BY <2>2 DEF CancelAttempt, CompleteAttempt, FailAttempt, SetAttempt,
                PublishUsage, PostCheck
  <2> QED
    BY <1>7, <2>1, <2>2 DEF EndStep
<1>8. ASSUME NEW m \in Monitors, MonitorScan(m) \/ MonitorProbe(m)
      PROVE  Goal
  BY <1>8 DEF MonitorScan, MonitorProbe
<1> HIDE DEF Goal
<1>9. CASE Next
  BY <1>2, <1>3, <1>4, <1>5, <1>6, <1>7, <1>8, <1>9
  DEF Next, RunStep, MonitorStep, Goal
<1> QED
  BY <1>1, <1>9

\* A terminal transaction leaves the four records in agreement, whether or not
\* it still finds the row in one of the states it starts from.
LEMMA SettleAgrees ==
  ASSUME DbTypeOK, OutcomesAgree,
         NEW outcome \in Terminal, NEW from \in SUBSET Active,
         NEW answer, NEW seq, NEW told,
         Settle(outcome, from, answer, seq, told)
  PROVE  OutcomesAgree'
<1>1. CASE status \in from
  <2>1. outbox = <<>>
    BY <1>1 DEF OutcomesAgree
  <2>2. outbox' = <<[type |-> outcome, content |-> told]>>
    BY <1>1, <2>1 DEF Settle
  <2> QED
    BY <1>1, <2>2 DEF Settle, OutcomesAgree, DbTypeOK
<1>2. CASE status \notin from
  BY <1>2 DEF Settle, OutcomesAgree, messageVars
<1> QED
  BY <1>1, <1>2

\* Every step keeps the outcomes in agreement.
LEMMA OutcomesStep ==
  ASSUME TypeOK, OutcomesAgree, [Next]_vars
  PROVE  OutcomesAgree'
<1> USE DEF TypeOK
<1>1. CASE UNCHANGED outcomeVars
  BY <1>1 DEF outcomeVars, OutcomesAgree
<1>2. CASE Cancel
  BY <1>2 DEF Cancel, OutcomesAgree, messageVars
<1>3. ASSUME NEW r \in Runs, Claim(r) PROVE OutcomesAgree'
  BY <1>3 DEF Claim, ClaimGuard, TakeRow, OutcomesAgree, messageVars, rowVars
<1>4. ASSUME NEW r \in Runs, MarkTaskRunning(r) PROVE OutcomesAgree'
  BY <1>4 DEF MarkTaskRunning, OutcomesAgree, messageVars, rowVars
<1>5. ASSUME NEW r \in Runs, MarkStreaming(r) PROVE OutcomesAgree'
  BY <1>5 DEF MarkStreaming, OutcomesAgree
<1>6. ASSUME NEW r \in Runs, WriteCheckpoint(r) PROVE OutcomesAgree'
  BY <1>6 DEF WriteCheckpoint, OutcomesAgree
<1>7. ASSUME NEW r \in Runs, FinalizeCompleted(r) \/ FinalizeFailed(r)
      PROVE  OutcomesAgree'
  BY <1>7, SettleAgrees DEF FinalizeCompleted, FinalizeFailed, Finalize
<1>8. ASSUME NEW r \in Runs, FinalizeCancelled(r) PROVE OutcomesAgree'
  BY <1>8, SettleAgrees DEF FinalizeCancelled
<1>9. ASSUME NEW m \in Monitors, MonitorSettle(m) PROVE OutcomesAgree'
  <2>1. CASE MonitorGuard(m)
    BY <1>9, <2>1, SettleAgrees DEF MonitorSettle
  <2>2. CASE ~MonitorGuard(m)
    BY <1>9, <2>2 DEF MonitorSettle, OutcomesAgree, messageVars
  <2> QED
    BY <2>1, <2>2
<1> QED
  BY <1>1, <1>2, <1>3, <1>4, <1>5, <1>6, <1>7, <1>8, <1>9, OutcomeFrame

\* A generation has exactly one outcome, and event, message and task run tell
\* the same one, however finalizers, monitors and users race.
THEOREM OutcomesAlwaysAgree == Spec => []OutcomesAgree
<1>1. Init => OutcomesAgree
  BY DEF Init, OutcomesAgree
<1>2. TypeOK /\ OutcomesAgree /\ [Next]_vars => OutcomesAgree'
  BY OutcomesStep
<1> QED
  BY <1>1, <1>2, TypeCorrect, PTL DEF Spec

\* A step from a terminal state leaves the outcome alone.
LEMMA FinalStep ==
  ASSUME TypeOK, OutcomesAgree, [Next]_vars
  PROVE  status \in Terminal => UNCHANGED outcomeVars
<1> SUFFICES ASSUME status \in Terminal PROVE UNCHANGED outcomeVars
  OBVIOUS
<1> USE DEF outcomeVars, messageVars
<1>1. CASE Cancel
  BY <1>1 DEF Cancel
<1>2. ASSUME NEW r \in Runs, Claim(r) PROVE UNCHANGED outcomeVars
  BY <1>2 DEF Claim, ClaimGuard, rowVars
<1>3. ASSUME NEW r \in Runs, MarkTaskRunning(r) PROVE UNCHANGED outcomeVars
  BY <1>3 DEF MarkTaskRunning, OutcomesAgree, rowVars
<1>4. ASSUME NEW r \in Runs, MarkStreaming(r) PROVE UNCHANGED outcomeVars
  BY <1>4 DEF MarkStreaming, OutcomesAgree
<1>5. ASSUME NEW r \in Runs, WriteCheckpoint(r) PROVE UNCHANGED outcomeVars
  BY <1>5 DEF WriteCheckpoint, CheckpointGuard
<1>6. ASSUME NEW r \in Runs, FinalizeCompleted(r) \/ FinalizeFailed(r)
      PROVE  UNCHANGED outcomeVars
  BY <1>6 DEF FinalizeCompleted, FinalizeFailed, Finalize, Settle
<1>7. ASSUME NEW r \in Runs, FinalizeCancelled(r)
      PROVE  UNCHANGED outcomeVars
  BY <1>7 DEF FinalizeCancelled, Settle
<1>8. ASSUME NEW m \in Monitors, MonitorSettle(m)
      PROVE  UNCHANGED outcomeVars
  BY <1>8 DEF MonitorSettle, MonitorGuard
<1> QED
  BY <1>1, <1>2, <1>3, <1>4, <1>5, <1>6, <1>7, <1>8, OutcomeFrame

\* The first terminal state wins for good.
THEOREM TerminalStaysFinal == Spec => TerminalIsFinal
<1>1. TypeOK /\ OutcomesAgree /\ [Next]_vars =>
        [(status \in Terminal) => UNCHANGED outcomeVars]_vars
  BY FinalStep
<1> QED
  BY <1>1, TypeCorrect, OutcomesAlwaysAgree, PTL DEF Spec, TerminalIsFinal

\* The status never returns to the queue, never leaves FAILED and never makes
\* a row ownable again.
StatusForward ==
    /\ status' = "QUEUED" => status = "QUEUED"
    /\ status' \in Cancellable => status \in Cancellable
    /\ status = "FAILED" => status' = "FAILED"

\* The status only moves forward.
LEMMA StatusStep ==
  ASSUME TypeOK, OutcomesAgree, [Next]_vars
  PROVE  StatusForward
<1> USE DEF StatusForward, outcomeVars
<1>1. CASE UNCHANGED outcomeVars
  BY <1>1
<1>2. CASE Cancel
  BY <1>2 DEF Cancel
<1>3. ASSUME NEW r \in Runs, Claim(r) PROVE StatusForward
  BY <1>3 DEF Claim, ClaimGuard, TakeRow, rowVars
<1>4. ASSUME NEW r \in Runs, MarkTaskRunning(r) PROVE StatusForward
  BY <1>4 DEF MarkTaskRunning, rowVars
<1>5. ASSUME NEW r \in Runs, MarkStreaming(r) PROVE StatusForward
  BY <1>5 DEF MarkStreaming
<1>6. ASSUME NEW r \in Runs, WriteCheckpoint(r) PROVE StatusForward
  BY <1>6 DEF WriteCheckpoint
<1>7. ASSUME NEW r \in Runs, FinalizeCompleted(r) \/ FinalizeFailed(r)
      PROVE  StatusForward
  BY <1>7 DEF FinalizeCompleted, FinalizeFailed, Finalize, Settle
<1>8. ASSUME NEW r \in Runs, FinalizeCancelled(r) PROVE StatusForward
  BY <1>8 DEF FinalizeCancelled, Settle
<1>9. ASSUME NEW m \in Monitors, MonitorSettle(m) PROVE StatusForward
  BY <1>9 DEF MonitorSettle, Settle
<1> QED
  BY <1>1, <1>2, <1>3, <1>4, <1>5, <1>6, <1>7, <1>8, <1>9, OutcomeFrame

\* A run that moves to p keeps the ownership invariant if p is within reach of
\* its claim.
LEMMA MoveOwned ==
  ASSUME TypeOK, Ownership, StatusForward,
         NEW r \in Runs, NEW p, pc' = [pc EXCEPT ![r] = p],
         UNCHANGED <<writerToken, claimed>>,
         \/ UNCHANGED inTry
         \/ inTry' = [inTry EXCEPT ![r] = FALSE]
         \/ inTry' = [inTry EXCEPT ![r] = TRUE] /\ claimed[r],
         p \in ClaimedPoints => claimed[r],
         p = "owned" => claimed[r] \/ status' \notin Cancellable
  PROVE  Ownership'
<1> USE DEF TypeOK, RunTypeOK
<1>1. \A s \in Runs : pc'[s] = IF s = r THEN p ELSE pc[s]
  OBVIOUS
<1>2. \A s \in Runs : inTry'[s] => inTry[s] \/ claimed[s]
  OBVIOUS
<1> QED
  BY <1>1, <1>2 DEF Ownership, StatusForward

\* A run that ends gives its claim up; the token stays on the row.
LEMMA EndOwned ==
  ASSUME TypeOK, Ownership, StatusForward,
         NEW r \in Runs, Jump(r, "done"), Forget(r), UNCHANGED writerToken
  PROVE  Ownership'
<1> USE DEF TypeOK, RunTypeOK
<1>1. \A s \in Runs : pc'[s] = IF s = r THEN "done" ELSE pc[s]
  BY DEF Jump
<1>2. \A s \in Runs : /\ claimed'[s] = IF s = r THEN FALSE ELSE claimed[s]
                     /\ inTry'[s] = IF s = r THEN FALSE ELSE inTry[s]
  BY DEF Forget
<1>3. "done" \notin ClaimedPoints /\ "done" # "owned"
  BY DEF ClaimedPoints, WriterPoints, SetupPoints, StreamPoints, CatchPoints
<1> QED
  BY <1>1, <1>2, <1>3 DEF Ownership, StatusForward

\* Users, queue, timers, failures and crashes respect the ownership.
LEMMA OutsideOwned ==
  ASSUME TypeOK, Ownership, StatusForward,
         \/ Cancel \/ Enqueue \/ Stall \/ HeartbeatExpires
         \/ \E r \in Runs : \/ JobStep(r) \/ Heartbeat(r) \/ ObserveCancel(r)
                            \/ Throw(r) \/ Crash(r)
  PROVE  Ownership'
<1> USE DEF dbVars, rowVars, flagVars
<1>0. \A p \in {"candidate", "threw"} : p \notin ClaimedPoints /\ p # "owned"
  BY DEF ClaimedPoints, WriterPoints, SetupPoints, StreamPoints, CatchPoints
<1>1. CASE Cancel \/ Enqueue \/ Stall \/ HeartbeatExpires
  <2>1. UNCHANGED <<pc, claimed, inTry, writerToken>>
    BY <1>1 DEF Cancel, Enqueue, Stall, HeartbeatExpires
  <2> QED
    BY <2>1 DEF Ownership, StatusForward
<1>2. ASSUME NEW r \in Runs, Deliver(r) PROVE Ownership'
  BY <1>0, <1>2, MoveOwned DEF Deliver, Go, Jump
<1>3. ASSUME NEW r \in Runs, JobReturns(r) \/ JobThrows(r) PROVE Ownership'
  BY <1>3, EndOwned DEF JobReturns, JobThrows, Go
<1>4. ASSUME NEW r \in Runs, Heartbeat(r) \/ ObserveCancel(r)
      PROVE  Ownership'
  <2>1. UNCHANGED <<pc, claimed, inTry, writerToken>>
    BY <1>4 DEF Heartbeat, ObserveCancel
  <2> QED
    BY <2>1 DEF Ownership, StatusForward
<1>5. ASSUME NEW r \in Runs, Throw(r) PROVE Ownership'
  <2>1. UNCHANGED <<writerToken, claimed>>
    BY <1>5 DEF Throw
  <2>2. CASE pc' = [pc EXCEPT ![r] = "threw"] /\ UNCHANGED inTry
    BY <1>0, <2>1, <2>2, MoveOwned
  <2>3. CASE inTry[r] /\ EnterCatch(r, FALSE)
    <3>1. claimed[r]
      BY <2>3 DEF Ownership
    <3>2. /\ pc' = [pc EXCEPT ![r] = "flushCatch"]
          /\ inTry' = [inTry EXCEPT ![r] = FALSE]
      BY <2>3 DEF EnterCatch
    <3> QED
      BY <2>1, <3>1, <3>2, MoveOwned
  <2> QED
    BY <1>5, <2>2, <2>3 DEF Throw, Jump
<1>6. ASSUME NEW r \in Runs, Crash(r) PROVE Ownership'
  BY <1>6, EndOwned DEF Crash
<1> QED
  BY <1>1, <1>2, <1>3, <1>4, <1>5, <1>6 DEF JobStep

\* Whoever claims the row finds no other claim: the token is unset and the
\* row still queued.
LEMMA ClaimOwned ==
  ASSUME TypeOK, Ownership, StatusForward, NEW r \in Runs, Claim(r)
  PROVE  Ownership'
<1> USE DEF TypeOK, DbTypeOK, RunTypeOK, rowVars, Go, Jump
<1>0. "returned" \notin ClaimedPoints
  BY DEF ClaimedPoints, WriterPoints, SetupPoints, StreamPoints, CatchPoints
<1>1. CASE ~ClaimGuard
  <2>1. UNCHANGED <<writerToken, claimed, inTry>>
    BY <1>1 DEF Claim
  <2>2. pc' = [pc EXCEPT ![r] = "returned"]
    BY <1>1 DEF Claim
  <2> QED
    BY <1>0, <2>1, <2>2, MoveOwned
<1>2. CASE ClaimGuard
  <2>1. \A s \in Runs : ~claimed[s]
    BY <1>2 DEF ClaimGuard, Ownership
  <2>2. status' = "STARTING" /\ writerToken' = r /\ UNCHANGED inTry
    BY <1>2 DEF Claim, TakeRow
  <2>3. CASE pc' = [pc EXCEPT ![r] = "taskRun"]
             /\ claimed' = [claimed EXCEPT ![r] = TRUE]
    <3>1. \A s \in Runs : s # r => pc'[s] = pc[s] /\ ~claimed'[s]
      BY <2>1, <2>3
    <3>2. claimed'[r] /\ pc'[r] = "taskRun"
      BY <2>3
    <3>3. \A s \in Runs : ~inTry[s] /\ pc[s] \notin ClaimedPoints
      BY <2>1 DEF Ownership
    <3>4. \A s \in Runs : pc[s] # "owned"
      BY <1>2, <2>1 DEF Ownership, ClaimGuard
    <3> QED
      BY <2>2, <3>1, <3>2, <3>3, <3>4 DEF Ownership
  <2>4. CASE pc' = [pc EXCEPT ![r] = "returned"] /\ UNCHANGED claimed
    <3>1. \A s \in Runs : pc'[s] = IF s = r THEN "returned" ELSE pc[s]
      BY <2>4
    <3>2. \A s \in Runs : pc[s] # "owned"
      BY <1>2, <2>1 DEF Ownership, ClaimGuard
    <3> QED
      BY <1>0, <2>1, <2>2, <2>4, <3>1, <3>2 DEF Ownership
  <2> QED
    BY <1>2, <2>3, <2>4 DEF Claim
<1> QED
  BY <1>1, <1>2

\* A run up to its attempt loop respects the ownership.
LEMMA ProcessOwned ==
  ASSUME TypeOK, Ownership, StatusForward, NEW r \in Runs, ProcessStep(r)
  PROVE  Ownership'
<1> USE DEF Go, Jump, dbVars, rowVars, flagVars
<1>0. /\ SetupPoints \subseteq ClaimedPoints
      /\ {"taskRun", "finalizeFailed", "stream"} \subseteq ClaimedPoints
      /\ \A p \in {"returned", "claim", "finalizeCancelled"} :
            p \notin ClaimedPoints /\ p # "owned"
      /\ "owned" \notin ClaimedPoints
  BY DEF ClaimedPoints, WriterPoints, SetupPoints, StreamPoints, CatchPoints
<1>1. CASE ReadCandidate(r)
  <2>1. UNCHANGED <<writerToken, claimed, inTry, status>>
    BY <1>1 DEF ReadCandidate
  <2>2. pc' = [pc EXCEPT ![r] = CandidateRoute]
    BY <1>1 DEF ReadCandidate
  <2>3. \/ CandidateRoute \in {"returned", "claim"}
        \/ CandidateRoute = "owned" /\ status = "CANCEL_REQUESTED"
    BY DEF CandidateRoute
  <2> QED
    BY <1>0, <2>1, <2>2, <2>3, MoveOwned
<1>2. CASE Claim(r)
  BY <1>2, ClaimOwned
<1>3. CASE MarkTaskRunning(r)
  <2>1. UNCHANGED <<writerToken, claimed, inTry>> /\ claimed[r]
    BY <1>0, <1>3 DEF MarkTaskRunning, Ownership
  <2> QED
    BY <1>0, <1>3, <2>1, MoveOwned DEF MarkTaskRunning
<1>4. CASE ReadOwned(r)
  <2>1. UNCHANGED <<writerToken, claimed, inTry>>
    BY <1>4 DEF ReadOwned
  <2>2. PICK p \in OwnedRoutes(r) : pc' = [pc EXCEPT ![r] = p]
    BY <1>4 DEF ReadOwned
  <2>3. CASE status = "STARTING"
    <3>1. claimed[r]
      BY <1>4, <2>3 DEF ReadOwned, Ownership
    <3>2. p # "owned"
      BY <2>2, <2>3 DEF OwnedRoutes
    <3> QED
      BY <2>1, <2>2, <3>1, <3>2, MoveOwned
  <2>4. CASE status # "STARTING"
    <3>1. p \in {"returned", "finalizeCancelled"}
      BY <2>2, <2>4 DEF OwnedRoutes
    <3> QED
      BY <1>0, <2>1, <2>2, <3>1, MoveOwned
  <2> QED
    BY <2>3, <2>4
<1>5. ASSUME pc[r] \in SetupPoints,
             NEW p \in SetupPoints
                         \cup {"finalizeFailed", "finalizeCancelled", "stream"},
             pc' = [pc EXCEPT ![r] = p],
             UNCHANGED <<writerToken, claimed>>,
             UNCHANGED inTry \/ inTry' = [inTry EXCEPT ![r] = TRUE]
      PROVE  Ownership'
  <2>1. claimed[r]
    BY <1>0, <1>5 DEF Ownership
  <2>2. p # "owned"
    BY <1>0, <1>5
  <2> QED
    BY <1>5, <2>1, <2>2, MoveOwned
<1>6. CASE Prepare(r)
  BY <1>5, <1>6 DEF Prepare, SetupPoints
<1>7. CASE LoopHead(r)
  BY <1>5, <1>7 DEF LoopHead, SetupPoints
<1>8. CASE CreateAttempt(r)
  BY <1>5, <1>8 DEF CreateAttempt, SetupPoints
<1>9. CASE PublishStarted(r)
  BY <1>5, <1>9 DEF PublishStarted, SetupPoints
<1>10. CASE CheckpointStarted(r)
  BY <1>5, <1>10 DEF CheckpointStarted, WriteCheckpoint, SetupPoints
<1> QED
  BY <1>1, <1>2, <1>3, <1>4, <1>6, <1>7, <1>8, <1>9, <1>10 DEF ProcessStep

\* So does a run that streams or finalizes.
LEMMA StreamOwned ==
  ASSUME TypeOK, Ownership, StatusForward, NEW r \in Runs,
         StreamStep(r) \/ EndStep(r)
  PROVE  Ownership'
<1> USE DEF Go, Jump, dbVars, rowVars, flagVars
<1>0. /\ WriterPoints \subseteq ClaimedPoints /\ "owned" \notin ClaimedPoints
      /\ StreamPoints \cup CatchPoints \cup {"loop"} \subseteq WriterPoints
      /\ "finalizeFailed" \in ClaimedPoints
      /\ "owned" \notin FinalPoints
  BY DEF ClaimedPoints, WriterPoints, SetupPoints, StreamPoints, CatchPoints,
         FinalPoints
\* From a writer's point every point but "owned" is within the claim.
<1>1. ASSUME pc[r] \in WriterPoints,
             NEW p \in WriterPoints \cup FinalPoints,
             pc' = [pc EXCEPT ![r] = p],
             UNCHANGED <<writerToken, claimed>>,
             UNCHANGED inTry \/ inTry' = [inTry EXCEPT ![r] = FALSE]
      PROVE  Ownership'
  <2>1. claimed[r]
    BY <1>0, <1>1 DEF Ownership
  <2> QED
    BY <1>0, <1>1, <2>1, MoveOwned
<1>2. CASE StreamStep(r)
  <2> USE DEF StreamPoints, CatchPoints
  <2>1. CASE ReceiveDelta(r)
    BY <1>0, <1>1, <2>1 DEF ReceiveDelta, AfterDelta
  <2>2. CASE StreamEnds(r)
    BY <1>0, <1>1, <2>2 DEF StreamEnds
  <2>3. CASE StreamBreaks(r)
    BY <1>0, <1>1, <2>3 DEF StreamBreaks, EnterCatch
  <2>4. CASE MarkStreaming(r)
    BY <1>0, <1>1, <2>4 DEF MarkStreaming, AfterDelta
  <2>5. ASSUME NEW here \in WriterPoints, NEW point \in WriterPoints,
               NEW next \in WriterPoints, Flush(r, here, point, next)
        PROVE  Ownership'
    BY <1>1, <2>5 DEF Flush
  <2>6. ASSUME NEW here \in WriterPoints, NEW next \in WriterPoints,
               FlushCheckpoint(r, here, next)
        PROVE  Ownership'
    BY <1>1, <2>6 DEF FlushCheckpoint, WriteCheckpoint
  <2> QED
    BY <1>0, <1>2, <2>1, <2>2, <2>3, <2>4, <2>5, <2>6 DEF StreamStep
<1>3. CASE EndStep(r)
  <2> USE DEF StreamPoints, CatchPoints, FinalPoints
  <2>0. ASSUME NEW p, p \notin ClaimedPoints \cup {"owned"},
               pc' = [pc EXCEPT ![r] = p],
               UNCHANGED <<writerToken, claimed, inTry>>
        PROVE  Ownership'
    BY <2>0, MoveOwned
  <2>1. ASSUME NEW here \in WriterPoints, NEW next \in WriterPoints,
               CheckCancel(r, here, next)
        PROVE  Ownership'
    BY <1>1, <2>1 DEF CheckCancel
  <2>2. CASE CancelAttempt(r)
    <3>1. "finalizeCancelled" \notin ClaimedPoints
      BY DEF ClaimedPoints, WriterPoints, SetupPoints
    <3> QED
      BY <2>0, <2>2, <3>1 DEF CancelAttempt, SetAttempt
  <2>3. CASE CompleteAttempt(r)
    BY <1>0, <1>1, <2>3 DEF CompleteAttempt, SetAttempt
  <2>4. CASE PublishUsage(r)
    BY <1>0, <1>1, <2>4 DEF PublishUsage
  <2>5. CASE FailAttempt(r)
    BY <1>0, <1>1, <2>5 DEF FailAttempt, SetAttempt
  <2>6. CASE FinalizeCompleted(r) \/ FinalizeFailed(r)
    <3>1. "postCheck" \notin ClaimedPoints
      BY DEF ClaimedPoints, WriterPoints, SetupPoints
    <3> QED
      BY <2>0, <2>6, <3>1 DEF FinalizeCompleted, FinalizeFailed, Finalize
  <2>7. CASE PostCheck(r) \/ FinalizeCancelled(r)
    <3>1. {"finalizeCancelled", "returned"} \cap ClaimedPoints = {}
      BY DEF ClaimedPoints, WriterPoints, SetupPoints
    <3> QED
      BY <2>0, <2>7, <3>1 DEF PostCheck, FinalizeCancelled
  <2> QED
    BY <1>0, <1>3, <2>1, <2>2, <2>3, <2>4, <2>5, <2>6, <2>7 DEF EndStep
<1> QED
  BY <1>2, <1>3

\* A monitor clears the token only together with the outcome FAILED.
LEMMA MonitorOwned ==
  ASSUME TypeOK, Ownership, StatusForward, NEW m \in Monitors, MonitorStep(m)
  PROVE  Ownership'
<1>1. UNCHANGED <<pc, claimed, inTry>>
  BY DEF MonitorStep, MonitorScan, MonitorProbe, MonitorSettle, flagVars
<1>2. CASE UNCHANGED writerToken
  BY <1>1, <1>2 DEF Ownership, StatusForward
<1>3. CASE writerToken' = NoRun /\ status' = "FAILED"
  BY <1>1, <1>3 DEF Ownership
<1> QED
  BY <1>2, <1>3
  DEF MonitorStep, MonitorScan, MonitorProbe, MonitorSettle, MonitorGuard,
      Settle, dbVars, rowVars

\* Every step keeps the ownership.
LEMMA OwnershipStep ==
  ASSUME TypeOK, OutcomesAgree, Ownership, [Next]_vars
  PROVE  Ownership'
<1>1. StatusForward
  BY StatusStep
<1>2. CASE UNCHANGED vars
  BY <1>2 DEF vars, dbVars, rowVars, flagVars, Ownership
<1>3. CASE Next
  BY <1>1, <1>3, OutsideOwned, ProcessOwned, StreamOwned, MonitorOwned
  DEF Next, RunStep
<1> QED
  BY <1>2, <1>3

\* The row has at most one owner among the runs, the one whose token it carries.
THEOREM OwnershipHolds == Spec => []Ownership
<1>1. Init => Ownership
  BY DEF Init, Ownership, ClaimedPoints, WriterPoints, SetupPoints,
         StreamPoints, CatchPoints
<1>2. TypeOK /\ OutcomesAgree /\ Ownership /\ [Next]_vars => Ownership'
  BY OwnershipStep
<1> QED
  BY <1>1, <1>2, TypeCorrect, OutcomesAlwaysAgree, PTL DEF Spec

\* However often the queue delivers the job again, at most one run streams,
\* and it holds the token.
THEOREM WriterIsSingle == Spec => []SingleWriter
<1>1. Ownership => SingleWriter
  BY DEF Ownership, SingleWriter, ClaimedPoints
<1> QED
  BY <1>1, OwnershipHolds, PTL

\* A completed message is the whole answer its writer received.
THEOREM CompletionIsWhole == Spec => CompletedIsWhole
<1> DEFINE Whole == status # "COMPLETED" /\ status' = "COMPLETED" =>
              \E r \in Runs : writerToken = r /\ messageContent' = content[r]
<1>1. ASSUME TypeOK, Ownership, [Next]_vars PROVE Whole
  <2> SUFFICES ASSUME status # "COMPLETED", status' = "COMPLETED"
               PROVE  \E r \in Runs :
                         writerToken = r /\ messageContent' = content[r]
    OBVIOUS
  <2>1. ~UNCHANGED outcomeVars /\ ~Cancel
    BY DEF outcomeVars, Cancel
  <2>2. ASSUME NEW r \in Runs
        PROVE  /\ ~Claim(r) /\ ~MarkTaskRunning(r) /\ ~MarkStreaming(r)
               /\ ~WriteCheckpoint(r)
    BY DEF Claim, TakeRow, MarkTaskRunning, MarkStreaming, WriteCheckpoint,
           rowVars
  <2>3. ASSUME NEW r \in Runs PROVE ~FinalizeFailed(r) /\ ~FinalizeCancelled(r)
    BY DEF FinalizeFailed, Finalize, FinalizeCancelled, Settle
  <2>4. ASSUME NEW m \in Monitors PROVE ~MonitorSettle(m)
    BY DEF MonitorSettle, Settle
  <2>5. PICK r \in Runs : FinalizeCompleted(r)
    BY <1>1, <2>1, <2>2, <2>3, <2>4, OutcomeFrame
  <2>6. status \in Running /\ messageContent' = content[r]
    BY <2>5 DEF FinalizeCompleted, Finalize, Settle
  <2>7. pc[r] \in ClaimedPoints
    BY <2>5 DEF FinalizeCompleted, Finalize, Go, ClaimedPoints, WriterPoints,
                StreamPoints
  <2>8. writerToken = r
    BY <1>1, <2>5, <2>6, <2>7 DEF Ownership
  <2> QED
    BY <2>5, <2>6, <2>8
<1>2. TypeOK /\ Ownership /\ [Next]_vars => [Whole]_vars
  BY <1>1
<1> QED
  BY <1>2, TypeCorrect, OwnershipHolds, PTL DEF Spec, CompletedIsWhole

----------------------------------------------------------------------------
(* Progress of the saved answer                                            *)

\* Every step moves message and row together.
LEMMA ShownStep ==
  ASSUME TypeOK, OutcomesAgree, Ownership, Shown, [Next]_vars
  PROVE  Shown'
<1> USE DEF Shown, messageVars, rowVars
<1>1. CASE UNCHANGED outcomeVars
  BY <1>1 DEF outcomeVars
<1>2. CASE Cancel
  BY <1>2 DEF Cancel
<1>3. ASSUME NEW r \in Runs, Claim(r) PROVE Shown'
  BY <1>3 DEF Claim, ClaimGuard, TakeRow
<1>4. ASSUME NEW r \in Runs, MarkTaskRunning(r) PROVE Shown'
  BY <1>4 DEF MarkTaskRunning
<1>5. ASSUME NEW r \in Runs, MarkStreaming(r) PROVE Shown'
  <2>1. pc[r] \in ClaimedPoints
    BY <1>5 DEF MarkStreaming, Go, ClaimedPoints, WriterPoints, StreamPoints
  <2>2. status # "QUEUED"
    BY <2>1 DEF Ownership
  <2> QED
    BY <1>5, <2>2 DEF MarkStreaming
<1>6. ASSUME NEW r \in Runs, WriteCheckpoint(r) PROVE Shown'
  BY <1>6 DEF WriteCheckpoint
<1>7. ASSUME NEW r \in Runs, FinalizeCompleted(r) \/ FinalizeFailed(r)
      PROVE  Shown'
  BY <1>7 DEF FinalizeCompleted, FinalizeFailed, Finalize, Settle
<1>8. ASSUME NEW r \in Runs, FinalizeCancelled(r) PROVE Shown'
  BY <1>8 DEF FinalizeCancelled, Settle
<1>9. ASSUME NEW m \in Monitors, MonitorSettle(m) PROVE Shown'
  BY <1>9 DEF MonitorSettle, Settle
<1> QED
  BY <1>1, <1>2, <1>3, <1>4, <1>5, <1>6, <1>7, <1>8, <1>9, OutcomeFrame

\* While the row can still be cancelled the saved answer never shrinks: only
\* a checkpoint of the one writer moves it.
LEMMA SavedGrows ==
  ASSUME TypeOK, Ownership, Held, [Next]_vars, status' \in Cancellable
  PROVE  messageContent' >= messageContent
<1>1. CASE messageContent' = messageContent
  BY <1>1 DEF TypeOK, DbTypeOK
<1>2. CASE messageContent' # messageContent
  <2>1. PICK r \in Runs : pc[r] \in SavePoints /\ WriteCheckpoint(r)
    BY <1>2, OutcomeFrame
    DEF outcomeVars, Cancel, Claim, MarkTaskRunning, MarkStreaming,
        FinalizeCompleted, FinalizeFailed, Finalize, Settle,
        FinalizeCancelled, MonitorSettle, messageVars
  <2>2. pc[r] \in HoldingPoints
    BY <2>1 DEF SavePoints, HoldingPoints, ClaimedPoints, WriterPoints,
                SetupPoints, StreamPoints, CatchPoints
  <2>3. messageContent' = content[r] /\ status \in Running
    BY <1>2, <2>1 DEF WriteCheckpoint, CheckpointGuard
  <2> QED
    BY <2>2, <2>3 DEF Held
<1> QED
  BY <1>1, <1>2

\* Every step keeps what a monitor has scanned within what was saved.
LEMMA ScannedStep ==
  ASSUME TypeOK, OutcomesAgree, Ownership, Held, Scanned, [Next]_vars
  PROVE  Scanned'
<1> SUFFICES ASSUME NEW m \in Monitors, status' \in Cancellable
             PROVE  seen'[m].content <= messageContent'
  BY DEF Scanned
<1>1. messageContent' >= messageContent /\ status \in Cancellable
  BY SavedGrows, StatusStep DEF StatusForward
<1>2. /\ messageContent \in Nat /\ messageContent' \in Nat
      /\ seen[m].content \in Nat /\ seen[m].content <= messageContent
  BY <1>1, TypeStep DEF TypeOK, DbTypeOK, Scan, Scanned
<1>3. \/ seen'[m] = seen[m]
      \/ seen'[m] = NothingSeen
      \/ seen'[m].content = messageContent
      \/ seen'[m].content = seen[m].content
  <2>1. CASE UNCHANGED seen
    BY <2>1
  <2>2. ASSUME NEW n \in Monitors, MonitorStep(n)
        PROVE  \/ seen'[m] = seen[m]
               \/ seen'[m] = NothingSeen
               \/ seen'[m].content = messageContent
               \/ seen'[m].content = seen[m].content
    <3> USE DEF TypeOK, Scan
    <3>1. CASE MonitorScan(n)
      BY <3>1 DEF MonitorScan
    <3>2. CASE MonitorProbe(n)
      BY <3>2 DEF MonitorProbe
    <3>3. CASE MonitorSettle(n)
      BY <3>3 DEF MonitorSettle
    <3> QED
      BY <2>2, <3>1, <3>2, <3>3 DEF MonitorStep
  <2>3. ASSUME NEW r \in Runs,
               JobStep(r) \/ Heartbeat(r) \/ ObserveCancel(r) \/ Throw(r)
                 \/ Crash(r)
        PROVE  UNCHANGED seen
    BY <2>3 DEF JobStep, Deliver, JobReturns, JobThrows, Heartbeat,
                ObserveCancel, Throw, Crash
  <2>4. ASSUME NEW r \in Runs, ProcessStep(r) PROVE UNCHANGED seen
    BY <2>4 DEF ProcessStep, ReadCandidate, Claim, MarkTaskRunning, ReadOwned,
                Prepare, LoopHead, CreateAttempt, PublishStarted,
                CheckpointStarted
  <2>5. ASSUME NEW r \in Runs, StreamStep(r) PROVE UNCHANGED seen
    BY <2>5 DEF StreamStep, ReceiveDelta, StreamEnds, StreamBreaks,
                MarkStreaming, Flush, FlushCheckpoint
  <2>6. ASSUME NEW r \in Runs, EndStep(r) PROVE UNCHANGED seen
    BY <2>6 DEF EndStep, CheckCancel, CancelAttempt, CompleteAttempt,
                PublishUsage, FailAttempt, SetAttempt, FinalizeCompleted,
                FinalizeFailed, Finalize, PostCheck, FinalizeCancelled
  <2>7. CASE Cancel \/ Enqueue \/ Stall \/ HeartbeatExpires
    BY <2>7 DEF Cancel, Enqueue, Stall, HeartbeatExpires
  <2>8. CASE UNCHANGED vars
    BY <2>8 DEF vars
  <2> QED
    BY <2>1, <2>2, <2>3, <2>4, <2>5, <2>6, <2>7, <2>8 DEF Next, RunStep
<1> QED
  BY <1>1, <1>2, <1>3 DEF NothingSeen

\* A run that only moves keeps InsideTry and Held.
LEMMA MoveHeld ==
  ASSUME TypeOK, StatusForward, InsideTry, Held,
         status' \in Running => status \in Running,
         NEW r \in Runs, NEW p, pc' = [pc EXCEPT ![r] = p],
         UNCHANGED <<content, messageContent>>,
         UNCHANGED inTry \/ inTry' = [inTry EXCEPT ![r] = FALSE],
         p \in HoldingPoints => pc[r] \in HoldingPoints \/ inTry[r],
         p \in TryPoints \/ ~inTry'[r]
  PROVE  InsideTry' /\ Held'
<1> USE DEF TypeOK, RunTypeOK
<1>1. \A s \in Runs : pc'[s] = IF s = r THEN p ELSE pc[s]
  OBVIOUS
<1>2. \A s \in Runs : inTry'[s] => inTry[s]
  OBVIOUS
<1>3. InsideTry'
  BY <1>1, <1>2 DEF InsideTry
<1>4. Held'
  BY <1>1, <1>2 DEF Held
<1> QED
  BY <1>3, <1>4

\* A run that ends holds nothing any more.
LEMMA EndHeld ==
  ASSUME TypeOK, InsideTry, Held, NEW r \in Runs, Jump(r, "done"), Forget(r),
         UNCHANGED <<messageContent, status>>
  PROVE  InsideTry' /\ Held'
<1> USE DEF TypeOK, RunTypeOK, Jump, Forget
<1>1. "done" \notin HoldingPoints
  BY DEF HoldingPoints, ClaimedPoints, WriterPoints, SetupPoints,
         StreamPoints, CatchPoints
<1>2. ~inTry'[r] /\ pc'[r] = "done"
  OBVIOUS
<1>3. \A s \in Runs : s # r =>
         pc'[s] = pc[s] /\ inTry'[s] = inTry[s] /\ content'[s] = content[s]
  OBVIOUS
<1>4. InsideTry'
  BY <1>2, <1>3 DEF InsideTry
<1>5. Held'
  BY <1>1, <1>2, <1>3 DEF Held
<1> QED
  BY <1>4, <1>5

\* Users, queue, timers, failures and crashes take nothing from a writer.
LEMMA OutsideHeld ==
  ASSUME TypeOK, StatusForward, Ownership, InsideTry, Held,
         \/ Cancel \/ Enqueue \/ Stall \/ HeartbeatExpires
         \/ \E r \in Runs : \/ JobStep(r) \/ Heartbeat(r) \/ ObserveCancel(r)
                            \/ Throw(r) \/ Crash(r)
  PROVE  InsideTry' /\ Held'
<1> USE DEF dbVars, rowVars, messageVars, flagVars, progressVars
<1>0. /\ \A p \in {"candidate", "threw"} : p \notin HoldingPoints
      /\ "idle" \notin TryPoints
  BY DEF HoldingPoints, ClaimedPoints, WriterPoints, SetupPoints,
         StreamPoints, CatchPoints, TryPoints
<1>1. ASSUME UNCHANGED <<pc, inTry, content, messageContent>>,
             status' \in Running => status \in Running
      PROVE  InsideTry' /\ Held'
  BY <1>1 DEF InsideTry, Held
<1>2. CASE Cancel \/ Enqueue \/ Stall \/ HeartbeatExpires
  BY <1>1, <1>2 DEF Cancel, Enqueue, Stall, HeartbeatExpires
<1>3. ASSUME NEW r \in Runs, Deliver(r) PROVE InsideTry' /\ Held'
  <2>1. ~inTry[r] /\ UNCHANGED <<inTry, content, messageContent, status>>
    BY <1>0, <1>3 DEF Deliver, Go, InsideTry
  <2> QED
    BY <1>0, <1>3, <2>1, MoveHeld DEF Deliver, Go, Jump
<1>4. ASSUME NEW r \in Runs, JobReturns(r) \/ JobThrows(r)
      PROVE  InsideTry' /\ Held'
  BY <1>4, EndHeld DEF JobReturns, JobThrows, Go
<1>5. ASSUME NEW r \in Runs, Heartbeat(r) \/ ObserveCancel(r)
      PROVE  InsideTry' /\ Held'
  <2>1. UNCHANGED <<pc, inTry, content, messageContent, status>>
    BY <1>5 DEF Heartbeat, ObserveCancel
  <2> QED
    BY <1>1, <2>1
<1>6. ASSUME NEW r \in Runs, Throw(r) PROVE InsideTry' /\ Held'
  <2>1. UNCHANGED <<content, messageContent, status>>
    BY <1>6 DEF Throw
  <2>2. CASE pc' = [pc EXCEPT ![r] = "threw"] /\ ~inTry[r] /\ UNCHANGED inTry
    BY <1>0, <2>1, <2>2, MoveHeld
  <2>3. CASE inTry[r] /\ EnterCatch(r, FALSE)
    <3>1. /\ pc' = [pc EXCEPT ![r] = "flushCatch"]
          /\ inTry' = [inTry EXCEPT ![r] = FALSE]
      BY <2>3 DEF EnterCatch
    <3>2. ~inTry'[r]
      BY <3>1 DEF TypeOK, RunTypeOK
    <3> QED
      BY <2>1, <2>3, <3>1, <3>2, MoveHeld
  <2> QED
    BY <1>6, <2>2, <2>3 DEF Throw, Jump
<1>7. ASSUME NEW r \in Runs, Crash(r) PROVE InsideTry' /\ Held'
  BY <1>7, EndHeld DEF Crash
<1> QED
  BY <1>2, <1>3, <1>4, <1>5, <1>6, <1>7 DEF JobStep

\* The owner of the row is alone, so what it saves cannot pass another holder.
LEMMA SaveHeld ==
  ASSUME TypeOK, Ownership, Held, NEW r \in Runs, pc[r] \in HoldingPoints,
         WriteCheckpoint(r), UNCHANGED content,
         NEW p, pc' = [pc EXCEPT ![r] = p],
         \A s \in Runs : inTry'[s] => inTry[s] \/ s = r
  PROVE  Held'
<1> USE DEF TypeOK, DbTypeOK, RunTypeOK
<1>1. claimed[r] /\ HoldingPoints \subseteq ClaimedPoints
  BY DEF Ownership, HoldingPoints
<1>2. \A s \in Runs : pc'[s] \in HoldingPoints \/ inTry'[s] =>
                         s = r \/ claimed[s]
  BY <1>1 DEF Ownership
<1>3. \A s \in Runs : pc'[s] \in HoldingPoints \/ inTry'[s] => s = r
  BY <1>1, <1>2 DEF Ownership
<1>4. status' \in Running => content'[r] >= messageContent'
  <2>1. UNCHANGED status
    BY DEF WriteCheckpoint
  <2>2. messageContent' \in {content[r], messageContent}
    BY DEF WriteCheckpoint
  <2>3. content[r] \in Nat
    OBVIOUS
  <2> QED
    BY <2>1, <2>2, <2>3 DEF Held
<1> QED
  BY <1>3, <1>4 DEF Held

\* A run up to its attempt loop loads what was saved.
LEMMA ProcessHeld ==
  ASSUME TypeOK, StatusForward, Ownership, InsideTry, Held,
         NEW r \in Runs, ProcessStep(r)
  PROVE  InsideTry' /\ Held'
<1> USE DEF dbVars, rowVars, messageVars, flagVars, progressVars, Go, Jump
<1>0. /\ {"candidate", "claim", "taskRun", "owned", "prepare", "loop",
          "create", "publishStarted", "checkpointStarted"}
            \cap TryPoints = {}
      /\ \A p \in {"returned", "claim", "finalizeCancelled", "owned",
                   "taskRun", "prepare"} : p \notin HoldingPoints
      /\ \A p \in {"loop", "create", "publishStarted", "checkpointStarted",
                   "finalizeFailed", "stream"} : p \in HoldingPoints
      /\ "stream" \in TryPoints
  BY DEF HoldingPoints, ClaimedPoints, WriterPoints, SetupPoints,
         StreamPoints, CatchPoints, TryPoints
\* Every one of these points lies outside the try block.
<1>1. /\ ~inTry[r]
      /\ pc[r] \in {"candidate", "claim", "taskRun", "owned", "prepare",
                    "loop", "create", "publishStarted", "checkpointStarted"}
  <2>1. pc[r] \in {"candidate", "claim", "taskRun", "owned", "prepare",
                   "loop", "create", "publishStarted", "checkpointStarted"}
    BY DEF ProcessStep, ReadCandidate, Claim, MarkTaskRunning, ReadOwned,
           Prepare, LoopHead, CreateAttempt, PublishStarted,
           CheckpointStarted
  <2> QED
    BY <1>0, <2>1 DEF InsideTry
<1>2. ASSUME NEW p, pc' = [pc EXCEPT ![r] = p],
             p \in HoldingPoints => pc[r] \in HoldingPoints,
             UNCHANGED <<content, messageContent, inTry>>,
             UNCHANGED status
      PROVE  InsideTry' /\ Held'
  BY <1>1, <1>2, MoveHeld
<1>3. ASSUME NEW p, pc' = [pc EXCEPT ![r] = p],
             NEW c \in Nat, content' = [content EXCEPT ![r] = c],
             p \in HoldingPoints => c = messageContent,
             UNCHANGED <<messageContent, inTry, status>>
      PROVE  InsideTry' /\ Held'
  <2> USE DEF TypeOK, RunTypeOK, DbTypeOK
  <2>1. \A s \in Runs : /\ pc'[s] = IF s = r THEN p ELSE pc[s]
                        /\ content'[s] = IF s = r THEN c ELSE content[s]
    BY <1>3
  <2>2. InsideTry'
    BY <1>1, <1>3, <2>1 DEF InsideTry
  <2>3. Held'
    BY <1>1, <1>3, <2>1 DEF Held
  <2> QED
    BY <2>2, <2>3
<1>4. CASE ReadCandidate(r)
  <2>1. CandidateRoute \notin HoldingPoints
    BY <1>0 DEF CandidateRoute
  <2> QED
    BY <1>2, <1>4, <2>1 DEF ReadCandidate
<1>5. CASE Claim(r)
  <2>1. PICK p \in {"taskRun", "returned"} : pc' = [pc EXCEPT ![r] = p]
    BY <1>5 DEF Claim
  <2>2. UNCHANGED <<content, messageContent, inTry>>
    BY <1>5 DEF Claim
  <2>3. CASE UNCHANGED status
    BY <1>0, <1>2, <2>1, <2>2, <2>3
  <2>4. CASE ClaimGuard
    <3>1. \A s \in Runs : pc[s] \notin HoldingPoints /\ ~inTry[s]
      BY <2>4 DEF ClaimGuard, Ownership, HoldingPoints
    <3>2. \A s \in Runs : pc'[s] \notin HoldingPoints /\ ~inTry'[s]
      BY <1>0, <2>1, <2>2, <3>1 DEF TypeOK, RunTypeOK
    <3> QED
      BY <3>2 DEF InsideTry, Held
  <2> QED
    BY <1>5, <2>3, <2>4 DEF Claim
<1>6. CASE MarkTaskRunning(r)
  BY <1>0, <1>2, <1>6 DEF MarkTaskRunning
<1>7. CASE ReadOwned(r)
  <2>1. PICK p \in OwnedRoutes(r) :
           /\ pc' = [pc EXCEPT ![r] = p]
           /\ content' = [content EXCEPT ![r] =
                            IF p = "finalizeFailed" THEN messageContent ELSE 0]
    BY <1>7 DEF ReadOwned
  <2>2. p \in {"finalizeCancelled", "prepare", "finalizeFailed", "returned"}
    BY <2>1 DEF OwnedRoutes
  <2>3. p \in HoldingPoints => p = "finalizeFailed"
    BY <1>0, <2>2
  <2>4. messageContent \in Nat
    BY DEF TypeOK, DbTypeOK
  <2>5. UNCHANGED <<messageContent, inTry, status>>
    BY <1>7 DEF ReadOwned
  <2>6. CASE p = "finalizeFailed"
    BY <1>3, <2>1, <2>4, <2>5, <2>6
  <2>7. CASE p # "finalizeFailed"
    BY <1>3, <2>1, <2>3, <2>5, <2>7
  <2> QED
    BY <2>6, <2>7
<1>8. CASE Prepare(r)
  <2>1. messageContent \in Nat
    BY DEF TypeOK, DbTypeOK
  <2> QED
    BY <1>3, <1>8, <2>1 DEF Prepare
<1>9. CASE LoopHead(r)
  BY <1>0, <1>2, <1>9 DEF LoopHead
<1>10. CASE CreateAttempt(r)
  BY <1>0, <1>2, <1>10 DEF CreateAttempt
<1>11. CASE PublishStarted(r)
  BY <1>0, <1>2, <1>11 DEF PublishStarted
<1>12. CASE CheckpointStarted(r)
  <2> USE DEF TypeOK, RunTypeOK
  <2>1. /\ WriteCheckpoint(r) /\ UNCHANGED content
        /\ pc[r] = "checkpointStarted"
        /\ pc' = [pc EXCEPT ![r] = "stream"]
        /\ inTry' = [inTry EXCEPT ![r] = TRUE]
    BY <1>12 DEF CheckpointStarted
  <2>2. \A s \in Runs : inTry'[s] => inTry[s] \/ s = r
    BY <2>1
  <2>3. Held'
    BY <1>0, <2>1, <2>2, SaveHeld
  <2>4. InsideTry'
    BY <1>0, <2>1, <2>2 DEF InsideTry
  <2> QED
    BY <2>3, <2>4
<1> QED
  BY <1>4, <1>5, <1>6, <1>7, <1>8, <1>9, <1>10, <1>11, <1>12 DEF ProcessStep

\* A run that streams only appends and saves what it holds.
LEMMA StreamHeld ==
  ASSUME TypeOK, StatusForward, Ownership, InsideTry, Held,
         NEW r \in Runs, StreamStep(r)
  PROVE  InsideTry' /\ Held'
<1> USE DEF dbVars, rowVars, messageVars, flagVars, progressVars, Go, Jump
<1> DEFINE Inside == {"stream", "mark", "flush", "checkpoint", "flushEnd",
                      "checkpointEnd", "endCheck"}
           Catching == {"flushCatch", "checkpointCatch", "catchCheck"}
<1>0. /\ Inside \cup Catching \subseteq HoldingPoints
      /\ Inside \subseteq TryPoints
      /\ Catching \cap TryPoints = {}
      /\ SavePoints \subseteq HoldingPoints
  BY DEF HoldingPoints, ClaimedPoints, WriterPoints, SetupPoints,
         StreamPoints, CatchPoints, TryPoints, SavePoints
\* The catch block is entered with inTry cleared and stays outside.
<1>1. ASSUME NEW p, pc' = [pc EXCEPT ![r] = p],
             \/ pc[r] \in Inside /\ p \in Inside
             \/ pc[r] \in Catching /\ p \in Catching,
             UNCHANGED <<content, messageContent, inTry>>,
             status' \in Running => status \in Running
      PROVE  InsideTry' /\ Held'
  <2>1. p \in TryPoints \/ ~inTry'[r]
    BY <1>0, <1>1 DEF InsideTry
  <2> HIDE DEF Inside, Catching
  <2> QED
    BY <1>0, <1>1, <2>1, MoveHeld
<1>2. CASE ReceiveDelta(r)
  <2> USE DEF TypeOK, RunTypeOK, DbTypeOK
  <2>1. PICK p \in Inside : pc[r] = "stream" /\ pc' = [pc EXCEPT ![r] = p]
    BY <1>2 DEF ReceiveDelta, AfterDelta
  <2>2. UNCHANGED <<messageContent, inTry, status>>
    BY <1>2 DEF ReceiveDelta
  <2>3. \A s \in Runs : pc'[s] = IF s = r THEN p ELSE pc[s]
    BY <2>1
  <2>4. \A s \in Runs : content'[s] = IF s = r THEN content[s] + 1
                                      ELSE content[s]
    BY <1>2 DEF ReceiveDelta
  <2>5. InsideTry'
    BY <1>0, <2>1, <2>2, <2>3 DEF InsideTry
  <2>6. content[r] \in Nat /\ pc[r] \in HoldingPoints
    BY <1>0, <2>1
  <2>7. Held'
    BY <2>2, <2>3, <2>4, <2>6 DEF Held
  <2> QED
    BY <2>5, <2>7
<1>3. CASE StreamEnds(r)
  BY <1>1, <1>3 DEF StreamEnds
<1>4. CASE StreamBreaks(r)
  <2>1. /\ pc' = [pc EXCEPT ![r] = "flushCatch"]
        /\ inTry' = [inTry EXCEPT ![r] = FALSE]
        /\ pc[r] = "stream"
        /\ UNCHANGED <<content, messageContent, status>>
    BY <1>4 DEF StreamBreaks, EnterCatch
  <2>2. ~inTry'[r]
    BY <2>1 DEF TypeOK, RunTypeOK
  <2> QED
    BY <1>0, <2>1, <2>2, MoveHeld
<1>5. CASE MarkStreaming(r)
  <2>1. PICK p \in {"stream", "flush"} :
           pc[r] = "mark" /\ pc' = [pc EXCEPT ![r] = p]
    BY <1>5 DEF MarkStreaming, AfterDelta
  <2>2. /\ UNCHANGED <<content, messageContent, inTry>>
        /\ status' \in Running => status \in Running
    BY <1>5 DEF MarkStreaming
  <2> QED
    BY <1>1, <2>1, <2>2
<1>6. ASSUME NEW here, NEW point, NEW next, Flush(r, here, point, next),
             \/ {here, point, next} \subseteq Inside
             \/ {here, point, next} \subseteq Catching
      PROVE  InsideTry' /\ Held'
  <2>1. PICK p \in {point, next} : pc[r] = here /\ pc' = [pc EXCEPT ![r] = p]
    BY <1>6 DEF Flush
  <2>2. UNCHANGED <<content, messageContent, inTry, status>>
    BY <1>6 DEF Flush
  <2>3. \/ pc[r] \in Inside /\ p \in Inside
        \/ pc[r] \in Catching /\ p \in Catching
    <3> HIDE DEF Inside, Catching
    <3> QED
      BY <1>6, <2>1
  <2> HIDE DEF Inside, Catching
  <2> QED
    BY <1>1, <2>1, <2>2, <2>3
<1>7. ASSUME NEW here \in SavePoints, NEW next, FlushCheckpoint(r, here, next),
             {here, next} \subseteq Inside \/ {here, next} \subseteq Catching
      PROVE  InsideTry' /\ Held'
  <2>1. /\ pc[r] = here /\ pc' = [pc EXCEPT ![r] = next]
        /\ WriteCheckpoint(r)
        /\ UNCHANGED <<content, inTry>>
    BY <1>7 DEF FlushCheckpoint
  <2>2. Held'
    BY <1>0, <1>7, <2>1, SaveHeld
  <2>3. \A s \in Runs : pc'[s] = IF s = r THEN next ELSE pc[s]
    BY <2>1 DEF TypeOK, RunTypeOK
  <2>4. next \in TryPoints \/ ~inTry[r]
    BY <1>0, <1>7, <2>1 DEF InsideTry
  <2>5. InsideTry'
    BY <2>1, <2>3, <2>4 DEF InsideTry
  <2> QED
    BY <2>2, <2>5
<1>8. {"checkpoint", "checkpointEnd", "checkpointCatch"} \subseteq SavePoints
  BY DEF SavePoints
<1> QED
  BY <1>2, <1>3, <1>4, <1>5, <1>6, <1>7, <1>8 DEF StreamStep

\* A run that finalizes leaves the running states.
LEMMA EndStepHeld ==
  ASSUME TypeOK, StatusForward, Ownership, InsideTry, Held,
         NEW r \in Runs, EndStep(r)
  PROVE  InsideTry' /\ Held'
<1> USE DEF dbVars, rowVars, messageVars, flagVars, progressVars, Go, Jump
<1> DEFINE Inside == {"endCheck", "completeAttempt", "usage",
                      "finalizeCompleted"}
           Catching == {"catchCheck", "failAttempt", "finalizeFailed"}
           Ending == {"cancelAttempt", "finalizeCancelled", "postCheck",
                      "returned"}
<1>0. /\ Inside \cup Catching \cup {"loop"} \subseteq HoldingPoints
      /\ Inside \cup Ending \subseteq TryPoints
      /\ Ending \cap HoldingPoints = {}
      /\ Catching \cap TryPoints = {}
  BY DEF HoldingPoints, ClaimedPoints, WriterPoints, SetupPoints,
         StreamPoints, CatchPoints, TryPoints
<1>1. ASSUME NEW p, pc' = [pc EXCEPT ![r] = p],
             \/ pc[r] \in Inside /\ p \in Inside
             \/ pc[r] \in Catching /\ p \in Catching \cup {"loop"}
             \/ p \in Ending,
             UNCHANGED <<content, messageContent, inTry>>,
             status' \in Running => status \in Running
      PROVE  InsideTry' /\ Held'
  <2> HIDE DEF Inside, Catching, Ending
  <2>1. p \in TryPoints \/ ~inTry'[r]
    BY <1>0, <1>1 DEF InsideTry
  <2>2. p \in HoldingPoints => pc[r] \in HoldingPoints
    BY <1>0, <1>1
  <2> QED
    BY <1>1, <2>1, <2>2, MoveHeld
<1>2. ASSUME NEW p \in Ending, pc' = [pc EXCEPT ![r] = p],
             NEW outcome \in Terminal, NEW from, NEW answer, NEW seq, NEW told,
             Settle(outcome, from, answer, seq, told), Running \subseteq from,
             UNCHANGED <<content, inTry>>
      PROVE  InsideTry' /\ Held'
  <2>1. status' \notin Running
    BY <1>2 DEF Settle
  <2>2. Held'
    BY <2>1 DEF Held
  <2>3. \A s \in Runs : pc'[s] = IF s = r THEN p ELSE pc[s]
    BY <1>2 DEF TypeOK, RunTypeOK
  <2>4. InsideTry'
    BY <1>0, <1>2, <2>3 DEF InsideTry
  <2> QED
    BY <2>2, <2>4
<1>3. ASSUME NEW here, NEW next, CheckCancel(r, here, next),
             {here, next} \subseteq Inside \/ {here, next} \subseteq Catching
      PROVE  InsideTry' /\ Held'
  <2>1. PICK p \in {next, "cancelAttempt"} :
           pc[r] = here /\ pc' = [pc EXCEPT ![r] = p]
    BY <1>3 DEF CheckCancel
  <2>2. UNCHANGED <<content, messageContent, inTry, status>>
    BY <1>3 DEF CheckCancel
  <2> QED
    BY <1>1, <1>3, <2>1, <2>2
<1>4. CASE CancelAttempt(r)
  BY <1>1, <1>4 DEF CancelAttempt, SetAttempt
<1>5. CASE CompleteAttempt(r)
  BY <1>1, <1>5 DEF CompleteAttempt, SetAttempt
<1>6. CASE PublishUsage(r)
  BY <1>1, <1>6 DEF PublishUsage
<1>7. CASE FailAttempt(r)
  BY <1>1, <1>7 DEF FailAttempt, SetAttempt
<1>8. CASE FinalizeCompleted(r) \/ FinalizeFailed(r)
  BY <1>2, <1>8 DEF FinalizeCompleted, FinalizeFailed, Finalize
<1>9. CASE PostCheck(r)
  BY <1>1, <1>9 DEF PostCheck
<1>10. CASE FinalizeCancelled(r)
  BY <1>2, <1>10 DEF FinalizeCancelled
<1> QED
  BY <1>3, <1>4, <1>5, <1>6, <1>7, <1>8, <1>9, <1>10 DEF EndStep

\* A monitor that settles the row leaves the running states.
LEMMA MonitorHeld ==
  ASSUME TypeOK, InsideTry, Held, NEW m \in Monitors, MonitorStep(m)
  PROVE  InsideTry' /\ Held'
<1>1. UNCHANGED <<pc, inTry, content>>
  BY DEF MonitorStep, MonitorScan, MonitorProbe, MonitorSettle, flagVars,
         progressVars
<1>2. \/ UNCHANGED <<messageContent, status>>
      \/ status' = "FAILED"
  BY DEF MonitorStep, MonitorScan, MonitorProbe, MonitorSettle, MonitorGuard,
         Settle, dbVars, rowVars, messageVars
<1> QED
  BY <1>1, <1>2 DEF InsideTry, Held

\* Every step leaves a writer with at least what was saved.
LEMMA HeldStep ==
  ASSUME TypeOK, OutcomesAgree, Ownership, InsideTry, Held, [Next]_vars
  PROVE  InsideTry' /\ Held'
<1>1. StatusForward
  BY StatusStep
<1>2. CASE UNCHANGED vars
  BY <1>2 DEF vars, dbVars, rowVars, messageVars, flagVars, progressVars,
              InsideTry, Held
<1>3. CASE Next
  BY <1>1, <1>3, OutsideHeld, ProcessHeld, StreamHeld, EndStepHeld,
     MonitorHeld
  DEF Next, RunStep
<1> QED
  BY <1>2, <1>3

\* The inductive invariant holds.
THEOREM InvHolds == Spec => []Inv
<1>1. Init => Inv
  <2>1. Init => Shown /\ InsideTry /\ Held /\ Scanned
    BY DEF Init, Shown, InsideTry, Held, Scanned, NothingSeen
  <2>2. Init => TypeOK /\ OutcomesAgree /\ Ownership
    BY InitTyped DEF Init, OutcomesAgree, Ownership, ClaimedPoints,
       WriterPoints, SetupPoints, StreamPoints, CatchPoints
  <2> QED
    BY <2>1, <2>2 DEF Inv
<1>2. Inv /\ [Next]_vars => Inv'
  BY TypeStep, OutcomesStep, OwnershipStep, ShownStep, HeldStep, ScannedStep
  DEF Inv
<1> QED
  BY <1>1, <1>2, PTL DEF Spec

----------------------------------------------------------------------------
(* Retries                                                                 *)

FreshPoints == {"idle", "candidate", "claim"}
EarlyPoints == {"taskRun", "owned", "prepare"}
BetweenPoints == {"loop", "create"}
OpeningPoints == {"publishStarted", "checkpointStarted"}
AttemptPoints == OpeningPoints \cup StreamPoints \cup CatchPoints

\* Nothing was tried and nothing saved.
Bare == Len(attempts) = 0 /\ messageContent = 0
\* Nothing was received and nothing saved.
Blank(r) == messageContent = 0 /\ content[r] = 0

\* What a run leaves behind on its way through its attempts: until the first it
\* has recorded none, between two of them all have failed and nothing was
\* received, and during one it is the last that was recorded.
Tried(r) ==
    /\ pc[r] \in FreshPoints => ~claimed[r]
    /\ ~claimed[r] => content[r] = 0
    /\ pc[r] = "cancelAttempt" => claimed[r]
    /\ claimed[r] /\ pc[r] \in EarlyPoints => Bare
    /\ pc[r] \in BetweenPoints =>
          /\ Blank(r) /\ Len(attempts) < MaxAttempts
          /\ \A i \in DOMAIN attempts : attempts[i].status = "FAILED"
    /\ pc[r] \in AttemptPoints \/ inTry[r] =>
          /\ attemptNo[r] = Len(attempts) /\ attemptNo[r] # 0
          /\ \A i \in DOMAIN attempts \ {attemptNo[r]} : attempts[i].status = "FAILED"
          /\ pc[r] \in OpeningPoints \/ ~receivedFirstDelta[r] => Blank(r)

Tries == (status = "QUEUED" => Bare) /\ \A r \in Runs : Tried(r)

\* A step that leaves the variables of a run alone.
Same(r) ==
    /\ pc'[r] = pc[r] /\ claimed'[r] = claimed[r] /\ inTry'[r] = inTry[r]
    /\ content'[r] = content[r] /\ attemptNo'[r] = attemptNo[r]
    /\ receivedFirstDelta'[r] = receivedFirstDelta[r]

\* A step that at most closes attempts and resets what was saved.
Calm ==
    /\ Len(attempts') = Len(attempts) /\ DOMAIN attempts' = DOMAIN attempts
    /\ \A i \in DOMAIN attempts :
          attempts[i].status = "FAILED" => attempts'[i].status = "FAILED"
    /\ messageContent' \in {messageContent, 0}

LEMMA PointsApart ==
  /\ BetweenPoints \cup AttemptPoints \subseteq ClaimedPoints
  /\ TryPoints \cap (FreshPoints \cup EarlyPoints \cup BetweenPoints \cup OpeningPoints) = {}
  /\ AttemptPoints \cap (FreshPoints \cup EarlyPoints \cup BetweenPoints) = {}
  /\ OpeningPoints \cap (StreamPoints \cup CatchPoints) = {}
  /\ "cancelAttempt" \notin AttemptPoints \cup FreshPoints \cup EarlyPoints \cup BetweenPoints
  /\ FreshPoints \cap (EarlyPoints \cup BetweenPoints) = {}
  /\ EarlyPoints \cap BetweenPoints = {}
BY DEF FreshPoints, EarlyPoints, BetweenPoints, OpeningPoints, AttemptPoints, ClaimedPoints,
       WriterPoints, SetupPoints, StreamPoints, CatchPoints, TryPoints

LEMMA TriedKept ==
  ASSUME Ownership, NEW r \in Runs, Tried(r), Same(r), claimed[r] => Calm
  PROVE  Tried(r)'
<1>1. pc[r] \in BetweenPoints \cup AttemptPoints \/ inTry[r] => claimed[r]
  BY PointsApart DEF Ownership
<1> QED
  BY <1>1 DEF Tried, Same, Calm, Bare, Blank

\* A run that goes on to p, with nothing recorded and nothing saved meanwhile.
LEMMA TriedMoved ==
  ASSUME RunTypeOK, NEW r \in Runs, Tried(r), NEW p,
         pc' = [pc EXCEPT ![r] = p],
         UNCHANGED <<claimed, content, attemptNo, receivedFirstDelta,
                     attempts, messageContent>>,
         inTry'[r] => inTry[r],
         p \in FreshPoints => pc[r] \in FreshPoints,
         p = "cancelAttempt" => claimed[r],
         p \in EarlyPoints /\ claimed[r] => pc[r] \in EarlyPoints,
         p \in BetweenPoints => pc[r] \in BetweenPoints,
         p \in AttemptPoints => pc[r] \in AttemptPoints \/ inTry[r],
         p \in OpeningPoints => pc[r] \in OpeningPoints
  PROVE  Tried(r)'
<1>1. pc'[r] = p
  BY DEF RunTypeOK
<1>2. /\ pc'[r] \in FreshPoints => ~claimed'[r]
      /\ ~claimed'[r] => content'[r] = 0
      /\ pc'[r] = "cancelAttempt" => claimed'[r]
      /\ claimed'[r] /\ pc'[r] \in EarlyPoints => Bare'
  BY <1>1 DEF Tried, Bare
<1>3. pc'[r] \in BetweenPoints =>
          /\ Blank(r)' /\ Len(attempts') < MaxAttempts
          /\ \A i \in DOMAIN attempts' : attempts'[i].status = "FAILED"
  BY <1>1 DEF Tried, Blank
<1>4. pc'[r] \in AttemptPoints \/ inTry'[r] =>
          /\ attemptNo'[r] = Len(attempts') /\ attemptNo'[r] # 0
          /\ \A i \in DOMAIN attempts' \ {attemptNo'[r]} : attempts'[i].status = "FAILED"
          /\ pc'[r] \in OpeningPoints \/ ~receivedFirstDelta'[r] => Blank(r)'
  BY <1>1 DEF Tried, Blank
<1> QED
  BY <1>2, <1>3, <1>4 DEF Tried

LEMMA SameLength ==
  ASSUME TypeOK, TypeOK', DOMAIN attempts' = DOMAIN attempts
  PROVE  Len(attempts') = Len(attempts)
BY DEF TypeOK, DbTypeOK

\* Attempts that are closed stay closed, and none is added.
LEMMA ClosedCalm ==
  ASSUME TypeOK, TypeOK', DOMAIN attempts' = DOMAIN attempts,
         \A i \in DOMAIN attempts :
            \/ attempts'[i] = attempts[i]
            \/ attempts'[i] = [attempts[i] EXCEPT !.status = "FAILED"]
  PROVE  /\ Len(attempts') = Len(attempts)
         /\ \A i \in DOMAIN attempts :
               attempts[i].status = "FAILED" => attempts'[i].status = "FAILED"
<1>1. \A i \in DOMAIN attempts : attempts[i] \in Attempt
  BY DEF TypeOK, DbTypeOK
<1> QED
  BY <1>1, SameLength DEF Attempt

\* What users, the queue, the timers and the monitors do is calm.
LEMMA OutsideCalm ==
  ASSUME TypeOK, TypeOK',
         \/ Cancel \/ Enqueue \/ Stall \/ HeartbeatExpires
         \/ \E m \in Monitors : MonitorStep(m)
  PROVE  Calm /\ \A r \in Runs : Same(r)
<1> USE DEF dbVars, rowVars, messageVars, flagVars, progressVars
<1>1. CASE Cancel \/ Enqueue \/ Stall \/ HeartbeatExpires
  BY <1>1 DEF Cancel, Enqueue, Stall, HeartbeatExpires, Calm, Same
<1>2. ASSUME NEW m \in Monitors, MonitorScan(m) \/ MonitorProbe(m)
      PROVE  Calm /\ \A r \in Runs : Same(r)
  BY <1>2 DEF MonitorScan, MonitorProbe, Calm, Same
<1>3. ASSUME NEW m \in Monitors, MonitorSettle(m)
      PROVE  Calm /\ \A r \in Runs : Same(r)
  <2>1. messageContent' = messageContent /\ \A r \in Runs : Same(r)
    BY <1>3 DEF MonitorSettle, Settle, Same
  <2>2. /\ DOMAIN attempts' = DOMAIN attempts
        /\ \A i \in DOMAIN attempts :
              \/ attempts'[i] = attempts[i]
              \/ attempts'[i] = [attempts[i] EXCEPT !.status = "FAILED"]
    BY <1>3 DEF MonitorSettle
  <2> QED
    BY <2>1, <2>2, ClosedCalm DEF Calm
<1> QED
  BY <1>1, <1>2, <1>3 DEF MonitorStep

\* A step of one run leaves the variables of the others alone.
LEMMA OthersSame ==
  ASSUME TypeOK, NEW s \in Runs, NEW r \in Runs, r # s,
         \/ JobStep(s) \/ RunStep(s)
         \/ Heartbeat(s) \/ ObserveCancel(s) \/ Throw(s) \/ Crash(s)
  PROVE  Same(r)
<1> USE DEF TypeOK, RunTypeOK, flagVars, progressVars, Go, Jump, Same
<1>1. CASE JobStep(s) \/ Crash(s)
  BY <1>1 DEF JobStep, Deliver, JobReturns, JobThrows, Crash, Forget
<1>2. CASE Heartbeat(s) \/ ObserveCancel(s) \/ Throw(s)
  BY <1>2 DEF Heartbeat, ObserveCancel, Throw, EnterCatch
<1>3. CASE ProcessStep(s)
  <2>1. CASE ReadCandidate(s) \/ Claim(s) \/ MarkTaskRunning(s)
    BY <2>1 DEF ReadCandidate, Claim, MarkTaskRunning
  <2>2. CASE ReadOwned(s)
    BY <2>2 DEF ReadOwned
  <2>3. CASE Prepare(s) \/ LoopHead(s) \/ CreateAttempt(s)
    BY <2>3 DEF Prepare, LoopHead, CreateAttempt
  <2>4. CASE PublishStarted(s) \/ CheckpointStarted(s)
    BY <2>4 DEF PublishStarted, Publish, CheckpointStarted
  <2> QED
    BY <1>3, <2>1, <2>2, <2>3, <2>4 DEF ProcessStep
<1>4. CASE StreamStep(s)
  <2>1. CASE ReceiveDelta(s) \/ StreamEnds(s) \/ StreamBreaks(s) \/ MarkStreaming(s)
    BY <2>1 DEF ReceiveDelta, StreamEnds, StreamBreaks, EnterCatch, MarkStreaming
  <2>2. ASSUME NEW here, NEW point, NEW next, Flush(s, here, point, next)
        PROVE  Same(r)
    BY <2>2 DEF Flush, Publish
  <2>3. ASSUME NEW here, NEW next, FlushCheckpoint(s, here, next)
        PROVE  Same(r)
    BY <2>3 DEF FlushCheckpoint
  <2> QED
    BY <1>4, <2>1, <2>2, <2>3 DEF StreamStep
<1>5. CASE EndStep(s)
  <2>1. ASSUME NEW here, NEW next, CheckCancel(s, here, next)
        PROVE  Same(r)
    BY <2>1 DEF CheckCancel
  <2>2. CASE CancelAttempt(s) \/ CompleteAttempt(s) \/ FailAttempt(s)
    BY <2>2 DEF CancelAttempt, CompleteAttempt, FailAttempt, SetAttempt
  <2>3. CASE PublishUsage(s) \/ PostCheck(s)
    BY <2>3 DEF PublishUsage, Publish, PostCheck
  <2>4. CASE FinalizeCompleted(s) \/ FinalizeFailed(s) \/ FinalizeCancelled(s)
    BY <2>4 DEF FinalizeCompleted, FinalizeFailed, Finalize, FinalizeCancelled
  <2> QED
    BY <1>5, <2>1, <2>2, <2>3, <2>4 DEF EndStep
<1> QED
  BY <1>1, <1>2, <1>3, <1>4, <1>5 DEF RunStep

\* A run without a claim is calm: at most it finalizes a cancellation, with
\* nothing in its hands.
LEMMA UnclaimedCalm ==
  ASSUME TypeOK, Ownership, NEW s \in Runs, Tried(s), ~claimed[s],
         \/ JobStep(s) \/ RunStep(s)
         \/ Heartbeat(s) \/ ObserveCancel(s) \/ Throw(s) \/ Crash(s)
  PROVE  Calm
<1> USE DEF dbVars, rowVars, messageVars
<1>0. /\ pc[s] \notin ClaimedPoints \cup {"cancelAttempt"}
      /\ content[s] = 0
  BY DEF Ownership, Tried
<1> DEFINE Still == UNCHANGED <<attempts, messageContent>>
<1>1. CASE \/ JobStep(s) \/ Crash(s)
           \/ Heartbeat(s) \/ ObserveCancel(s) \/ Throw(s)
  <2>1. Still
    BY <1>1 DEF JobStep, Deliver, JobReturns, JobThrows, Crash, Heartbeat, ObserveCancel, Throw
  <2> QED
    BY <2>1 DEF Calm
<1>2. CASE ProcessStep(s)
  <2>1. CASE \/ ReadCandidate(s) \/ Claim(s) \/ MarkTaskRunning(s) \/ ReadOwned(s)
             \/ LoopHead(s) \/ PublishStarted(s)
    <3>1. Still
      BY <2>1 DEF ReadCandidate, Claim, MarkTaskRunning, ReadOwned, LoopHead, PublishStarted
    <3> QED
      BY <3>1 DEF Calm
  <2>2. ~Prepare(s) /\ ~CreateAttempt(s) /\ ~CheckpointStarted(s)
    BY <1>0 DEF Prepare, CreateAttempt, CheckpointStarted, Go, ClaimedPoints, WriterPoints,
       SetupPoints
  <2> QED
    BY <1>2, <2>1, <2>2 DEF ProcessStep
<1>3. CASE StreamStep(s)
  <2> USE DEF Go, ClaimedPoints, WriterPoints, StreamPoints, CatchPoints
  <2>1. ~(ReceiveDelta(s) \/ StreamEnds(s) \/ StreamBreaks(s) \/ MarkStreaming(s))
    BY <1>0 DEF ReceiveDelta, StreamEnds, StreamBreaks, MarkStreaming
  <2>2. ASSUME NEW here \in ClaimedPoints, NEW point, NEW next
        PROVE  ~Flush(s, here, point, next) /\ ~FlushCheckpoint(s, here, next)
    BY <1>0, <2>2 DEF Flush, FlushCheckpoint
  <2> QED
    BY <1>3, <2>1, <2>2 DEF StreamStep
<1>4. CASE EndStep(s)
  <2>1. ASSUME NEW here, NEW next, CheckCancel(s, here, next)
        PROVE  Calm
    BY <2>1 DEF CheckCancel, Calm
  <2>2. /\ ~CancelAttempt(s) /\ ~CompleteAttempt(s) /\ ~FailAttempt(s)
        /\ ~FinalizeCompleted(s) /\ ~FinalizeFailed(s)
    BY <1>0 DEF CancelAttempt, CompleteAttempt, FailAttempt, FinalizeCompleted, FinalizeFailed,
       Finalize, Go, ClaimedPoints, WriterPoints, StreamPoints, CatchPoints
  <2>3. CASE PublishUsage(s) \/ PostCheck(s)
    BY <2>3 DEF PublishUsage, PostCheck, Calm
  <2>4. CASE FinalizeCancelled(s)
    BY <1>0, <2>4 DEF FinalizeCancelled, Settle, Calm
  <2> QED
    BY <1>4, <2>1, <2>2, <2>3, <2>4 DEF EndStep
<1> QED
  BY <1>1, <1>2, <1>3, <1>4 DEF RunStep

\* A step of a run up to its first event keeps track of its attempts.
LEMMA ProcessTried ==
  ASSUME TypeOK, TypeOK', Ownership, InsideTry, Tries, NEW r \in Runs, ProcessStep(r)
  PROVE  Tried(r)'
<1> USE DEF Go, Jump, dbVars, rowVars, messageVars, flagVars, progressVars
<1>0. Tried(r) /\ RunTypeOK
  BY DEF Tries, TypeOK
<1>p. inTry[r] => pc[r] \notin FreshPoints \cup EarlyPoints \cup BetweenPoints \cup OpeningPoints
  BY PointsApart DEF InsideTry
<1>1. CASE ReadCandidate(r)
  <2>1. ~claimed[r] /\ ~inTry[r]
    BY <1>0, <1>1, <1>p DEF ReadCandidate, Tried, FreshPoints
  <2>2. /\ pc' = [pc EXCEPT ![r] = CandidateRoute]
        /\ UNCHANGED <<claimed, inTry, content, attemptNo, receivedFirstDelta,
                       attempts, messageContent>>
        /\ pc[r] = "candidate"
    BY <1>1 DEF ReadCandidate
  <2>3. CandidateRoute \in {"returned", "owned", "claim"}
    BY DEF CandidateRoute
  <2>4. CandidateRoute \notin BetweenPoints \cup AttemptPoints \cup {"cancelAttempt"}
    BY <2>3 DEF BetweenPoints, AttemptPoints, OpeningPoints, StreamPoints, CatchPoints
  <2>5. pc[r] \in FreshPoints
    BY <2>2 DEF FreshPoints
  <2>6. CandidateRoute \notin OpeningPoints
    BY <2>3 DEF OpeningPoints
  <2> QED
    BY <1>0, <2>1, <2>2, <2>4, <2>5, <2>6, TriedMoved
<1>2. CASE Claim(r)
  <2>1. /\ pc[r] = "claim" /\ ~claimed[r] /\ ~inTry[r]
        /\ content[r] = 0
    BY <1>0, <1>2, <1>p DEF Claim, Tried, FreshPoints
  <2>2. /\ UNCHANGED <<attempts, messageContent, content, inTry>>
        /\ pc'[r] \in {"taskRun", "returned"}
        /\ claimed'[r] => ClaimGuard
        /\ pc'[r] = "returned" => ~claimed'[r]
    BY <1>0, <1>2, <2>1 DEF Claim, RunTypeOK
  <2>3. ClaimGuard => Bare
    BY DEF ClaimGuard, Tries
  <2>4. /\ {"taskRun", "returned"} \cap
              (FreshPoints \cup BetweenPoints \cup AttemptPoints \cup {"cancelAttempt"}) = {}
    BY DEF FreshPoints, BetweenPoints, AttemptPoints, OpeningPoints, StreamPoints, CatchPoints
  <2> QED
    BY <2>1, <2>2, <2>3, <2>4 DEF Tried, Bare
<1>3. CASE MarkTaskRunning(r)
  <2>1. /\ pc[r] = "taskRun" /\ pc' = [pc EXCEPT ![r] = "owned"]
        /\ UNCHANGED <<claimed, inTry, content, attemptNo, receivedFirstDelta,
                       attempts, messageContent>>
    BY <1>3 DEF MarkTaskRunning
  <2>2. pc[r] \in EarlyPoints /\ "owned" \in EarlyPoints
    BY <2>1 DEF EarlyPoints
  <2>3. "owned" \notin FreshPoints \cup BetweenPoints \cup AttemptPoints \cup OpeningPoints
    BY <2>2, PointsApart DEF AttemptPoints
  <2> QED
    BY <1>0, <2>1, <2>2, <2>3, TriedMoved
<1>4. CASE ReadOwned(r)
  <2>1. PICK p \in OwnedRoutes(r) :
           /\ pc' = [pc EXCEPT ![r] = p] /\ pc[r] = "owned"
           /\ content' = [content EXCEPT ![r] = IF p = "finalizeFailed" THEN messageContent ELSE 0]
    BY <1>4 DEF ReadOwned
  <2>2. UNCHANGED <<claimed, inTry, attempts, messageContent>>
    BY <1>4 DEF ReadOwned
  <2>3. ~inTry[r] /\ (claimed[r] => Bare)
    BY <1>0, <1>p, <2>1 DEF EarlyPoints, Tried
  <2>4. /\ p \in {"finalizeCancelled", "prepare", "finalizeFailed", "returned"}
        /\ p \in {"prepare", "finalizeFailed"} => claimed[r]
    BY <2>1 DEF OwnedRoutes, Ownership
  <2>5. p \notin FreshPoints \cup BetweenPoints \cup AttemptPoints \cup {"cancelAttempt"}
    BY <2>4 DEF FreshPoints, BetweenPoints, AttemptPoints, OpeningPoints, StreamPoints, CatchPoints
  <2>6. pc'[r] = p /\ (~claimed[r] => content'[r] = 0)
    BY <1>0, <2>1, <2>4 DEF RunTypeOK
  <2> QED
    BY <2>2, <2>3, <2>5, <2>6 DEF Tried, Bare
<1>5. CASE Prepare(r)
  <2>1. /\ pc[r] = "prepare" /\ pc'[r] \in {"loop", "finalizeFailed"}
        /\ UNCHANGED <<claimed, inTry, messageContent>>
        /\ content'[r] = messageContent
    BY <1>0, <1>5 DEF Prepare, RunTypeOK
  <2>2. claimed[r] /\ ~inTry[r] /\ Bare
    BY <1>0, <1>p, <2>1 DEF Tried, EarlyPoints, Ownership, ClaimedPoints, WriterPoints, SetupPoints
  <2>3. DOMAIN attempts' = DOMAIN attempts /\ DOMAIN attempts = {}
    BY <1>5, <2>2 DEF Prepare, Bare, TypeOK, DbTypeOK
  <2>4. Len(attempts') = 0 /\ 0 < MaxAttempts
    BY <2>3, LifecycleAssumption DEF TypeOK, DbTypeOK
  <2>5. pc'[r] \notin FreshPoints \cup EarlyPoints \cup AttemptPoints \cup {"cancelAttempt"}
    BY <2>1 DEF FreshPoints, EarlyPoints, AttemptPoints, OpeningPoints, StreamPoints, CatchPoints
  <2> QED
    BY <2>1, <2>2, <2>3, <2>4, <2>5 DEF Tried, Bare, Blank
<1>6. CASE LoopHead(r)
  <2>1. PICK p \in {"finalizeCancelled", "create"} :
           /\ pc[r] = "loop" /\ pc' = [pc EXCEPT ![r] = p]
           /\ UNCHANGED <<claimed, inTry, content, attemptNo, receivedFirstDelta,
                          attempts, messageContent>>
    BY <1>6 DEF LoopHead
  <2>2. /\ p \notin FreshPoints \cup EarlyPoints \cup AttemptPoints \cup OpeningPoints
        /\ p # "cancelAttempt"
    BY DEF FreshPoints, EarlyPoints, AttemptPoints, OpeningPoints, StreamPoints, CatchPoints
  <2>3. pc[r] \in BetweenPoints
    BY <2>1 DEF BetweenPoints
  <2> QED
    BY <1>0, <2>1, <2>2, <2>3, TriedMoved
<1>7. CASE CreateAttempt(r)
  <2> DEFINE row == [status |-> "STARTED", token |-> r]
  <2>1. /\ pc[r] = "create" /\ pc'[r] = "publishStarted"
        /\ UNCHANGED <<claimed, inTry, messageContent, content>>
        /\ attempts' = Append(attempts, row)
        /\ attemptNo'[r] = Len(attempts) + 1
    BY <1>0, <1>7 DEF CreateAttempt, RunTypeOK
  <2> HIDE DEF row
  <2>2. /\ Blank(r) /\ \A i \in DOMAIN attempts : attempts[i].status = "FAILED"
        /\ claimed[r]
    BY <1>0, <2>1, PointsApart DEF Tried, BetweenPoints, Ownership
  <2>3. /\ Len(attempts') = Len(attempts) + 1 /\ Len(attempts) \in Nat
        /\ DOMAIN attempts' = DOMAIN attempts \cup {Len(attempts) + 1}
        /\ \A i \in DOMAIN attempts : attempts'[i] = attempts[i]
    BY <2>1 DEF TypeOK, DbTypeOK
  <2>4. pc'[r] \in OpeningPoints
    BY <2>1 DEF OpeningPoints
  <2>5. pc'[r] \notin FreshPoints \cup EarlyPoints \cup BetweenPoints \cup {"cancelAttempt"}
    BY <2>1 DEF FreshPoints, EarlyPoints, BetweenPoints
  <2> QED
    BY <2>1, <2>2, <2>3, <2>4, <2>5 DEF Tried, Blank
<1>8. CASE PublishStarted(r)
  <2>1. /\ pc[r] = "publishStarted" /\ pc' = [pc EXCEPT ![r] = "checkpointStarted"]
        /\ UNCHANGED <<claimed, inTry, content, attemptNo, receivedFirstDelta,
                       attempts, messageContent>>
    BY <1>8 DEF PublishStarted
  <2>2. pc[r] \in OpeningPoints /\ "checkpointStarted" \in OpeningPoints
    BY <2>1 DEF OpeningPoints
  <2>3. "checkpointStarted" \notin FreshPoints \cup EarlyPoints \cup BetweenPoints
    BY DEF FreshPoints, EarlyPoints, BetweenPoints
  <2> QED
    BY <1>0, <2>1, <2>2, <2>3, TriedMoved DEF AttemptPoints
<1>9. CASE CheckpointStarted(r)
  <2>1. /\ pc[r] = "checkpointStarted" /\ pc'[r] = "stream"
        /\ UNCHANGED <<claimed, content, attemptNo, attempts>>
        /\ messageContent' \in {messageContent, content[r]}
    BY <1>0, <1>9 DEF CheckpointStarted, WriteCheckpoint, RunTypeOK
  <2>2. pc[r] \in AttemptPoints /\ pc[r] \in OpeningPoints
    BY <2>1 DEF AttemptPoints, OpeningPoints
  <2>3. claimed[r]
    BY <2>2, PointsApart DEF Ownership
  <2>4. pc'[r] \notin FreshPoints \cup EarlyPoints \cup BetweenPoints \cup {"cancelAttempt"}
    BY <2>1 DEF FreshPoints, EarlyPoints, BetweenPoints
  <2> QED
    BY <1>0, <2>1, <2>2, <2>3, <2>4 DEF Tried, Blank
<1> QED
  BY <1>1, <1>2, <1>3, <1>4, <1>5, <1>6, <1>7, <1>8, <1>9 DEF ProcessStep

\* Points after the opening of an attempt.
BodyPoints == StreamPoints \cup CatchPoints

\* A step within an attempt that records no other one: what was received and
\* saved stays blank as long as no delta has come.
LEMMA WithinTried ==
  ASSUME Ownership, NEW r \in Runs, Tried(r), pc[r] \in BodyPoints \/ inTry[r],
         pc'[r] \notin FreshPoints \cup EarlyPoints \cup BetweenPoints \cup OpeningPoints,
         UNCHANGED <<claimed, attemptNo>>,
         Len(attempts') = Len(attempts), DOMAIN attempts' = DOMAIN attempts,
         \A i \in DOMAIN attempts \ {attemptNo[r]} : attempts'[i] = attempts[i],
         \/ receivedFirstDelta'[r]
         \/ /\ receivedFirstDelta'[r] = receivedFirstDelta[r] /\ content' = content
            /\ messageContent' \in {messageContent, content[r]}
  PROVE  Tried(r)'
<1>1. claimed[r] /\ claimed'[r]
  BY PointsApart DEF Ownership, BodyPoints, AttemptPoints
<1>2. /\ attemptNo'[r] = Len(attempts') /\ attemptNo'[r] # 0
      /\ \A i \in DOMAIN attempts' \ {attemptNo'[r]} : attempts'[i].status = "FAILED"
  BY DEF Tried, BodyPoints, AttemptPoints
<1>3. ~receivedFirstDelta'[r] => Blank(r)'
  BY DEF Tried, BodyPoints, AttemptPoints, Blank
<1> QED
  BY <1>1, <1>2, <1>3 DEF Tried

LEMMA BodyIsApart ==
  BodyPoints \cap (FreshPoints \cup EarlyPoints \cup BetweenPoints \cup OpeningPoints) = {}
BY PointsApart DEF BodyPoints, AttemptPoints

\* So does a run that streams.
LEMMA StreamTried ==
  ASSUME TypeOK, Ownership, Tries, NEW r \in Runs, StreamStep(r)
  PROVE  Tried(r)'
<1> USE DEF Go, Jump, dbVars, rowVars, messageVars, flagVars, progressVars
<1>0. Tried(r) /\ RunTypeOK
  BY DEF Tries, TypeOK
<1>1. CASE ReceiveDelta(r)
  <2>1. /\ pc[r] = "stream" /\ pc'[r] \in AfterDelta \cup {"mark"}
        /\ UNCHANGED <<claimed, attemptNo, attempts>> /\ receivedFirstDelta'[r]
    BY <1>0, <1>1 DEF ReceiveDelta, RunTypeOK
  <2>2. pc[r] \in BodyPoints /\ pc'[r] \in BodyPoints
    BY <2>1 DEF BodyPoints, StreamPoints, AfterDelta
  <2> QED
    BY <1>0, <2>1, <2>2, WithinTried, BodyIsApart
<1>2. ASSUME NEW p \in BodyPoints, pc[r] \in BodyPoints, pc' = [pc EXCEPT ![r] = p],
             UNCHANGED <<claimed, content, attemptNo, receivedFirstDelta, attempts>>,
             messageContent' \in {messageContent, content[r]}
      PROVE  Tried(r)'
  <2>1. pc'[r] = p
    BY <1>0, <1>2 DEF RunTypeOK
  <2> QED
    BY <1>0, <1>2, <2>1, WithinTried, BodyIsApart
<1> USE DEF BodyPoints, StreamPoints, CatchPoints
<1>3. CASE StreamEnds(r)
  BY <1>2, <1>3 DEF StreamEnds
<1>4. CASE StreamBreaks(r)
  BY <1>2, <1>4 DEF StreamBreaks, EnterCatch
<1>5. CASE MarkStreaming(r)
  BY <1>2, <1>5 DEF MarkStreaming, AfterDelta
<1>6. ASSUME NEW here \in BodyPoints, NEW point \in BodyPoints, NEW next \in BodyPoints,
             Flush(r, here, point, next)
      PROVE  Tried(r)'
  BY <1>2, <1>6 DEF Flush
<1>7. ASSUME NEW here \in BodyPoints, NEW next \in BodyPoints, FlushCheckpoint(r, here, next)
      PROVE  Tried(r)'
  BY <1>2, <1>7 DEF FlushCheckpoint, WriteCheckpoint
<1> QED
  BY <1>1, <1>3, <1>4, <1>5, <1>6, <1>7 DEF StreamStep

\* So does a run that closes its attempt or finalizes.
LEMMA EndTried ==
  ASSUME TypeOK, TypeOK', Ownership, InsideTry, Tries, NEW r \in Runs, EndStep(r)
  PROVE  Tried(r)'
<1> USE DEF Go, Jump, dbVars, rowVars, messageVars, flagVars, progressVars
<1>0. Tried(r) /\ RunTypeOK
  BY DEF Tries, TypeOK
<1>a. /\ {"postCheck", "finalizeCancelled", "returned", "cancelAttempt"} \cap
             (FreshPoints \cup EarlyPoints \cup BetweenPoints \cup AttemptPoints) = {}
      /\ {"postCheck", "finalizeCancelled", "returned", "cancelAttempt"} \cap OpeningPoints = {}
  BY DEF FreshPoints, EarlyPoints, BetweenPoints, AttemptPoints, OpeningPoints, StreamPoints,
     CatchPoints
<1>1. ASSUME NEW here \in BodyPoints, NEW next \in BodyPoints, CheckCancel(r, here, next)
      PROVE  Tried(r)'
  <2>1. claimed[r]
    BY <1>1, PointsApart DEF CheckCancel, Ownership, BodyPoints, AttemptPoints
  <2>2. PICK p \in {"cancelAttempt", next} : pc' = [pc EXCEPT ![r] = p]
    BY <1>1 DEF CheckCancel
  <2>3. p \notin FreshPoints \cup EarlyPoints \cup BetweenPoints \cup OpeningPoints
    BY <1>1, <1>a, <2>2, BodyIsApart
  <2>4. pc[r] \in AttemptPoints
    BY <1>1 DEF CheckCancel, BodyPoints, AttemptPoints
  <2> QED
    BY <1>0, <1>1, <2>1, <2>2, <2>3, <2>4, TriedMoved DEF CheckCancel
\* The attempt of a run changes, no other one.
<1>2. ASSUME NEW result \in AttemptStatus, SetAttempt(r, result)
      PROVE  /\ Len(attempts') = Len(attempts) /\ DOMAIN attempts' = DOMAIN attempts
             /\ \A i \in DOMAIN attempts \ {attemptNo[r]} : attempts'[i] = attempts[i]
             /\ attemptNo[r] \in DOMAIN attempts => attempts'[attemptNo[r]].status = result
             /\ UNCHANGED <<claimed, inTry, content, attemptNo, receivedFirstDelta,
                            messageContent>>
  <2>1. \A i \in DOMAIN attempts : attempts[i] \in Attempt
    BY DEF TypeOK, DbTypeOK
  <2>2. attempts' = [attempts EXCEPT ![attemptNo[r]].status = result]
    BY <1>2 DEF SetAttempt
  <2>3. DOMAIN attempts' = DOMAIN attempts
    BY <2>2
  <2>4. Len(attempts') = Len(attempts)
    BY <2>3, SameLength
  <2> QED
    BY <1>2, <2>1, <2>2, <2>3, <2>4 DEF SetAttempt, Attempt
<1>3. CASE CancelAttempt(r)
  <2>1. /\ pc[r] = "cancelAttempt" /\ pc'[r] = "finalizeCancelled"
        /\ SetAttempt(r, "CANCELLED") /\ "CANCELLED" \in AttemptStatus
    BY <1>0, <1>3 DEF CancelAttempt, AttemptStatus, RunTypeOK
  <2>2. CASE inTry[r]
    BY <1>0, <1>2, <1>a, <2>1, <2>2, WithinTried
  <2>3. CASE ~inTry[r]
    BY <1>0, <1>2, <1>a, <2>1, <2>3 DEF Tried
  <2> QED
    BY <2>2, <2>3
<1>4. CASE CompleteAttempt(r)
  <2>1. /\ pc[r] = "completeAttempt" /\ pc'[r] \in {"usage", "finalizeCompleted"}
        /\ SetAttempt(r, "COMPLETED") /\ "COMPLETED" \in AttemptStatus
    BY <1>0, <1>4 DEF CompleteAttempt, AttemptStatus, RunTypeOK
  <2>2. pc[r] \in BodyPoints /\ pc'[r] \in BodyPoints
    BY <2>1 DEF BodyPoints, StreamPoints
  <2> QED
    BY <1>0, <1>2, <2>1, <2>2, WithinTried, BodyIsApart
<1>5. CASE PublishUsage(r)
  <2>1. /\ pc[r] = "usage" /\ pc'[r] = "finalizeCompleted"
        /\ UNCHANGED <<claimed, inTry, content, attemptNo, receivedFirstDelta,
                       attempts, messageContent>>
    BY <1>0, <1>5 DEF PublishUsage, RunTypeOK
  <2>2. pc[r] \in BodyPoints /\ pc'[r] \in BodyPoints
    BY <2>1 DEF BodyPoints, StreamPoints
  <2> QED
    BY <1>0, <2>1, <2>2, WithinTried, BodyIsApart
\* The only way back to the loop.
<1>6. CASE FailAttempt(r)
  <2>1. /\ pc[r] = "failAttempt"
        /\ pc'[r] = IF CanRetry(r) THEN "loop" ELSE "finalizeFailed"
        /\ SetAttempt(r, "FAILED") /\ "FAILED" \in AttemptStatus
    BY <1>0, <1>6 DEF FailAttempt, AttemptStatus, RunTypeOK
  <2>2. pc[r] \in AttemptPoints /\ pc[r] \notin TryPoints
    BY <2>1 DEF AttemptPoints, CatchPoints, TryPoints, StreamPoints
  <2>3. claimed[r] /\ ~inTry[r]
    BY <2>2, PointsApart DEF Ownership, InsideTry
  <2>4. /\ attemptNo[r] = Len(attempts)
        /\ \A i \in DOMAIN attempts : attempts'[i].status = "FAILED"
        /\ ~receivedFirstDelta[r] => Blank(r)
    BY <1>0, <1>2, <2>1, <2>2 DEF Tried
  <2>5. {"loop", "finalizeFailed"} \cap (FreshPoints \cup EarlyPoints \cup AttemptPoints) = {}
    BY DEF FreshPoints, EarlyPoints, AttemptPoints, OpeningPoints, StreamPoints, CatchPoints
  <2>6. pc'[r] = "loop" => CanRetry(r)
    BY <2>1
  <2>7. "finalizeFailed" \notin BetweenPoints /\ pc'[r] \in {"loop", "finalizeFailed"}
    BY <2>1 DEF BetweenPoints
  <2>8. pc'[r] \in BetweenPoints => Blank(r) /\ Len(attempts) < MaxAttempts
    BY <2>4, <2>6, <2>7 DEF CanRetry
  <2> QED
    BY <1>2, <2>1, <2>3, <2>4, <2>5, <2>7, <2>8 DEF Tried, Blank
<1>7. CASE FinalizeCompleted(r) \/ FinalizeFailed(r) \/ FinalizeCancelled(r)
  <2>1. /\ pc'[r] \in {"postCheck", "returned"}
        /\ UNCHANGED <<claimed, inTry, content, attemptNo, receivedFirstDelta, attempts>>
        /\ messageContent' \in {messageContent, content[r]}
    BY <1>0, <1>7 DEF FinalizeCompleted, FinalizeFailed, Finalize, FinalizeCancelled, Settle,
       RunTypeOK
  <2>2. CASE inTry[r]
    BY <1>0, <1>a, <2>1, <2>2, WithinTried
  <2>3. CASE ~inTry[r]
    BY <1>0, <1>a, <2>1, <2>3 DEF Tried
  <2> QED
    BY <2>2, <2>3
<1>8. CASE PostCheck(r)
  <2>1. PICK p \in {"finalizeCancelled", "returned"} : pc' = [pc EXCEPT ![r] = p]
    BY <1>8 DEF PostCheck
  <2> QED
    BY <1>0, <1>8, <1>a, <2>1, TriedMoved DEF PostCheck
<1>9. {"endCheck", "catchCheck", "completeAttempt", "failAttempt"} \subseteq BodyPoints
  BY DEF BodyPoints, StreamPoints, CatchPoints
<1> QED
  BY <1>1, <1>3, <1>4, <1>5, <1>6, <1>7, <1>8, <1>9 DEF EndStep

\* So does the queue, a timer, a failing call and a crash.
LEMMA EventTried ==
  ASSUME TypeOK, Ownership, InsideTry, Tries, NEW r \in Runs,
         JobStep(r) \/ Heartbeat(r) \/ ObserveCancel(r) \/ Throw(r) \/ Crash(r)
  PROVE  Tried(r)'
<1> USE DEF Go, Jump, dbVars, rowVars, messageVars, flagVars, progressVars
<1>0. Tried(r) /\ RunTypeOK
  BY DEF Tries, TypeOK
<1>1. CASE Deliver(r)
  <2>1. /\ "candidate" \in FreshPoints
        /\ "candidate" \notin EarlyPoints \cup BetweenPoints \cup AttemptPoints \cup OpeningPoints
    BY DEF FreshPoints, EarlyPoints, BetweenPoints, AttemptPoints, OpeningPoints, StreamPoints,
       CatchPoints
  <2>2. pc[r] \in FreshPoints
    BY <1>1 DEF Deliver, FreshPoints
  <2> QED
    BY <1>0, <1>1, <2>1, <2>2, TriedMoved DEF Deliver
<1>2. CASE JobReturns(r) \/ JobThrows(r) \/ Crash(r)
  <2>1. pc'[r] = "done" /\ ~claimed'[r] /\ ~inTry'[r] /\ content'[r] = 0
    BY <1>0, <1>2 DEF JobReturns, JobThrows, Crash, Forget, RunTypeOK
  <2>2. "done" \notin BetweenPoints \cup AttemptPoints
    BY DEF BetweenPoints, AttemptPoints, OpeningPoints, StreamPoints, CatchPoints
  <2> QED
    BY <2>1, <2>2 DEF Tried
<1>3. CASE Heartbeat(r) \/ ObserveCancel(r)
  <2>1. Same(r) /\ Calm
    BY <1>3 DEF Heartbeat, ObserveCancel, Same, Calm
  <2> QED
    BY <1>0, <2>1, TriedKept
<1>4. CASE Throw(r)
  <2>1. UNCHANGED <<claimed, content, attemptNo, receivedFirstDelta, attempts, messageContent>>
    BY <1>4 DEF Throw
  <2>2. CASE inTry[r] /\ EnterCatch(r, FALSE)
    <3>1. /\ "flushCatch" \in AttemptPoints
          /\ "flushCatch" \notin FreshPoints \cup EarlyPoints \cup BetweenPoints \cup OpeningPoints
      BY DEF FreshPoints, EarlyPoints, BetweenPoints, AttemptPoints, OpeningPoints, StreamPoints,
         CatchPoints
    <3>2. pc' = [pc EXCEPT ![r] = "flushCatch"]
      BY <2>2 DEF EnterCatch
    <3> QED
      BY <1>0, <2>1, <2>2, <3>1, <3>2, TriedMoved
  <2>3. CASE pc' = [pc EXCEPT ![r] = "threw"] /\ UNCHANGED inTry
    <3>1. "threw" \notin FreshPoints \cup EarlyPoints \cup BetweenPoints \cup AttemptPoints
                            \cup OpeningPoints
      BY DEF FreshPoints, EarlyPoints, BetweenPoints, AttemptPoints, OpeningPoints, StreamPoints,
         CatchPoints
    <3> QED
      BY <1>0, <2>1, <2>3, <3>1, TriedMoved
  <2> QED
    BY <1>4, <2>2, <2>3 DEF Throw
<1> QED
  BY <1>1, <1>2, <1>3, <1>4 DEF JobStep

\* Every step keeps track of the attempts.
LEMMA TriesStep ==
  ASSUME Inv, Inv', Tries, [Next]_vars
  PROVE  Tries'
<1>0. TypeOK /\ TypeOK' /\ Ownership /\ InsideTry
  BY DEF Inv
<1>1. CASE UNCHANGED vars
  BY <1>1 DEF vars, dbVars, rowVars, messageVars, flagVars, progressVars, Tries, Tried, Bare, Blank
<1>2. CASE \/ Cancel \/ Enqueue \/ Stall \/ HeartbeatExpires
           \/ \E m \in Monitors : MonitorStep(m)
  <2>1. Calm /\ \A r \in Runs : Same(r)
    BY <1>0, <1>2, OutsideCalm
  <2>2. \A r \in Runs : Tried(r)'
    BY <1>0, <2>1, TriedKept DEF Tries
  <2>3. status' = "QUEUED" => status = "QUEUED"
    BY <1>0, StatusStep DEF Inv, StatusForward
  <2> QED
    BY <2>1, <2>2, <2>3 DEF Tries, Bare, Calm
<1>3. ASSUME NEW s \in Runs,
             \/ JobStep(s) \/ RunStep(s)
             \/ Heartbeat(s) \/ ObserveCancel(s) \/ Throw(s) \/ Crash(s)
      PROVE  Tries'
  <2>1. ~claimed[s] => Calm
    BY <1>0, <1>3, UnclaimedCalm DEF Tries
  <2>2. Tried(s)'
    BY <1>0, <1>3, ProcessTried, StreamTried, EndTried, EventTried DEF RunStep
  <2>3. ASSUME NEW r \in Runs, r # s
        PROVE  Tried(r)'
    <3>1. Same(r)
      BY <1>0, <1>3, <2>3, OthersSame
    <3>2. claimed[r] => ~claimed[s]
      BY <1>0, <2>3 DEF Ownership
    <3> QED
      BY <1>0, <2>1, <3>1, <3>2, TriedKept DEF Tries
  <2>4. ASSUME status' = "QUEUED"
        PROVE  Bare'
    <3>1. status = "QUEUED"
      BY <1>0, <2>4, StatusStep DEF Inv, StatusForward
    <3>2. ~claimed[s]
      BY <1>0, <3>1 DEF Ownership
    <3> QED
      BY <2>1, <3>1, <3>2 DEF Tries, Bare, Calm
  <2> QED
    BY <2>2, <2>3, <2>4 DEF Tries
<1> QED
  BY <1>1, <1>2, <1>3 DEF Next

\* Only createAttempt records an attempt.
LEMMA RecordedByCreate ==
  ASSUME TypeOK, TypeOK', NEW r \in Runs, ~CreateAttempt(r),
         \/ JobStep(r) \/ RunStep(r)
         \/ Heartbeat(r) \/ ObserveCancel(r) \/ Throw(r) \/ Crash(r)
  PROVE  Len(attempts') = Len(attempts)
<1> USE DEF dbVars, rowVars, messageVars
<1>1. CASE \/ JobStep(r) \/ Crash(r)
           \/ Heartbeat(r) \/ ObserveCancel(r) \/ Throw(r)
  BY <1>1 DEF JobStep, Deliver, JobReturns, JobThrows, Crash, Heartbeat, ObserveCancel, Throw
<1>2. CASE ProcessStep(r)
  <2>1. CASE Prepare(r)
    <3>1. DOMAIN attempts' = DOMAIN attempts
      BY <2>1 DEF Prepare
    <3> QED
      BY <3>1, SameLength
  <2> QED
    BY <1>2, <2>1 DEF ProcessStep, ReadCandidate, Claim, MarkTaskRunning, ReadOwned, LoopHead,
       PublishStarted, CheckpointStarted, WriteCheckpoint
<1>3. CASE StreamStep(r)
  <2>1. CASE ReceiveDelta(r) \/ StreamEnds(r) \/ StreamBreaks(r) \/ MarkStreaming(r)
    BY <2>1 DEF ReceiveDelta, StreamEnds, StreamBreaks, MarkStreaming
  <2>2. ASSUME NEW here, NEW point, NEW next,
               Flush(r, here, point, next) \/ FlushCheckpoint(r, here, next)
        PROVE  UNCHANGED attempts
    BY <2>2 DEF Flush, FlushCheckpoint, WriteCheckpoint
  <2> QED
    BY <1>3, <2>1, <2>2 DEF StreamStep
<1>4. CASE EndStep(r)
  <2>1. CASE CancelAttempt(r) \/ CompleteAttempt(r) \/ FailAttempt(r)
    <3>1. DOMAIN attempts' = DOMAIN attempts
      BY <2>1 DEF CancelAttempt, CompleteAttempt, FailAttempt, SetAttempt
    <3> QED
      BY <3>1, SameLength
  <2>2. ASSUME NEW here, NEW next, CheckCancel(r, here, next)
        PROVE  UNCHANGED attempts
    BY <2>2 DEF CheckCancel
  <2>3. CASE \/ PublishUsage(r) \/ PostCheck(r) \/ FinalizeCompleted(r) \/ FinalizeFailed(r)
             \/ FinalizeCancelled(r)
    BY <2>3 DEF PublishUsage, PostCheck, FinalizeCompleted, FinalizeFailed, Finalize,
       FinalizeCancelled
  <2> QED
    BY <1>4, <2>1, <2>2, <2>3 DEF EndStep
<1> QED
  BY <1>1, <1>2, <1>3, <1>4 DEF RunStep

\* The provider is called again only while nothing was received or saved, all
\* earlier attempts have failed and the budget allows (canRetry).
THEOREM RetriesAreSafe == Spec => RetryOnlyBeforeFirstDelta
<1> DEFINE Safe == Len(attempts') # Len(attempts) =>
                     /\ messageContent = 0
                     /\ Len(attempts') <= MaxAttempts
                     /\ \A i \in DOMAIN attempts : attempts[i].status = "FAILED"
<1>1. Init => Tries
  BY DEF Init, Tries, Tried, Bare, BetweenPoints, AttemptPoints, OpeningPoints, StreamPoints,
     CatchPoints, EarlyPoints
<1>2. ASSUME Inv, Inv', Tries, [Next]_vars
      PROVE  Safe
  <2>0. TypeOK /\ TypeOK' /\ Ownership
    BY <1>2 DEF Inv
  <2>1. CASE \/ UNCHANGED vars
             \/ Cancel \/ Enqueue \/ Stall \/ HeartbeatExpires
             \/ \E m \in Monitors : MonitorStep(m)
    BY <2>0, <2>1, OutsideCalm DEF Calm, vars, dbVars
  <2>2. ASSUME NEW r \in Runs,
               \/ JobStep(r) \/ RunStep(r)
               \/ Heartbeat(r) \/ ObserveCancel(r) \/ Throw(r) \/ Crash(r)
        PROVE  Safe
    <3>1. CASE ~CreateAttempt(r)
      <4>1. Len(attempts') = Len(attempts)
        BY <2>0, <2>2, <3>1, RecordedByCreate
      <4> QED
        BY <4>1
    <3>2. CASE CreateAttempt(r)
      <4>1. /\ messageContent = 0 /\ Len(attempts) < MaxAttempts
            /\ \A i \in DOMAIN attempts : attempts[i].status = "FAILED"
        BY <1>2, <3>2 DEF CreateAttempt, Go, Tries, Tried, BetweenPoints, Blank
      <4>2. Len(attempts') = Len(attempts) + 1 /\ Len(attempts) \in Nat
        BY <2>0, <3>2 DEF CreateAttempt, TypeOK, DbTypeOK
      <4> QED
        BY <4>1, <4>2, LifecycleAssumption
    <3> QED
      BY <3>1, <3>2
  <2> QED
    BY <1>2, <2>1, <2>2 DEF Next
<1>3. Inv /\ Inv' /\ Tries /\ [Next]_vars => Tries'
  BY TriesStep
<1>4. Inv /\ Inv' /\ Tries /\ [Next]_vars => [Safe]_vars
  BY <1>2
<1> QED
  BY <1>1, <1>3, <1>4, InvHolds, PTL DEF Spec, RetryOnlyBeforeFirstDelta

----------------------------------------------------------------------------
(* The refinement                                                          *)

\* A terminal transaction that matches is one Finish of the contract.
LEMMA SettleFinishes ==
  ASSUME TypeOK, OutcomesAgree,
         NEW outcome \in Terminal, NEW from \in SUBSET Active,
         NEW answer \in Nat, NEW seq, NEW told \in Nat, told <= answer,
         Settle(outcome, from, answer, seq, told), status \in from
  PROVE  /\ Contract!Finish(outcome)
         /\ messageContent' = answer
         /\ outbox'[1].content = told
<1>1. outbox = <<>>
  BY DEF OutcomesAgree
<1>2. outbox' = <<[type |-> outcome, content |-> told]>>
  BY <1>1 DEF Settle
<1>3. status' = outcome /\ messageStatus' = outcome /\ messageContent' = answer
  BY DEF Settle
<1>4. told \in 0 .. messageContent'
  BY <1>3
<1> QED
  BY <1>2, <1>3, <1>4 DEF Contract!Finish

\* One that no longer matches is a stutter.
LEMMA SettleStutters ==
  ASSUME NEW outcome, NEW from, NEW answer, NEW seq, NEW told,
         Settle(outcome, from, answer, seq, told), status \notin from
  PROVE  UNCHANGED <<status, messageStatus, messageContent, outbox>>
  BY DEF Settle, messageVars

\* Every step of the code is a step of the contract or a stutter.
LEMMA ContractStep ==
  ASSUME Inv, [Next]_vars
  PROVE  [Contract!Next]_Contract!contractVars
<1> DEFINE Stutter == UNCHANGED <<status, messageStatus, messageContent,
                                  outbox>>
           Step == Contract!Next \/ Stutter
<1> USE DEF Inv, messageVars, rowVars, Contract!InFlight
<1>1. ASSUME UNCHANGED outcomeVars PROVE Stutter
  BY <1>1 DEF outcomeVars
<1>2. ASSUME Cancel PROVE Contract!AskCancel
  BY <1>2 DEF Cancel, Contract!AskCancel
<1>3. ASSUME NEW r \in Runs, Claim(r) PROVE Contract!Start \/ Stutter
  BY <1>3 DEF Claim, ClaimGuard, TakeRow, Contract!Start
<1>4. ASSUME NEW r \in Runs, MarkTaskRunning(r) PROVE Stutter
  BY <1>4 DEF MarkTaskRunning
<1>5. ASSUME NEW r \in Runs, MarkStreaming(r)
      PROVE  Contract!FirstDelta \/ Stutter
  <2>1. pc[r] \in ClaimedPoints
    BY <1>5 DEF MarkStreaming, Go, ClaimedPoints, WriterPoints, StreamPoints
  <2>2. status # "QUEUED"
    BY <2>1 DEF Ownership
  <2>3. CASE messageStatus # "PENDING"
    BY <1>5, <2>3 DEF MarkStreaming, Shown
  <2>4. CASE messageStatus = "PENDING"
    <3>1. status \in {"STARTING", "CANCEL_REQUESTED"}
      BY <2>2, <2>4 DEF TypeOK, DbTypeOK, OutcomesAgree, Shown
    <3> QED
      BY <1>5, <2>4, <3>1 DEF MarkStreaming, Contract!FirstDelta
  <2> QED
    BY <2>3, <2>4
<1>6. ASSUME NEW r \in Runs, pc[r] \in SavePoints, WriteCheckpoint(r)
      PROVE  Contract!Save \/ Stutter
  <2>1. pc[r] \in HoldingPoints
    BY <1>6 DEF SavePoints, HoldingPoints, ClaimedPoints, WriterPoints,
                SetupPoints, StreamPoints, CatchPoints
  <2>2. CASE CheckpointGuard(r)
    <3>1. status \in Running /\ messageContent' = content[r]
      BY <1>6, <2>2 DEF WriteCheckpoint, CheckpointGuard
    <3>2. content[r] >= messageContent /\ content[r] \in Nat
      BY <2>1, <3>1 DEF Held, TypeOK, RunTypeOK
    <3> QED
      BY <1>6, <3>1, <3>2 DEF WriteCheckpoint, Contract!Save
  <2>3. CASE ~CheckpointGuard(r)
    BY <1>6, <2>3 DEF WriteCheckpoint
  <2> QED
    BY <2>2, <2>3
<1>7. ASSUME NEW r \in Runs, NEW here \in HoldingPoints,
             NEW outcome \in {"COMPLETED", "FAILED"}, Finalize(r, here, outcome)
      PROVE  Contract!Complete \/ Contract!Fail \/ Stutter
  <2>1. Settle(outcome, Running, content[r], sequence[r], content[r])
    BY <1>7 DEF Finalize
  <2>2. CASE status \in Running
    <3>1. content[r] \in Nat /\ content[r] >= messageContent
      BY <1>7, <2>2 DEF Finalize, Go, Held, TypeOK, RunTypeOK
    <3>2. /\ Contract!Finish(outcome)
          /\ messageContent' = content[r]
          /\ outbox'[1].content = content[r]
      BY <2>1, <2>2, <3>1, SettleFinishes
    <3> QED
      BY <2>2, <3>1, <3>2 DEF Contract!Complete, Contract!Fail
  <2>3. CASE status \notin Running
    BY <2>1, <2>3, SettleStutters
  <2> QED
    BY <2>2, <2>3
<1>8. ASSUME NEW r \in Runs, FinalizeCompleted(r) \/ FinalizeFailed(r)
      PROVE  Contract!Complete \/ Contract!Fail \/ Stutter
  <2>1. {"finalizeCompleted", "finalizeFailed"} \subseteq HoldingPoints
    BY DEF HoldingPoints, ClaimedPoints, WriterPoints, StreamPoints
  <2> QED
    BY <1>7, <1>8, <2>1 DEF FinalizeCompleted, FinalizeFailed
<1>9. ASSUME NEW r \in Runs, FinalizeCancelled(r)
      PROVE  Contract!BeCancelled \/ Stutter
  <2>1. Settle("CANCELLED", Active, content[r], sequence[r], content[r])
    BY <1>9 DEF FinalizeCancelled
  <2>2. CASE status \in Active
    <3>1. content[r] \in Nat
      BY DEF TypeOK, RunTypeOK
    <3>2. /\ Contract!Finish("CANCELLED")
          /\ messageContent' = content[r]
          /\ outbox'[1].content = content[r]
      BY <2>1, <2>2, <3>1, SettleFinishes
    <3> QED
      BY <2>2, <3>2 DEF Contract!BeCancelled, Contract!Outcomes
  <2>3. CASE status \notin Active
    BY <2>1, <2>3, SettleStutters
  <2> QED
    BY <2>2, <2>3
<1>10. ASSUME NEW m \in Monitors, MonitorSettle(m)
       PROVE  Contract!Fail \/ Stutter
  <2>1. CASE MonitorGuard(m)
    <3>1. status \in Running
      BY <2>1 DEF MonitorGuard
    <3>2. /\ messageContent \in Nat /\ seen[m].content \in Nat
          /\ seen[m].content <= messageContent
      BY <3>1 DEF Scanned, TypeOK, DbTypeOK, Scan
    <3>3. Settle("FAILED", Running, messageContent, checkpointSequence,
                 seen[m].content)
      BY <1>10, <2>1 DEF MonitorSettle
    <3>4. Contract!Finish("FAILED") /\ messageContent' = messageContent
      BY <3>1, <3>2, <3>3, SettleFinishes
    <3> QED
      BY <3>1, <3>2, <3>4 DEF Contract!Fail
  <2>2. CASE ~MonitorGuard(m)
    BY <1>10, <2>2 DEF MonitorSettle
  <2> QED
    BY <2>1, <2>2
<1>11. Step
  <2> HIDE DEF Stutter
  <2> QED
    BY <1>1, <1>2, <1>3, <1>4, <1>5, <1>6, <1>8, <1>9, <1>10, OutcomeFrame
    DEF Contract!Next
<1> QED
  BY <1>11 DEF Contract!contractVars

\* Whatever runs, monitors, crashes and users do, the database shows one
\* growing answer and then one outcome that is announced once.
THEOREM ImplementsContract == Spec => RefinesContract
<1>1. Init => Contract!Init
  BY DEF Init, Contract!Init
<1> QED
  BY <1>1, ContractStep, InvHolds, PTL DEF Spec, RefinesContract, Contract!Spec
=============================================================================

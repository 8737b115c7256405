------------------------ MODULE OutboxRelay_proofs ------------------------
(***************************************************************************)
(* Proofs about the outbox relays, for any number of rows, relays, faults, *)
(* any batch size and any budget of attempts.                              *)
(***************************************************************************)
EXTENDS OutboxRelay, TLAPS

USE OutboxAssumption

----------------------------------------------------------------------------
(* What the steps do                                                       *)

\* A claim leases rows that are open, and reads their attempts.
LEMMA ClaimLeases ==
  ASSUME NEW r \in Relays, Claim(r)
  PROVE  \E rows \in SUBSET Events :
            /\ pc[r] = "idle"
            /\ \A e \in rows : ~removed[e] /\ ~published[e] /\ ~deadLettered[e]
            /\ lockToken' = [e \in Events |->
                                IF e \in rows THEN r ELSE lockToken[e]]
            /\ stale' = [e \in Events |-> IF e \in rows THEN FALSE ELSE stale[e]]
            /\ UNCHANGED <<published, deadLettered, due, attempts, removed,
                           checkpoint, redisVars, current, sequence>>
            /\ \/ /\ pc' = [pc EXCEPT ![r] = "publish"]
                  /\ batch' = [batch EXCEPT ![r] = rows]
                  /\ known' = [known EXCEPT ![r] =
                       [e \in Events |-> IF e \in rows THEN attempts[e] ELSE 0]]
                  /\ UNCHANGED faults
               \/ Fault /\ UNCHANGED <<pc, batch, known>>
<1> DEFINE rows == Oldest({e \in Events : Claimable(e)})
<1>1. rows \subseteq {e \in Events : Claimable(e)}
  BY DEF Oldest
<1>2. \A e \in rows : ~removed[e] /\ ~published[e] /\ ~deadLettered[e]
  BY <1>1 DEF Claimable
<1>3. /\ pc[r] = "idle"
      /\ lockToken' = [e \in Events |-> IF e \in rows THEN r ELSE lockToken[e]]
      /\ stale' = [e \in Events |-> IF e \in rows THEN FALSE ELSE stale[e]]
      /\ UNCHANGED <<published, deadLettered, due, attempts, removed,
                     checkpoint, redisVars, current, sequence>>
      /\ \/ /\ pc' = [pc EXCEPT ![r] = "publish"]
            /\ batch' = [batch EXCEPT ![r] = rows]
            /\ known' = [known EXCEPT ![r] =
                  [e \in Events |-> IF e \in rows THEN attempts[e] ELSE 0]]
            /\ UNCHANGED faults
         \/ Fault /\ UNCHANGED <<pc, batch, known>>
  BY DEF Claim
<1> HIDE DEF rows
<1> QED
  BY <1>1, <1>2, <1>3

\* A delivery takes one row of the batch in hand and sends it or throws.
LEMMA PublishSends ==
  ASSUME NEW r \in Relays, Publish(r)
  PROVE  \E e \in batch[r] :
            /\ pc[r] = "publish"
            /\ current' = [current EXCEPT ![r] = e]
            /\ UNCHANGED <<rowVars, checkpoint, batch, known, faults>>
            /\ \/ UNCHANGED redisVars
               \/ Deliver(e)
            /\ \/ /\ pc' = [pc EXCEPT ![r] = "acknowledge"]
                  /\ e \notin Malformed
                  /\ Deliver(e)
                  /\ sequence' = [sequence EXCEPT ![r] = dedupe'[e]]
               \/ /\ pc' = [pc EXCEPT ![r] = "fail"]
                  /\ UNCHANGED sequence
  BY DEF Publish

\* A settlement goes on to the next row, leaves the loop, or fails the row.
LEMMA SettleMoves ==
  ASSUME NEW r \in Relays, Acknowledge(r) \/ Fail(r) \/ Crash(r)
  PROVE  /\ UNCHANGED <<removed, redisVars, known>>
         /\ \/ RowDone(r) /\ pc[r] \in {"acknowledge", "fail"}
            \/ Abandon(r) /\ pc[r] # "idle"
            \/ /\ pc[r] = "acknowledge"
               /\ pc' = [pc EXCEPT ![r] = "fail"]
               /\ UNCHANGED <<batch, current, sequence>>
         /\ \/ UNCHANGED <<checkpoint, rowVars>>
            \/ /\ pc[r] = "acknowledge"
               /\ AckEffect(r, current[r])
               /\ UNCHANGED <<deadLettered, due>>
            \/ /\ pc[r] = "fail"
               /\ FailEffect(r, current[r])
               /\ UNCHANGED <<published, checkpoint>>
         /\ UNCHANGED faults \/ Fault
<1>1. CASE Acknowledge(r)
  BY <1>1 DEF Acknowledge, rowVars
<1>2. CASE Fail(r)
  BY <1>2 DEF Fail, rowVars
<1>3. CASE Crash(r)
  BY <1>3 DEF Crash, rowVars
<1> QED
  BY <1>1, <1>2, <1>3

\* What time, retention, deletion and the queue do leaves the calls alone.
LEMMA EnvironmentMoves ==
  ASSUME NEW e \in Events,
         BecomesDue(e) \/ LeaseExpires(e) \/ Remove(e) \/ JobLeaves(e)
            \/ Expire(e)
  PROVE  /\ UNCHANGED <<published, deadLettered, attempts, checkpoint,
                        announced, relayVars>>
         /\ UNCHANGED lockToken \/ lockToken' = [lockToken EXCEPT ![e] = Nobody]
         /\ UNCHANGED due \/ \E b \in BOOLEAN : due' = [due EXCEPT ![e] = b]
         /\ \/ UNCHANGED stale
            \/ \E b \in BOOLEAN : stale' = [stale EXCEPT ![e] = b]
         /\ UNCHANGED removed \/ removed' = [removed EXCEPT ![e] = TRUE]
         /\ UNCHANGED job \/ job' = [job EXCEPT ![e] = "gone"]
         /\ \/ UNCHANGED <<counter, dedupe, entries>>
            \/ /\ \A r \in Relays : e \notin batch[r]
               /\ dedupe' = [dedupe EXCEPT ![e] = 0]
               /\ entries' = [entries EXCEPT ![e] = 0]
               /\ counter' = [counter EXCEPT ![e] = 0]
         /\ UNCHANGED faults \/ Fault
  BY DEF BecomesDue, LeaseExpires, Remove, JobLeaves, Expire, redisVars,
         rowVars

----------------------------------------------------------------------------
(* Type correctness                                                        *)

\* A backlog is well formed.
LEMMA InitTyped == Init => TypeOK
  BY DEF Init, TypeOK, RowTypeOK, RedisTypeOK, RelayTypeOK, LoopOK

\* Releasing a lease keeps the rows well formed.
LEMMA ReleaseTyped ==
  ASSUME RowTypeOK, NEW e, Release(e)
  PROVE  /\ attempts' \in [Events -> Nat]
         /\ lockToken' \in [Events -> Relays \cup {Nobody}]
         /\ stale' \in [Events -> BOOLEAN]
<1>1. attempts' \in [Events -> Nat]
  <2>1. CASE e \in Events
    BY <2>1 DEF RowTypeOK, Release
  <2>2. CASE e \notin Events
    BY <2>2 DEF RowTypeOK, Release
  <2> QED
    BY <2>1, <2>2
<1>2. lockToken' \in [Events -> Relays \cup {Nobody}]
  BY DEF RowTypeOK, Release
<1>3. stale' \in [Events -> BOOLEAN]
  BY DEF RowTypeOK, Release
<1> QED
  BY <1>1, <1>2, <1>3

\* Every step keeps rows, keys and calls well formed.
LEMMA TypeStep == TypeOK /\ [Next]_vars => TypeOK'
<1> SUFFICES ASSUME TypeOK, [Next]_vars PROVE TypeOK'
  OBVIOUS
<1> USE DEF TypeOK
<1>f. ASSUME Fault \/ UNCHANGED faults PROVE faults' \in Nat
  BY <1>f DEF Fault
<1>1. ASSUME NEW r \in Relays, Claim(r) PROVE TypeOK'
  <2>1. PICK rows \in SUBSET Events :
            /\ pc[r] = "idle"
            /\ lockToken' = [e \in Events |->
                                IF e \in rows THEN r ELSE lockToken[e]]
            /\ stale' = [e \in Events |-> IF e \in rows THEN FALSE ELSE stale[e]]
            /\ UNCHANGED <<published, deadLettered, due, attempts, removed,
                           checkpoint, redisVars, current, sequence>>
            /\ \/ /\ pc' = [pc EXCEPT ![r] = "publish"]
                  /\ batch' = [batch EXCEPT ![r] = rows]
                  /\ known' = [known EXCEPT ![r] =
                       [e \in Events |-> IF e \in rows THEN attempts[e] ELSE 0]]
                  /\ UNCHANGED faults
               \/ Fault /\ UNCHANGED <<pc, batch, known>>
    BY <1>1, ClaimLeases
  <2>2. RowTypeOK'
    BY <2>1 DEF RowTypeOK
  <2>3. RedisTypeOK'
    BY <2>1 DEF RedisTypeOK, redisVars
  <2>4. RelayTypeOK'
    <3>1. [e \in Events |-> IF e \in rows THEN attempts[e] ELSE 0]
             \in [Events -> Nat]
      BY DEF RowTypeOK
    <3>2. known' \in [Relays -> [Events -> Nat]]
      BY <2>1, <3>1 DEF RelayTypeOK
    <3>3. batch' \in [Relays -> SUBSET Events]
      BY <2>1 DEF RelayTypeOK
    <3>4. pc' \in [Relays -> {"idle", "publish", "acknowledge", "fail"}]
      BY <2>1 DEF RelayTypeOK
    <3> QED
      BY <2>1, <3>2, <3>3, <3>4 DEF RelayTypeOK
  <2>5. LoopOK'
    BY <2>1 DEF RelayTypeOK, LoopOK
  <2> QED
    BY <2>1, <2>2, <2>3, <2>4, <2>5, <1>f
<1>2. ASSUME NEW r \in Relays, Publish(r) PROVE TypeOK'
  <2>1. PICK e \in batch[r] :
            /\ pc[r] = "publish"
            /\ current' = [current EXCEPT ![r] = e]
            /\ UNCHANGED <<rowVars, checkpoint, batch, known, faults>>
            /\ UNCHANGED redisVars \/ Deliver(e)
            /\ \/ /\ pc' = [pc EXCEPT ![r] = "acknowledge"]
                  /\ sequence' = [sequence EXCEPT ![r] = dedupe'[e]]
               \/ /\ pc' = [pc EXCEPT ![r] = "fail"]
                  /\ UNCHANGED sequence
    BY <1>2, PublishSends
  <2>2. e \in Events
    BY DEF RelayTypeOK
  <2>3. RedisTypeOK'
    <3> USE DEF RedisTypeOK
    <3>1. CASE UNCHANGED redisVars
      BY <3>1 DEF redisVars
    <3>2. CASE Announce(e) /\ UNCHANGED job
      BY <2>2, <3>2 DEF Announce
    <3>3. CASE AddJob(e) /\ UNCHANGED <<counter, dedupe, entries, announced>>
      BY <2>2, <3>3 DEF AddJob
    <3> QED
      BY <2>1, <3>1, <3>2, <3>3 DEF Deliver
  <2>4. dedupe'[e] \in Nat
    BY <2>2, <2>3 DEF RedisTypeOK
  <2>5. RelayTypeOK'
    BY <2>1, <2>2, <2>4 DEF RelayTypeOK
  <2>6. LoopOK'
    BY <2>1, <2>2, <2>4 DEF RelayTypeOK, LoopOK
  <2> QED
    BY <2>1, <2>3, <2>5, <2>6, <1>f DEF rowVars, RowTypeOK
<1>3. ASSUME NEW r \in Relays, Acknowledge(r) \/ Fail(r) \/ Crash(r)
      PROVE  TypeOK'
  <2>1. /\ UNCHANGED <<removed, redisVars, known>>
        /\ \/ RowDone(r) /\ pc[r] \in {"acknowledge", "fail"}
           \/ Abandon(r) /\ pc[r] # "idle"
           \/ /\ pc[r] = "acknowledge"
              /\ pc' = [pc EXCEPT ![r] = "fail"]
              /\ UNCHANGED <<batch, current, sequence>>
        /\ \/ UNCHANGED <<checkpoint, rowVars>>
           \/ /\ AckEffect(r, current[r])
              /\ UNCHANGED <<deadLettered, due>>
           \/ /\ FailEffect(r, current[r])
              /\ UNCHANGED <<published, checkpoint>>
        /\ UNCHANGED faults \/ Fault
    BY <1>3, SettleMoves
  <2>2. RedisTypeOK'
    BY <2>1 DEF RedisTypeOK, redisVars
  <2>3. RelayTypeOK'
    <3> USE DEF RelayTypeOK
    <3>1. batch' \in [Relays -> SUBSET Events]
      BY <2>1 DEF RowDone, Abandon
    <3>2. pc' \in [Relays -> {"idle", "publish", "acknowledge", "fail"}]
      BY <2>1 DEF RowDone, Abandon
    <3>3. current' \in [Relays -> Events \cup {0}]
      BY <2>1 DEF RowDone, Abandon
    <3>4. sequence' \in [Relays -> Nat]
      BY <2>1 DEF RowDone, Abandon
    <3> QED
      BY <2>1, <3>1, <3>2, <3>3, <3>4
  <2>5. LoopOK'
    BY <2>1 DEF RelayTypeOK, LoopOK, RowDone, Abandon
  <2>4. RowTypeOK'
    <3> USE DEF RowTypeOK, RelayTypeOK
    <3>1. CASE UNCHANGED <<checkpoint, rowVars>>
      BY <3>1 DEF rowVars
    <3>2. CASE /\ AckEffect(r, current[r])
               /\ UNCHANGED <<deadLettered, due>>
      <4>1. checkpoint' \in [Events -> Nat]
        BY <3>2 DEF AckEffect
      <4>2. \/ UNCHANGED <<attempts, lockToken, stale>>
            \/ Release(current[r])
        BY <3>2 DEF AckEffect
      <4>3. published' \in [Events -> BOOLEAN]
        BY <3>2 DEF AckEffect
      <4> QED
        BY <2>1, <3>2, <4>1, <4>2, <4>3, ReleaseTyped
    <3>3. CASE /\ FailEffect(r, current[r])
               /\ UNCHANGED <<published, checkpoint>>
      <4>1. due' \in [Events -> BOOLEAN]
        BY <3>3 DEF FailEffect
      <4>2. \/ UNCHANGED <<attempts, lockToken, stale>>
            \/ Release(current[r])
        BY <3>3 DEF FailEffect
      <4>3. deadLettered' \in [Events -> BOOLEAN]
        <5> DEFINE dead == current[r] \in Malformed
                              \/ known[r][current[r]] + 1 >= MaxAttempts
        <5>1. dead \in BOOLEAN
          OBVIOUS
        <5>2. \/ deadLettered' = [deadLettered EXCEPT ![current[r]] = dead]
              \/ UNCHANGED deadLettered
          BY <3>3 DEF FailEffect
        <5> HIDE DEF dead
        <5> QED
          BY <5>1, <5>2
      <4> QED
        BY <2>1, <3>3, <4>1, <4>2, <4>3, ReleaseTyped
    <3> QED
      BY <2>1, <3>1, <3>2, <3>3
  <2> QED
    BY <2>1, <2>2, <2>3, <2>4, <2>5, <1>f
<1>4. ASSUME NEW e \in Events,
             BecomesDue(e) \/ LeaseExpires(e) \/ Remove(e) \/ JobLeaves(e)
                \/ Expire(e)
      PROVE  TypeOK'
  <2>1. RowTypeOK'
    <3>1. UNCHANGED <<published, deadLettered, attempts, checkpoint>>
      BY <1>4, EnvironmentMoves
    <3>2. lockToken' \in [Events -> Relays \cup {Nobody}]
      BY <1>4, EnvironmentMoves DEF RowTypeOK
    <3>3. due' \in [Events -> BOOLEAN]
      BY <1>4, EnvironmentMoves DEF RowTypeOK
    <3>4. stale' \in [Events -> BOOLEAN]
      BY <1>4, EnvironmentMoves DEF RowTypeOK
    <3>5. removed' \in [Events -> BOOLEAN]
      BY <1>4, EnvironmentMoves DEF RowTypeOK
    <3> QED
      BY <3>1, <3>2, <3>3, <3>4, <3>5 DEF RowTypeOK
  <2>2. RedisTypeOK'
    <3>1. job' \in [Events -> {"absent", "queued", "gone"}]
      BY <1>4, EnvironmentMoves DEF RedisTypeOK
    <3>2. /\ counter' \in [Events -> Nat]
          /\ dedupe' \in [Events -> Nat]
          /\ entries' \in [Events -> Nat]
      BY <1>4, EnvironmentMoves DEF RedisTypeOK
    <3>3. UNCHANGED announced
      BY <1>4, EnvironmentMoves
    <3> QED
      BY <3>1, <3>2, <3>3 DEF RedisTypeOK
  <2>3. RelayTypeOK' /\ LoopOK'
    BY <1>4, EnvironmentMoves DEF RelayTypeOK, LoopOK, relayVars
  <2>4. faults' \in Nat
    BY <1>4, EnvironmentMoves, <1>f
  <2> QED
    BY <2>1, <2>2, <2>3, <2>4
<1>5. CASE UNCHANGED vars
  BY <1>5 DEF vars, rowVars, redisVars, relayVars, RowTypeOK, RedisTypeOK,
              RelayTypeOK, LoopOK
<1> QED
  BY <1>1, <1>2, <1>3, <1>4, <1>5 DEF Next, RelayStep

\* Rows, Redis keys and dispatch calls stay well formed, and a call only ever
\* has a row of its own batch in hand.
THEOREM TypeCorrect == Spec => []TypeOK
  BY InitTyped, TypeStep, PTL DEF Spec

----------------------------------------------------------------------------
(* One announcement                                                        *)

\* A script call announces a row whose dedupe key is not set, and nothing
\* else adds to the stream.
LEMMA DedupedStep == TypeOK /\ Deduped /\ [Next]_vars => Deduped'
<1> SUFFICES ASSUME TypeOK, Deduped, [Next]_vars PROVE Deduped'
  OBVIOUS
<1> USE DEF TypeOK, RedisTypeOK, Deduped
<1>1. ASSUME UNCHANGED <<dedupe, entries, announced>> PROVE Deduped'
  BY <1>1
<1>2. ASSUME NEW r \in Relays, Claim(r) PROVE Deduped'
  BY <1>1, <1>2 DEF Claim, redisVars
<1>3. ASSUME NEW r \in Relays, Publish(r) PROVE Deduped'
  <2>1. PICK e \in batch[r] : UNCHANGED redisVars \/ Deliver(e)
    BY <1>3, PublishSends
  <2>2. CASE Announce(e)
    <3>1. e \in Events
      BY DEF RelayTypeOK
    <3> QED
      BY <3>1, <2>2 DEF Announce
  <2> QED
    BY <1>1, <2>1, <2>2 DEF Deliver, redisVars
<1>4. ASSUME NEW r \in Relays, Acknowledge(r) \/ Fail(r) \/ Crash(r)
      PROVE  Deduped'
  BY <1>1, <1>4, SettleMoves DEF redisVars
<1>5. ASSUME NEW e \in Events,
             BecomesDue(e) \/ LeaseExpires(e) \/ Remove(e) \/ JobLeaves(e)
                \/ Expire(e)
      PROVE  Deduped'
  <2>1. /\ UNCHANGED announced
        /\ \/ UNCHANGED <<dedupe, entries>>
           \/ /\ dedupe' = [dedupe EXCEPT ![e] = 0]
              /\ entries' = [entries EXCEPT ![e] = 0]
    BY <1>5, EnvironmentMoves
  <2> QED
    BY <2>1
<1>6. CASE UNCHANGED vars
  BY <1>1, <1>6 DEF vars, redisVars
<1> QED
  BY <1>2, <1>3, <1>4, <1>5, <1>6 DEF Next, RelayStep

\* However often a terminal row is delivered, the user's stream holds its
\* event at most once.
THEOREM AnnouncementIsUnique == Spec => []AnnouncedOnce
<1>1. Init => Deduped
  BY DEF Init, Deduped
<1>2. Deduped => AnnouncedOnce
  BY DEF Deduped, AnnouncedOnce
<1> QED
  BY <1>1, <1>2, TypeCorrect, DedupedStep, PTL DEF Spec

----------------------------------------------------------------------------
(* The budget of attempts                                                  *)

\* What keeps the budget exact, together.
Budgeted == SnapshotIsExact /\ Settled /\ BudgetIsExact

\* A relay that fails a row it still leases counts from the row's own attempts.
LEMMA FailBudgeted ==
  ASSUME TypeOK, Budgeted, NEW r \in Relays, NEW e \in batch[r],
         FailEffect(r, e), UNCHANGED <<published, known>>,
         \A s \in Relays : batch'[s] \subseteq batch[s]
  PROVE  Budgeted'
<1> USE DEF TypeOK, RowTypeOK, RelayTypeOK, Budgeted
<1>0. e \in Events
  OBVIOUS
<1>1. CASE ~Owns(r, e)
  <2>1. UNCHANGED <<attempts, lockToken, deadLettered, published>>
    BY <1>1 DEF FailEffect
  <2> QED
    BY <2>1 DEF SnapshotIsExact, Settled, BudgetIsExact
<1>2. CASE Owns(r, e)
  <2>1. /\ attempts' = [attempts EXCEPT ![e] = attempts[e] + 1]
        /\ lockToken' = [lockToken EXCEPT ![e] = Nobody]
        /\ deadLettered' = [deadLettered EXCEPT ![e] =
              e \in Malformed \/ known[r][e] + 1 >= MaxAttempts]
    BY <1>2 DEF FailEffect, Release
  <2>2. known[r][e] = attempts[e] /\ ~published[e] /\ ~deadLettered[e]
    BY <1>0, <1>2 DEF Owns, SnapshotIsExact, Settled
  <2>3. attempts[e] < MaxAttempts
    BY <1>0, <2>2 DEF Settled
  <2>4. SnapshotIsExact'
    BY <1>0, <2>1 DEF SnapshotIsExact
  <2>5. deadLettered'[e] <=> (e \in Malformed \/ attempts[e] + 1 >= MaxAttempts)
    BY <1>0, <2>1, <2>2
  <2>6. \A d \in Events : d # e =>
            UNCHANGED <<attempts[d], lockToken[d], deadLettered[d]>>
    BY <2>1
  <2>7. attempts'[e] = attempts[e] + 1 /\ lockToken'[e] = Nobody
    BY <1>0, <2>1
  <2>8. Settled'
    BY <1>0, <2>2, <2>3, <2>5, <2>6, <2>7 DEF Settled
  <2>9. BudgetIsExact'
    BY <1>0, <2>2, <2>3, <2>5, <2>6, <2>7 DEF BudgetIsExact
  <2> QED
    BY <2>4, <2>8, <2>9
<1> QED
  BY <1>1, <1>2

\* An acknowledgement under the lease spends one attempt of an open row.
LEMMA AckBudgeted ==
  ASSUME TypeOK, Budgeted, NEW r \in Relays, NEW e \in batch[r],
         AckEffect(r, e), UNCHANGED <<deadLettered, known>>,
         \A s \in Relays : batch'[s] \subseteq batch[s]
  PROVE  Budgeted'
<1> USE DEF TypeOK, RowTypeOK, RelayTypeOK, Budgeted
<1>0. e \in Events
  OBVIOUS
<1>1. CASE ~Owns(r, e)
  <2>1. UNCHANGED <<attempts, lockToken, deadLettered, published>>
    BY <1>1 DEF AckEffect
  <2> QED
    BY <2>1 DEF SnapshotIsExact, Settled, BudgetIsExact
<1>2. CASE Owns(r, e)
  <2>1. /\ attempts' = [attempts EXCEPT ![e] = attempts[e] + 1]
        /\ lockToken' = [lockToken EXCEPT ![e] = Nobody]
        /\ published' = [published EXCEPT ![e] = TRUE]
    BY <1>2 DEF AckEffect, Release
  <2>2. ~published[e] /\ ~deadLettered[e] /\ attempts[e] < MaxAttempts
    BY <1>0, <1>2 DEF Owns, Settled
  <2>3. \A d \in Events : d # e =>
            UNCHANGED <<attempts[d], lockToken[d], published[d]>>
    BY <2>1
  <2>4. attempts'[e] = attempts[e] + 1 /\ lockToken'[e] = Nobody /\ published'[e]
    BY <1>0, <2>1
  <2>5. SnapshotIsExact'
    BY <1>0, <2>3, <2>4 DEF SnapshotIsExact
  <2>6. Settled'
    BY <1>0, <2>2, <2>3, <2>4 DEF Settled
  <2>7. BudgetIsExact'
    BY <1>0, <2>2, <2>3, <2>4 DEF BudgetIsExact
  <2> QED
    BY <2>5, <2>6, <2>7
<1> QED
  BY <1>1, <1>2

\* Every step keeps the budget exact.
LEMMA BudgetStep == TypeOK /\ Budgeted /\ [Next]_vars => Budgeted'
<1> SUFFICES ASSUME TypeOK, Budgeted, [Next]_vars PROVE Budgeted'
  OBVIOUS
<1> USE DEF TypeOK, RowTypeOK, RelayTypeOK
<1>1. ASSUME UNCHANGED <<attempts, deadLettered, published, known, lockToken>>,
             \A s \in Relays : batch'[s] \subseteq batch[s]
      PROVE  Budgeted'
  BY <1>1 DEF Budgeted, SnapshotIsExact, Settled, BudgetIsExact
<1>2. ASSUME NEW r \in Relays, Claim(r) PROVE Budgeted'
  <2>1. PICK rows \in SUBSET Events :
            /\ pc[r] = "idle"
            /\ \A e \in rows : ~published[e] /\ ~deadLettered[e]
            /\ lockToken' = [e \in Events |->
                                IF e \in rows THEN r ELSE lockToken[e]]
            /\ UNCHANGED <<published, deadLettered, attempts>>
            /\ \/ /\ batch' = [batch EXCEPT ![r] = rows]
                  /\ known' = [known EXCEPT ![r] =
                       [e \in Events |-> IF e \in rows THEN attempts[e] ELSE 0]]
               \/ UNCHANGED <<batch, known>>
    BY <1>2, ClaimLeases
  <2>2. batch[r] = {}
    BY <2>1 DEF LoopOK
  <2>3. SnapshotIsExact'
    BY <2>1, <2>2 DEF SnapshotIsExact, Budgeted
  <2>4. Settled' /\ BudgetIsExact'
    BY <2>1 DEF Settled, BudgetIsExact, Budgeted
  <2> QED
    BY <2>3, <2>4 DEF Budgeted
<1>3. ASSUME NEW r \in Relays, Publish(r) PROVE Budgeted'
  BY <1>1, <1>3, PublishSends DEF rowVars
<1>4. ASSUME NEW r \in Relays, Acknowledge(r) \/ Fail(r) \/ Crash(r)
      PROVE  Budgeted'
  <2>1. /\ UNCHANGED known
        /\ \/ UNCHANGED rowVars
           \/ /\ pc[r] = "acknowledge"
              /\ AckEffect(r, current[r])
              /\ UNCHANGED deadLettered
           \/ /\ pc[r] = "fail"
              /\ FailEffect(r, current[r])
              /\ UNCHANGED published
    BY <1>4, SettleMoves
  <2>2. \A s \in Relays : batch'[s] \subseteq batch[s]
    <3>1. \/ batch' = [batch EXCEPT ![r] = batch[r] \ {current[r]}]
          \/ batch' = [batch EXCEPT ![r] = {}]
          \/ UNCHANGED batch
      BY <1>4, SettleMoves DEF RowDone, Abandon
    <3> QED
      BY <3>1
  <2>3. pc[r] \in {"acknowledge", "fail"} => current[r] \in batch[r]
    BY DEF LoopOK
  <2>4. CASE UNCHANGED rowVars
    BY <1>1, <2>1, <2>2, <2>4 DEF rowVars
  <2>5. CASE pc[r] = "acknowledge" /\ AckEffect(r, current[r])
                /\ UNCHANGED deadLettered
    BY <2>1, <2>2, <2>3, <2>5, AckBudgeted
  <2>6. CASE pc[r] = "fail" /\ FailEffect(r, current[r])
                /\ UNCHANGED published
    BY <2>1, <2>2, <2>3, <2>6, FailBudgeted
  <2> QED
    BY <2>1, <2>4, <2>5, <2>6
<1>5. ASSUME NEW e \in Events,
             BecomesDue(e) \/ LeaseExpires(e) \/ Remove(e) \/ JobLeaves(e)
                \/ Expire(e)
      PROVE  Budgeted'
  <2>1. /\ UNCHANGED <<published, deadLettered, attempts, batch, known>>
        /\ UNCHANGED lockToken \/ lockToken' = [lockToken EXCEPT ![e] = Nobody]
    BY <1>5, EnvironmentMoves DEF relayVars
  <2> QED
    BY <2>1 DEF Budgeted, SnapshotIsExact, Settled, BudgetIsExact
<1>6. CASE UNCHANGED vars
  BY <1>1, <1>6 DEF vars, rowVars, relayVars
<1> QED
  BY <1>2, <1>3, <1>4, <1>5, <1>6 DEF Next, RelayStep

\* No overlap of leases spends an attempt twice: dead letters are exactly the
\* rows that used up their attempts.
THEOREM BudgetHolds == Spec => []BudgetIsExact
<1>1. Init => Budgeted
  BY DEF Init, Budgeted, SnapshotIsExact, Settled, BudgetIsExact
<1>2. Budgeted => BudgetIsExact
  BY DEF Budgeted
<1> QED
  BY <1>1, <1>2, TypeCorrect, BudgetStep, PTL DEF Spec

----------------------------------------------------------------------------
(* What "published" means                                                  *)

\* What keeps published rows delivered, together.
Delivered == InHandIsDelivered /\ NotAgain /\ PublishedIsDelivered

\* Delivering a row of the batch keeps what was delivered before.
LEMMA PublishDelivers ==
  ASSUME TypeOK, Deduped, Delivered, NEW r \in Relays, Publish(r)
  PROVE  Delivered'
<1> USE DEF TypeOK, RedisTypeOK, RelayTypeOK, Delivered
<1>1. PICK e \in batch[r] :
         /\ pc[r] = "publish"
         /\ current' = [current EXCEPT ![r] = e]
         /\ UNCHANGED <<rowVars, checkpoint, batch>>
         /\ UNCHANGED redisVars \/ Deliver(e)
         /\ \/ /\ pc' = [pc EXCEPT ![r] = "acknowledge"]
               /\ Deliver(e)
               /\ sequence' = [sequence EXCEPT ![r] = dedupe'[e]]
            \/ /\ pc' = [pc EXCEPT ![r] = "fail"]
               /\ UNCHANGED sequence
  BY PublishSends
<1>2. e \in Events
  OBVIOUS
<1>3. \A d \in Events : dedupe[d] # 0 =>
         dedupe'[d] = dedupe[d] /\ announced'[d] = announced[d]
  BY <1>1, <1>2 DEF Deliver, Announce, redisVars
<1>4. \A d \in Events : d # e =>
         dedupe'[d] = dedupe[d] /\ announced'[d] = announced[d]
  BY <1>1, <1>2 DEF Deliver, Announce, redisVars
<1>5. \A d \in Events : job[d] # "absent" => job'[d] # "absent"
  BY <1>1, <1>2 DEF Deliver, AddJob, redisVars
<1>6. Deliver(e) => IF e \in TerminalRows THEN dedupe'[e] # 0
                    ELSE job'[e] # "absent"
  BY <1>2 DEF Deliver, Announce, AddJob
<1>7. InHandIsDelivered'
  <2> SUFFICES ASSUME NEW s \in Relays, pc'[s] = "acknowledge"
               PROVE  IF current'[s] \in TerminalRows
                      THEN /\ sequence'[s] # 0
                           /\ sequence'[s] = dedupe'[current'[s]]
                      ELSE job'[current'[s]] # "absent"
    BY DEF InHandIsDelivered
  <2>1. CASE s = r
    BY <1>1, <1>2, <1>6, <2>1
  <2>2. CASE s # r
    <3>1. /\ pc[s] = "acknowledge" /\ current'[s] = current[s]
          /\ sequence'[s] = sequence[s]
      BY <1>1, <2>2
    <3>2. current[s] \in Events
      BY <3>1 DEF LoopOK
    <3> QED
      BY <1>3, <1>5, <3>1, <3>2 DEF InHandIsDelivered
  <2> QED
    BY <2>1, <2>2
<1>8. NotAgain'
  BY <1>1, <1>2, <1>3, <1>4 DEF NotAgain, rowVars
<1>9. PublishedIsDelivered'
  <2> SUFFICES ASSUME NEW d \in Events, published'[d]
               PROVE  IF d \in TerminalRows
                      THEN announced'[d] # 0 /\ announced'[d] <= checkpoint'[d]
                      ELSE job'[d] # "absent"
    BY DEF PublishedIsDelivered
  <2>1. published[d] /\ checkpoint'[d] = checkpoint[d]
    BY <1>1 DEF rowVars
  <2>2. CASE d \in TerminalRows
    <3>1. d = e => dedupe[d] # 0
      BY <1>1, <2>1, <2>2 DEF NotAgain
    <3>2. announced'[d] = announced[d]
      BY <1>3, <1>4, <3>1
    <3> QED
      BY <2>1, <2>2, <3>2 DEF PublishedIsDelivered
  <2>3. CASE d \notin TerminalRows
    BY <1>5, <2>1, <2>3 DEF PublishedIsDelivered
  <2> QED
    BY <2>2, <2>3
<1> QED
  BY <1>7, <1>8, <1>9

\* A settlement marks a row published only after an acknowledged delivery.
LEMMA SettleDelivers ==
  ASSUME TypeOK, Deduped, Delivered, NEW r \in Relays,
         Acknowledge(r) \/ Fail(r) \/ Crash(r)
  PROVE  Delivered'
<1> USE DEF TypeOK, RowTypeOK, RedisTypeOK, RelayTypeOK, Delivered
<1>1. /\ UNCHANGED <<redisVars, known>>
      /\ \/ RowDone(r) /\ pc[r] \in {"acknowledge", "fail"}
         \/ Abandon(r) /\ pc[r] # "idle"
         \/ /\ pc[r] = "acknowledge"
            /\ pc' = [pc EXCEPT ![r] = "fail"]
            /\ UNCHANGED <<batch, current, sequence>>
      /\ \/ UNCHANGED <<checkpoint, published>>
         \/ /\ pc[r] = "acknowledge"
            /\ AckEffect(r, current[r])
  BY SettleMoves DEF rowVars
<1>2. UNCHANGED <<dedupe, announced, job>>
  BY <1>1 DEF redisVars
<1>3. \A s \in Relays : batch'[s] \subseteq batch[s]
  <2>1. \/ batch' = [batch EXCEPT ![r] = batch[r] \ {current[r]}]
        \/ batch' = [batch EXCEPT ![r] = {}]
        \/ UNCHANGED batch
    BY <1>1 DEF RowDone, Abandon
  <2> QED
    BY <2>1
<1>4. pc'[r] # "acknowledge"
  BY <1>1 DEF RowDone, Abandon
<1>5. \A s \in Relays : s # r =>
         pc'[s] = pc[s] /\ current'[s] = current[s] /\ sequence'[s] = sequence[s]
  BY <1>1 DEF RowDone, Abandon
<1>6. InHandIsDelivered'
  BY <1>2, <1>4, <1>5 DEF InHandIsDelivered
<1>7. CASE UNCHANGED <<checkpoint, published>>
  BY <1>2, <1>3, <1>6, <1>7 DEF NotAgain, PublishedIsDelivered
<1>8. CASE pc[r] = "acknowledge" /\ AckEffect(r, current[r])
  <2> DEFINE e == current[r]
  <2>1. e \in Events /\ e \in batch[r]
    BY <1>8 DEF LoopOK
  <2>2. \A d \in Events : d # e =>
           checkpoint'[d] = checkpoint[d] /\ published'[d] = published[d]
    BY <1>8 DEF AckEffect
  <2>3. e \in TerminalRows =>
           /\ dedupe[e] # 0
           /\ announced[e] = sequence[r]
           /\ checkpoint'[e] >= announced[e]
    <3>1. e \in TerminalRows => sequence[r] # 0 /\ sequence[r] = dedupe[e]
      BY <1>8 DEF InHandIsDelivered
    <3>2. e \in TerminalRows => announced[e] = sequence[r]
      BY <2>1, <3>1 DEF Deduped
    <3>3. e \in TerminalRows => checkpoint'[e] >= sequence[r]
      BY <1>8, <2>1 DEF AckEffect
    <3> QED
      BY <3>1, <3>2, <3>3
  <2>4. e \notin TerminalRows => job[e] # "absent"
    BY <1>8 DEF InHandIsDelivered
  <2> HIDE DEF e
  <2>5. NotAgain'
    BY <1>2, <1>3, <2>1, <2>2, <2>3 DEF NotAgain
  <2>6. PublishedIsDelivered'
    <3>1. ASSUME NEW d \in Events, published'[d], d # e
          PROVE  IF d \in TerminalRows
                 THEN announced'[d] # 0 /\ announced'[d] <= checkpoint'[d]
                 ELSE job'[d] # "absent"
      BY <1>2, <2>2, <3>1 DEF PublishedIsDelivered
    <3>2. IF e \in TerminalRows
          THEN announced'[e] # 0 /\ announced'[e] <= checkpoint'[e]
          ELSE job'[e] # "absent"
      <4>1. e \in TerminalRows => announced[e] # 0
        BY <2>1, <2>3 DEF Deduped
      <4>2. checkpoint'[e] \in Nat
        BY <1>8, <2>1 DEF AckEffect
      <4> QED
        BY <1>2, <2>1, <2>3, <2>4, <4>1, <4>2
    <3> QED
      BY <3>1, <3>2 DEF PublishedIsDelivered
  <2> QED
    BY <1>6, <2>5, <2>6
<1> QED
  BY <1>1, <1>7, <1>8

\* Every step keeps published rows delivered.
LEMMA DeliveredStep ==
  TypeOK /\ Deduped /\ Delivered /\ [Next]_vars => Delivered'
<1> SUFFICES ASSUME TypeOK, Deduped, Delivered, [Next]_vars PROVE Delivered'
  OBVIOUS
<1> USE DEF TypeOK, RowTypeOK, RedisTypeOK, RelayTypeOK
<1>1. ASSUME NEW r \in Relays, Claim(r) PROVE Delivered'
  <2>1. PICK rows \in SUBSET Events :
            /\ pc[r] = "idle"
            /\ \A e \in rows : ~published[e]
            /\ UNCHANGED <<published, checkpoint, redisVars, current, sequence>>
            /\ \/ /\ pc' = [pc EXCEPT ![r] = "publish"]
                  /\ batch' = [batch EXCEPT ![r] = rows]
               \/ UNCHANGED <<pc, batch>>
    BY <1>1, ClaimLeases
  <2>2. InHandIsDelivered'
    BY <2>1 DEF InHandIsDelivered, Delivered, redisVars
  <2>3. NotAgain'
    BY <2>1 DEF NotAgain, Delivered, redisVars
  <2>4. PublishedIsDelivered'
    BY <2>1 DEF PublishedIsDelivered, Delivered, redisVars
  <2> QED
    BY <2>2, <2>3, <2>4 DEF Delivered
<1>2. ASSUME NEW e \in Events,
             BecomesDue(e) \/ LeaseExpires(e) \/ Remove(e) \/ JobLeaves(e)
                \/ Expire(e)
      PROVE  Delivered'
  <2>1. /\ UNCHANGED <<published, checkpoint, announced, pc, batch, current,
                       sequence>>
        /\ UNCHANGED job \/ job' = [job EXCEPT ![e] = "gone"]
        /\ \/ UNCHANGED dedupe
           \/ /\ \A r \in Relays : e \notin batch[r]
              /\ dedupe' = [dedupe EXCEPT ![e] = 0]
    BY <1>2, EnvironmentMoves DEF relayVars
  <2>2. \A d \in Events : job[d] # "absent" => job'[d] # "absent"
    BY <2>1
  <2>3. \A r \in Relays : \A d \in batch[r] : dedupe'[d] = dedupe[d]
    BY <2>1
  <2>4. InHandIsDelivered'
    <3>1. \A r \in Relays : pc[r] = "acknowledge" =>
             current[r] \in batch[r] /\ current[r] \in Events
      BY DEF LoopOK
    <3> QED
      BY <2>1, <2>2, <2>3, <3>1 DEF InHandIsDelivered, Delivered
  <2>5. NotAgain'
    BY <2>1 DEF NotAgain, Delivered
  <2>6. PublishedIsDelivered'
    BY <2>1, <2>2 DEF PublishedIsDelivered, Delivered
  <2> QED
    BY <2>4, <2>5, <2>6 DEF Delivered
<1>3. CASE UNCHANGED vars
  BY <1>3 DEF vars, rowVars, redisVars, relayVars, Delivered,
              InHandIsDelivered, NotAgain, PublishedIsDelivered
<1> QED
  BY <1>1, <1>2, <1>3, PublishDelivers, SettleDelivers DEF Next, RelayStep

\* A row marked published has been delivered, and the generation's sequence
\* covers the event that announced it.
THEOREM PublishedMeansDelivered == Spec => []PublishedIsDelivered
<1>1. Init => Delivered
  BY DEF Init, Delivered, InHandIsDelivered, NotAgain, PublishedIsDelivered
<1>2. Init => Deduped
  BY DEF Init, Deduped
<1>3. Delivered => PublishedIsDelivered
  BY DEF Delivered
<1> QED
  BY <1>1, <1>2, <1>3, TypeCorrect, DedupedStep, DeliveredStep, PTL DEF Spec
=============================================================================

---------------------------- MODULE OutboxRelay ----------------------------
(***************************************************************************)
(* The transactional outbox: rows committed together with a business state *)
(* change are delivered, at least once, by the relays of the API processes *)
(* (OutboxDispatcherService).  An enqueue row becomes a BullMQ job, a      *)
(* terminal row becomes one event on the user's Redis stream.              *)
(* Several relays work on one table.  A relay leases rows, delivers them   *)
(* one by one and settles each row under the token of its lease.  A step   *)
(* is one SQL statement, one transaction or one Redis script; each may     *)
(* fail before or after it took effect.                                    *)
(***************************************************************************)
EXTENDS Naturals, FiniteSets

CONSTANTS
    MaxEvents,     \* bound: rows of the table
    TerminalRows,  \* the rows that carry a terminal event; others enqueue
    Malformed,     \* the rows whose payload does not validate
    Relays,        \* API processes with the relay enabled
    BatchSize,     \* OUTBOX_DISPATCH_BATCH_SIZE
    MaxAttempts,   \* OUTBOX_MAX_ATTEMPTS
    MaxFaults      \* bound: crashes, database errors and overrun leases

\* Rows are numbered by created_at.  Nobody is the null token.
Events == 1 .. MaxEvents
Nobody == "nobody"

ASSUME OutboxAssumption ==
    /\ MaxEvents \in Nat
    /\ TerminalRows \subseteq Events
    /\ Malformed \subseteq Events
    /\ Nobody \notin Relays
    /\ BatchSize \in Nat \ {0}
    /\ MaxAttempts \in Nat \ {0}
    /\ MaxFaults \in Nat

VARIABLES
    \* outbox_events: published_at, dead_lettered_at, next_attempt_at <= now,
    \* lock_token, locked_at older than the lock timeout, attempts, deleted
    published, deadLettered, due, lockToken, stale, attempts, removed,
    \* generations.checkpoint_sequence of the row's generation
    checkpoint,
    \* Redis: sequence counter and dedupe key, entries on the user's stream,
    \* BullMQ job; and, as history, the last announced sequence
    counter, dedupe, entries, job, announced,
    \* a dispatchOnce call: rows left, their attempts when leased, the row in
    \* hand, the sequence publish returned
    pc, batch, known, current, sequence,
    faults

rowVars == <<published, deadLettered, due, lockToken, stale, attempts, removed>>
redisVars == <<counter, dedupe, entries, job, announced>>
relayVars == <<pc, batch, known, current, sequence>>
vars == <<rowVars, checkpoint, redisVars, relayVars, faults>>

\* A backlog.  A row that is not due also stands for one not yet committed.
Init ==
    /\ published = [e \in Events |-> FALSE]
    /\ deadLettered = [e \in Events |-> FALSE]
    /\ due = [e \in Events |-> FALSE]
    /\ lockToken = [e \in Events |-> Nobody]
    /\ stale = [e \in Events |-> FALSE]
    /\ attempts = [e \in Events |-> 0]
    /\ removed = [e \in Events |-> FALSE]
    /\ checkpoint = [e \in Events |-> 1]
    /\ counter = [e \in Events |-> 1]
    /\ dedupe = [e \in Events |-> 0]
    /\ entries = [e \in Events |-> 0]
    /\ job = [e \in Events |-> "absent"]
    /\ announced = [e \in Events |-> 0]
    /\ pc = [r \in Relays |-> "idle"]
    /\ batch = [r \in Relays |-> {}]
    /\ known = [r \in Relays |-> [e \in Events |-> 0]]
    /\ current = [r \in Relays |-> 0]
    /\ sequence = [r \in Relays |-> 0]
    /\ faults = 0

Fault ==
    /\ faults < MaxFaults
    /\ faults' = faults + 1

----------------------------------------------------------------------------
(* claim                                                                   *)

\* A claim that leaves every locked row to its holder.
ClaimableUnlocked(e) ==
    /\ ~removed[e] /\ ~published[e] /\ ~deadLettered[e] /\ due[e]
    /\ lockToken[e] = Nobody

Claimable(e) ==
    /\ ~removed[e] /\ ~published[e] /\ ~deadLettered[e] /\ due[e]
    /\ lockToken[e] = Nobody \/ stale[e]

\* ORDER BY created_at LIMIT BatchSize.
Oldest(rows) == {e \in rows : Cardinality({d \in rows : d < e}) < BatchSize}

\* The new token of a call is only ever compared with rows that call has
\* leased, so the relay's name stands for it.  When the commit is not
\* acknowledged the rows stay leased to a token nobody uses.
Claim(r) ==
    /\ pc[r] = "idle"
    /\ LET rows == Oldest({e \in Events : Claimable(e)})
       IN  /\ rows # {}
           /\ lockToken' = [e \in Events |->
                               IF e \in rows THEN r ELSE lockToken[e]]
           /\ stale' = [e \in Events |->
                           IF e \in rows THEN FALSE ELSE stale[e]]
           /\ \/ /\ pc' = [pc EXCEPT ![r] = "publish"]
                 /\ batch' = [batch EXCEPT ![r] = rows]
                 /\ known' = [known EXCEPT ![r] =
                       [e \in Events |-> IF e \in rows THEN attempts[e] ELSE 0]]
                 /\ UNCHANGED faults
              \/ /\ Fault
                 /\ UNCHANGED <<pc, batch, known>>
    /\ UNCHANGED <<published, deadLettered, due, attempts, removed, checkpoint,
                   redisVars, current, sequence>>

----------------------------------------------------------------------------
(* publish                                                                 *)

\* The script without its dedupe key.
AnnounceAgain(e) ==
    /\ counter' = [counter EXCEPT ![e] = @ + 1]
    /\ dedupe' = [dedupe EXCEPT ![e] = counter[e] + 1]
    /\ entries' = [entries EXCEPT ![e] = @ + 1]
    /\ announced' = [announced EXCEPT ![e] = counter[e] + 1]

\* TERMINAL_PUBLISH_SCRIPT: one atomic script, a no-op when the dedupe key of
\* the row is set.
Announce(e) ==
    \/ /\ dedupe[e] # 0
       /\ UNCHANGED <<counter, dedupe, entries, announced>>
    \/ /\ dedupe[e] = 0
       /\ counter' = [counter EXCEPT ![e] = @ + 1]
       /\ dedupe' = [dedupe EXCEPT ![e] = counter[e] + 1]
       /\ entries' = [entries EXCEPT ![e] = @ + 1]
       /\ announced' = [announced EXCEPT ![e] = counter[e] + 1]

\* queue.add with the generation's id as jobId.
AddJob(e) == job' = [job EXCEPT ![e] = "queued"]

Deliver(e) ==
    \/ e \in TerminalRows /\ Announce(e) /\ UNCHANGED job
    \/ /\ e \notin TerminalRows
       /\ AddJob(e)
       /\ UNCHANGED <<counter, dedupe, entries, announced>>

\* Takes the next row in hand.  Delivery succeeds, or throws before or after
\* it took effect; a malformed payload throws before anything is sent.
Publish(r) ==
    /\ pc[r] = "publish"
    /\ \E e \in batch[r] :
          /\ current' = [current EXCEPT ![r] = e]
          /\ \/ /\ e \notin Malformed
                /\ Deliver(e)
                /\ \/ /\ pc' = [pc EXCEPT ![r] = "acknowledge"]
                      /\ sequence' = [sequence EXCEPT ![r] = dedupe'[e]]
                   \/ /\ pc' = [pc EXCEPT ![r] = "fail"]
                      /\ UNCHANGED sequence
             \/ /\ pc' = [pc EXCEPT ![r] = "fail"]
                /\ UNCHANGED <<redisVars, sequence>>
    /\ UNCHANGED <<rowVars, checkpoint, batch, known, faults>>

----------------------------------------------------------------------------
(* acknowledge and fail                                                    *)

\* The for loop goes on with the next row, or dispatchOnce is over.
RowDone(r) ==
    /\ batch' = [batch EXCEPT ![r] = @ \ {current[r]}]
    /\ pc' = [pc EXCEPT ![r] = IF batch[r] = {current[r]} THEN "idle"
                               ELSE "publish"]
    /\ current' = [current EXCEPT ![r] = 0]
    /\ sequence' = [sequence EXCEPT ![r] = 0]

\* An abandoned call that leaves its row in hand.
AbandonHolding(r) ==
    /\ pc' = [pc EXCEPT ![r] = "idle"]
    /\ batch' = [batch EXCEPT ![r] = {}]
    /\ UNCHANGED <<current, sequence>>

\* dispatchOnce ends early: the rows that are left stay leased.
Abandon(r) ==
    /\ pc' = [pc EXCEPT ![r] = "idle"]
    /\ batch' = [batch EXCEPT ![r] = {}]
    /\ current' = [current EXCEPT ![r] = 0]
    /\ sequence' = [sequence EXCEPT ![r] = 0]

\* A settlement that does not ask whose lease the row is under.
OwnsAny(r, e) == ~published[e] /\ ~removed[e]

Owns(r, e) == lockToken[e] = r /\ ~published[e] /\ ~removed[e]

\* A settlement update: counts the attempt and releases the lease.
Release(e) ==
    /\ attempts' = [attempts EXCEPT ![e] = @ + 1]
    /\ lockToken' = [lockToken EXCEPT ![e] = Nobody]
    /\ stale' = [stale EXCEPT ![e] = FALSE]

\* An acknowledgement that leaves the generation's sequence alone.
AckEffectRowOnly(r, e) ==
    /\ UNCHANGED checkpoint
    /\ \/ /\ Owns(r, e)
          /\ published' = [published EXCEPT ![e] = TRUE]
          /\ Release(e)
       \/ /\ ~Owns(r, e)
          /\ UNCHANGED <<published, attempts, lockToken, stale>>

\* The generation's sequence moves forward with or without the lease.
AckEffect(r, e) ==
    /\ checkpoint' = IF e \in TerminalRows /\ checkpoint[e] < sequence[r]
                     THEN [checkpoint EXCEPT ![e] = sequence[r]]
                     ELSE checkpoint
    /\ \/ /\ Owns(r, e)
          /\ published' = [published EXCEPT ![e] = TRUE]
          /\ Release(e)
       \/ /\ ~Owns(r, e)
          /\ UNCHANGED <<published, attempts, lockToken, stale>>

\* One transaction.  When it throws, with or without having been committed,
\* the row goes to fail.
Acknowledge(r) ==
    /\ pc[r] = "acknowledge"
    /\ \/ /\ AckEffect(r, current[r])
          /\ RowDone(r)
          /\ UNCHANGED faults
       \/ /\ Fault
          /\ pc' = [pc EXCEPT ![r] = "fail"]
          /\ \/ AckEffect(r, current[r])
             \/ UNCHANGED <<checkpoint, published, attempts, lockToken, stale>>
          /\ UNCHANGED <<batch, current, sequence>>
    /\ UNCHANGED <<deadLettered, due, removed, redisVars, known>>

\* Dead letters are decided by the attempts read with the lease, or by an
\* error code INVALID_*.
FailEffect(r, e) ==
    \/ /\ Owns(r, e)
       /\ Release(e)
       /\ due' = [due EXCEPT ![e] = FALSE]
       /\ deadLettered' = [deadLettered EXCEPT ![e] =
             e \in Malformed \/ known[r][e] + 1 >= MaxAttempts]
    \/ /\ ~Owns(r, e)
       /\ UNCHANGED <<attempts, lockToken, stale, due, deadLettered>>

\* One update inside the catch block: when it throws, the loop is left.
Fail(r) ==
    /\ pc[r] = "fail"
    /\ \/ /\ FailEffect(r, current[r])
          /\ RowDone(r)
          /\ UNCHANGED faults
       \/ /\ Fault
          /\ Abandon(r)
          /\ \/ FailEffect(r, current[r])
             \/ UNCHANGED <<attempts, lockToken, stale, due, deadLettered>>
    /\ UNCHANGED <<published, removed, checkpoint, redisVars, known>>

----------------------------------------------------------------------------
(* The environment                                                         *)

Crash(r) ==
    /\ pc[r] # "idle"
    /\ Fault
    /\ Abandon(r)
    /\ UNCHANGED <<rowVars, checkpoint, redisVars, known>>

\* The row is committed, or its backoff is over.
BecomesDue(e) ==
    /\ ~due[e]
    /\ ~removed[e] /\ ~published[e] /\ ~deadLettered[e]
    /\ due' = [due EXCEPT ![e] = TRUE]
    /\ UNCHANGED <<published, deadLettered, lockToken, stale, attempts,
                   removed, checkpoint, redisVars, relayVars, faults>>

\* OUTBOX_LOCK_TIMEOUT_MS pass.  A relay that still has the row to deliver or
\* to settle overruns its lease.
LeaseExpires(e) ==
    /\ lockToken[e] # Nobody
    /\ ~stale[e]
    /\ stale' = [stale EXCEPT ![e] = TRUE]
    /\ \/ e \in batch[lockToken[e]] /\ Fault
       \/ e \notin batch[lockToken[e]] /\ UNCHANGED faults
    /\ UNCHANGED <<published, deadLettered, due, lockToken, attempts, removed,
                   checkpoint, redisVars, relayVars>>

\* Data retention deletes published rows; deleting the conversation deletes
\* rows in any state.  With the row its lease is gone.
Remove(e) ==
    /\ ~removed[e]
    /\ removed' = [removed EXCEPT ![e] = TRUE]
    /\ due' = [due EXCEPT ![e] = FALSE]
    /\ lockToken' = [lockToken EXCEPT ![e] = Nobody]
    /\ stale' = [stale EXCEPT ![e] = FALSE]
    /\ UNCHANGED <<published, deadLettered, attempts, checkpoint, redisVars,
                   relayVars, faults>>

\* A worker has run the job, and the queue has evicted it since.
JobLeaves(e) ==
    /\ job[e] = "queued"
    /\ job' = [job EXCEPT ![e] = "gone"]
    /\ UNCHANGED <<rowVars, checkpoint, counter, dedupe, entries, announced,
                   relayVars, faults>>

\* EVENT_RETENTION_MS after the announcement the dedupe key, the entry and
\* the sequence are gone.  No lease lasts that long.  A relay that delivers
\* after that announces again: no second entry, as the first is gone too.
Expire(e) ==
    /\ dedupe[e] # 0
    /\ \A r \in Relays : e \notin batch[r]
    /\ dedupe' = [dedupe EXCEPT ![e] = 0]
    /\ entries' = [entries EXCEPT ![e] = 0]
    /\ counter' = [counter EXCEPT ![e] = 0]
    /\ UNCHANGED <<rowVars, checkpoint, job, announced, relayVars, faults>>

----------------------------------------------------------------------------

\* One step of a dispatchOnce call.
RelayStep(r) == Claim(r) \/ Publish(r) \/ Acknowledge(r) \/ Fail(r)

Next ==
    \/ \E r \in Relays : RelayStep(r) \/ Crash(r)
    \/ \E e \in Events : \/ BecomesDue(e) \/ LeaseExpires(e) \/ Remove(e)
                         \/ JobLeaves(e) \/ Expire(e)

Spec == Init /\ [][Next]_vars

\* The interval timer keeps calling dispatchOnce, time passes.
Fairness ==
    /\ \A r \in Relays : WF_vars(RelayStep(r))
    /\ \A e \in Events :
          WF_vars(BecomesDue(e)) /\ WF_vars(LeaseExpires(e))

FairSpec == Spec /\ Fairness

----------------------------------------------------------------------------
(* Properties                                                              *)

RowTypeOK ==
    /\ published \in [Events -> BOOLEAN]
    /\ deadLettered \in [Events -> BOOLEAN]
    /\ due \in [Events -> BOOLEAN]
    /\ lockToken \in [Events -> Relays \cup {Nobody}]
    /\ stale \in [Events -> BOOLEAN]
    /\ attempts \in [Events -> Nat]
    /\ removed \in [Events -> BOOLEAN]
    /\ checkpoint \in [Events -> Nat]

RedisTypeOK ==
    /\ counter \in [Events -> Nat]
    /\ dedupe \in [Events -> Nat]
    /\ entries \in [Events -> Nat]
    /\ job \in [Events -> {"absent", "queued", "gone"}]
    /\ announced \in [Events -> Nat]

RelayTypeOK ==
    /\ pc \in [Relays -> {"idle", "publish", "acknowledge", "fail"}]
    /\ batch \in [Relays -> SUBSET Events]
    /\ known \in [Relays -> [Events -> Nat]]
    /\ current \in [Relays -> Events \cup {0}]
    /\ sequence \in [Relays -> Nat]

\* The row in hand is one of the batch; a call not under way has neither.
LoopOK ==
    \A r \in Relays :
        /\ pc[r] = "idle" => batch[r] = {}
        /\ pc[r] \in {"acknowledge", "fail"} => current[r] \in batch[r]
        /\ pc[r] \in {"idle", "publish"} =>
              current[r] = 0 /\ sequence[r] = 0

\* Rows, keys and calls are well formed.
TypeOK ==
    /\ RowTypeOK
    /\ RedisTypeOK
    /\ RelayTypeOK
    /\ LoopOK
    /\ faults \in Nat

\* A terminal event is on the user's stream at most once, however often its
\* row is delivered: by two relays whose leases overlap, after a lost
\* acknowledgement, or after a crash between publish and acknowledge.
AnnouncedOnce == \A e \in Events : entries[e] <= 1

\* A row is only marked published after its delivery took effect, and then
\* the generation's sequence covers the announced event, so that a client
\* that syncs from the database is not behind the stream.
PublishedIsDelivered ==
    \A e \in Events : published[e] =>
        IF e \in TerminalRows
        THEN announced[e] # 0 /\ announced[e] <= checkpoint[e]
        ELSE job[e] # "absent"

\* Overlapping leases never spend an attempt twice: a row that validates is
\* a dead letter exactly when its budget of attempts is used up without
\* success, and no row exceeds the budget.
BudgetIsExact ==
    \A e \in Events :
        /\ attempts[e] <= MaxAttempts
        /\ deadLettered[e] => ~published[e]
        /\ e \notin Malformed /\ ~published[e] =>
              (deadLettered[e] <=> attempts[e] = MaxAttempts)

\* Every row is delivered or becomes a dead letter, whatever a finite number
\* of crashes, database errors and overrun leases leaves behind.
EveryRowSettles ==
    \A e \in Events : <>(published[e] \/ deadLettered[e] \/ removed[e])

----------------------------------------------------------------------------
(* The inductive invariant                                                 *)

\* The dedupe key outlives the entry it stands for.
Deduped ==
    \A e \in Events :
        /\ entries[e] <= 1
        /\ dedupe[e] = 0 => entries[e] = 0
        /\ dedupe[e] # 0 => dedupe[e] = announced[e]

\* As long as the lease holds, the attempts read with it are exact.
SnapshotIsExact ==
    \A r \in Relays, e \in Events :
        e \in batch[r] /\ lockToken[e] = r => known[r][e] = attempts[e]

\* A settled row is not leased; a row still open has attempts left.
Settled ==
    \A e \in Events :
        /\ published[e] \/ deadLettered[e] => lockToken[e] = Nobody
        /\ ~published[e] /\ ~deadLettered[e] => attempts[e] < MaxAttempts

\* What a relay is about to acknowledge has taken effect.
InHandIsDelivered ==
    \A r \in Relays : pc[r] = "acknowledge" =>
        IF current[r] \in TerminalRows
        THEN sequence[r] # 0 /\ sequence[r] = dedupe[current[r]]
        ELSE job[current[r]] # "absent"

\* Nobody will announce a published row again after its dedupe key expired.
NotAgain ==
    \A e \in TerminalRows : published[e] /\ dedupe[e] = 0 =>
        \A r \in Relays : e \notin batch[r]

Inv ==
    /\ TypeOK
    /\ Deduped
    /\ SnapshotIsExact
    /\ Settled
    /\ BudgetIsExact
    /\ InHandIsDelivered
    /\ NotAgain
    /\ PublishedIsDelivered
=============================================================================

------------------------ MODULE GenerationAdmission ------------------------
(***************************************************************************)
(* How generations of one user come into existence and disappear: API      *)
(* calls that create, create with a new conversation, or retry under an    *)
(* idempotency key, and calls that delete an archived conversation, all    *)
(* concurrent and in any API process.  A create transaction takes the      *)
(* user's advisory lock, counts the active generations and inserts; a      *)
(* delete transaction takes no such lock.  A step is what one statement of *)
(* a transaction sees (READ COMMITTED); a transaction shows its writes at  *)
(* its commit.                                                             *)
(* A conversation is the number of the generation created with it, 0 is    *)
(* one that was there before.  The life of a generation after its row is   *)
(* committed is GenerationLifecycle; here it is active until it settles.   *)
(***************************************************************************)
EXTENDS Naturals, Sequences, FiniteSets

CONSTANTS
    Calls,           \* concurrent API calls of the user
    Keys,            \* idempotency keys
    Messages,        \* client message ids
    Limit,           \* USER_GENERATION_CONCURRENCY_LIMIT
    MaxGenerations   \* bound: generations ever inserted

Nobody == "nobody"
NoMessage == "none"

ASSUME AdmissionAssumption ==
    /\ Nobody \notin Calls
    /\ NoMessage \notin Messages
    /\ Limit \in Nat \ {0}
    /\ MaxGenerations \in Nat

Conversations == 0 .. MaxGenerations
Generations == 1 .. MaxGenerations

\* What requestHash digests: the operation and what it applies to.
Bodies ==
    [kind : {"create"}, target : Conversations, message : Messages]
    \cup [kind : {"new"}, target : {0}, message : Messages]
    \cup [kind : {"retry"}, target : Generations, message : {NoMessage}]
Requests == [key : Keys, body : Bodies]

VARIABLES
    gens,       \* generations with key, body, conversation, status
    alive,      \* conversations that exist
    archived,   \* conversations the user has archived
    outbox,     \* generations whose enqueue row is not published yet
    enqueued,   \* generations whose enqueue row was published (external)
    userLock,   \* holder of the user's advisory lock
    \* one API call each; the answer is the generation returned, 0 when the
    \* call was refused, failed or has not been answered yet
    pc, request, answer,
    doomed, idsRead        \* a delete call: conversation, generations read

dataVars == <<gens, alive, archived, outbox, enqueued>>
deleteVars == <<doomed, idsRead>>
vars == <<dataVars, userLock, pc, request, answer, deleteVars>>

NoRequest == [key |-> "none", body |-> "none"]
NoAnswer == 0
InTransaction == {"check", "insert"}

Init ==
    /\ gens = <<>>
    /\ alive = {0}
    /\ archived = {}
    /\ outbox = {}
    /\ enqueued = {}
    /\ userLock = Nobody
    /\ pc = [c \in Calls |-> "idle"]
    /\ request = [c \in Calls |-> NoRequest]
    /\ answer = [c \in Calls |-> NoAnswer]
    /\ doomed = [c \in Calls |-> 0]
    /\ idsRead = [c \in Calls |-> {}]

Existing == {n \in DOMAIN gens : gens[n].status # "deleted"}
ActiveNow == {n \in Existing : gens[n].status = "active"}
HasKey(key) == {n \in Existing : gens[n].key = key}
Uses(message) == {n \in Existing : gens[n].body.message = message}

Go(c, from, to) == pc[c] = from /\ pc' = [pc EXCEPT ![c] = to]

Reply(c, n) ==
    /\ pc' = [pc EXCEPT ![c] = "idle"]
    /\ answer' = [answer EXCEPT ![c] = n]
    /\ UNCHANGED request

\* An error: NOT_FOUND, GENERATION_NOT_RETRYABLE, USER_CONCURRENCY_LIMIT,
\* IDEMPOTENCY_KEY_REUSED, CLIENT_MESSAGE_ID_REUSED or a server error.
Refuse(c) ==
    /\ pc' = [pc EXCEPT ![c] = "idle"]
    /\ request' = [request EXCEPT ![c] = NoRequest]
    /\ UNCHANGED answer

----------------------------------------------------------------------------
(* create, createConversationWithGeneration and retry                      *)

Begin(c) ==
    /\ Go(c, "idle", "lookup")
    /\ \E q \in Requests :
          /\ q.body.target \in {0} \cup DOMAIN gens
          /\ request' = [request EXCEPT ![c] = q]
    /\ answer' = [answer EXCEPT ![c] = NoAnswer]
    /\ UNCHANGED <<dataVars, userLock, deleteVars>>

\* A replay that trusts the key alone.
ResolveAnyHash(c, n) == Reply(c, n)

\* resolveExisting: the digest of the stored request must match.
Resolve(c, n) ==
    IF gens[n].body = request[c].body THEN Reply(c, n) ELSE Refuse(c)

\* findByIdempotencyKey, before any lock is taken.
Lookup(c) ==
    /\ pc[c] = "lookup"
    /\ LET found == HasKey(request[c].key)
       IN  \/ \E n \in found : Resolve(c, n)
           \/ /\ found = {}
              /\ Go(c, "lookup", "lock")
              /\ UNCHANGED <<request, answer>>
    /\ UNCHANGED <<dataVars, userLock, deleteVars>>

\* An admission that does not wait for the user's other transactions.
LockIgnored(c) ==
    /\ Go(c, "lock", "check")
    /\ userLock' = c
    /\ UNCHANGED <<dataVars, request, answer, deleteVars>>

\* pg_advisory_xact_lock: held to the end of the transaction.
Lock(c) ==
    /\ Go(c, "lock", "check")
    /\ userLock = Nobody
    /\ userLock' = c
    /\ UNCHANGED <<dataVars, request, answer, deleteVars>>

Unlock(c) == userLock' = IF userLock = c THEN Nobody ELSE userLock

\* The checks of a transaction: the target exists, a retried generation has
\* failed or was cancelled, and the user has capacity left.
Admissible(body) ==
    /\ body.kind = "create" => body.target \in alive
    /\ body.kind = "retry" => /\ body.target \in Existing
                              /\ gens[body.target].status = "failed"
    /\ Cardinality(ActiveNow) < Limit

Check(c) ==
    /\ pc[c] = "check"
    /\ \/ /\ Admissible(request[c].body)
          /\ Go(c, "check", "insert")
          /\ UNCHANGED <<userLock, request, answer>>
       \/ /\ ~Admissible(request[c].body)
          /\ Refuse(c)
          /\ Unlock(c)
    /\ UNCHANGED <<dataVars, deleteVars>>

\* The conversation the new generation belongs to.
Home(body) ==
    CASE body.kind = "create" -> body.target
      [] body.kind = "retry" -> gens[body.target].conv
      [] OTHER -> Len(gens) + 1

\* A table without the unique index on user and key.
ConflictOnMessage(q) == Uses(q.body.message) \ Uses(NoMessage) # {}

\* The unique indexes: message id, and user with idempotency key.
Conflict(q) ==
    \/ Uses(q.body.message) \ Uses(NoMessage) # {}
    \/ HasKey(q.key) # {}

\* A table without the foreign key.
DanglingUnnoticed(body) == body.kind # "new" /\ body.target \notin Conversations

\* The conversation has been deleted since it was read: foreign key error.
Dangling(body) == body.kind # "new" /\ Home(body) \notin alive

\* A retry that leaves no enqueue row behind.
InsertUnqueued(c, q) ==
    /\ gens' = Append(gens, [key |-> q.key, body |-> q.body,
                             conv |-> Home(q.body), status |-> "active"])
    /\ alive' = IF q.body.kind = "new" THEN alive \cup {Home(q.body)}
                ELSE alive
    /\ outbox' = IF q.body.kind = "retry" THEN outbox
                 ELSE outbox \cup {Len(gens) + 1}
    /\ UNCHANGED <<archived, enqueued>>

\* Messages, generation, enqueue row and, for "new", the conversation.
InsertRows(c, q) ==
    /\ gens' = Append(gens, [key |-> q.key, body |-> q.body,
                             conv |-> Home(q.body), status |-> "active"])
    /\ alive' = IF q.body.kind = "new" THEN alive \cup {Home(q.body)}
                ELSE alive
    /\ outbox' = outbox \cup {Len(gens) + 1}
    /\ UNCHANGED <<archived, enqueued>>

\* The inserts and the commit, whose acknowledgement may be lost.
Insert(c) ==
    /\ pc[c] = "insert"
    /\ Len(gens) < MaxGenerations
    /\ ~Conflict(request[c])
    /\ ~Dangling(request[c].body)
    /\ InsertRows(c, request[c])
    /\ Reply(c, Len(gens) + 1) \/ Refuse(c)
    /\ Unlock(c)
    /\ UNCHANGED deleteVars

\* A unique index rejects the insert: the transaction is rolled back.
InsertConflicts(c) ==
    /\ Go(c, "insert", "raced")
    /\ Conflict(request[c])
    /\ Unlock(c)
    /\ UNCHANGED <<dataVars, request, answer, deleteVars>>

\* The transaction fails: a dangling conversation, a lost connection or a
\* crash of the API process.  The client gets an error and may call again.
TransactionFails(c) ==
    /\ pc[c] \in InTransaction
    /\ Refuse(c)
    /\ Unlock(c)
    /\ UNCHANGED <<dataVars, deleteVars>>

\* The catch block looks the key up again; when it finds nothing the message
\* id was taken (CLIENT_MESSAGE_ID_REUSED).
Raced(c) ==
    /\ pc[c] = "raced"
    /\ LET found == HasKey(request[c].key)
       IN  \/ \E n \in found : Resolve(c, n)
           \/ found = {} /\ Refuse(c)
    /\ UNCHANGED <<dataVars, userLock, deleteVars>>

----------------------------------------------------------------------------
(* Conversations                                                           *)

Archive(k) ==
    /\ k \in alive \ archived
    /\ archived' = archived \cup {k}
    /\ UNCHANGED <<gens, alive, outbox, enqueued, userLock, pc, request,
                   answer, deleteVars>>

Restore(k) ==
    /\ k \in archived
    /\ archived' = archived \ {k}
    /\ UNCHANGED <<gens, alive, outbox, enqueued, userLock, pc, request,
                   answer, deleteVars>>

GenerationsOf(k) == {n \in Existing : gens[n].conv = k}

Deletable(k) ==
    /\ k \in archived
    /\ GenerationsOf(k) \cap ActiveNow = {}

\* delete, first statement: everything the decision rests on is read here.
\* A conversation that is missing, not archived or busy is refused.
DeleteReads(c, k) ==
    /\ k \in alive
    /\ Deletable(k)
    /\ Go(c, "idle", "erase")
    /\ doomed' = [doomed EXCEPT ![c] = k]
    /\ idsRead' = [idsRead EXCEPT ![c] = GenerationsOf(k)]
    /\ answer' = [answer EXCEPT ![c] = NoAnswer]
    /\ request' = [request EXCEPT ![c] = NoRequest]
    /\ UNCHANGED <<dataVars, userLock>>

\* delete, the writes and the commit: enqueue rows of the generations read,
\* then the conversation with everything that is in it by now.
DeleteErases(c) ==
    /\ Go(c, "erase", "idle")
    /\ LET k == doomed[c]
       IN  \/ /\ k \in alive
              /\ alive' = alive \ {k}
              /\ archived' = archived \ {k}
              /\ outbox' = outbox \ idsRead[c]
              /\ gens' = [n \in DOMAIN gens |->
                            IF gens[n].conv = k
                            THEN [gens[n] EXCEPT !.status = "deleted"]
                            ELSE gens[n]]
           \/ k \notin alive /\ UNCHANGED <<alive, archived, outbox, gens>>
    /\ doomed' = [doomed EXCEPT ![c] = 0]
    /\ idsRead' = [idsRead EXCEPT ![c] = {}]
    /\ UNCHANGED <<enqueued, userLock, request, answer>>

----------------------------------------------------------------------------
(* The rest of the system                                                  *)

\* A worker, a monitor or a cancellation settles the generation.
Settle(n) ==
    /\ n \in ActiveNow
    /\ n \in enqueued
    /\ \E outcome \in {"completed", "failed"} :
          gens' = [gens EXCEPT ![n].status = outcome]
    /\ UNCHANGED <<alive, archived, outbox, enqueued, userLock, pc, request,
                   answer, deleteVars>>

\* The relay publishes an enqueue row.
Enqueue(n) ==
    /\ n \in outbox
    /\ outbox' = outbox \ {n}
    /\ enqueued' = enqueued \cup {n}
    /\ UNCHANGED <<gens, alive, archived, userLock, pc, request, answer,
                   deleteVars>>

----------------------------------------------------------------------------

CreateStep(c) ==
    \/ Begin(c) \/ Lookup(c) \/ Lock(c) \/ Check(c) \/ Insert(c)
    \/ InsertConflicts(c) \/ TransactionFails(c) \/ Raced(c)

Next ==
    \/ \E c \in Calls : CreateStep(c) \/ DeleteErases(c)
    \/ \E c \in Calls, k \in Conversations : DeleteReads(c, k)
    \/ \E k \in Conversations : Archive(k) \/ Restore(k)
    \/ \E n \in Generations : Settle(n) \/ Enqueue(n)

Spec == Init /\ [][Next]_vars

----------------------------------------------------------------------------
(* Properties                                                              *)

GenerationRow == [key : Keys, body : Bodies, conv : Conversations,
                  status : {"active", "completed", "failed", "deleted"}]

RowsOK ==
    /\ gens \in Seq(GenerationRow)
    /\ Len(gens) <= MaxGenerations
    /\ alive \subseteq Conversations
    /\ archived \subseteq alive
    /\ outbox \subseteq Generations
    /\ enqueued \subseteq Generations

CallsOK ==
    /\ userLock \in Calls \cup {Nobody}
    /\ pc \in [Calls -> {"idle", "lookup", "lock", "check", "insert", "raced",
                         "erase"}]
    /\ request \in [Calls -> Requests \cup {NoRequest}]
    /\ answer \in [Calls -> Generations \cup {NoAnswer}]
    /\ doomed \in [Calls -> Conversations]
    /\ idsRead \in [Calls -> SUBSET Generations]

\* Rows and calls are well formed, and a row's conversation exists unless the
\* row was deleted with it.
TypeOK ==
    /\ RowsOK
    /\ CallsOK
    /\ \A n \in Existing : gens[n].conv \in alive

\* However many creates and retries race, the user never has more active
\* generations than the limit.
QuotaHolds == Cardinality(ActiveNow) <= Limit

\* Calls that carry the same idempotency key and are answered with a
\* generation are all answered with the same one, as long as it exists.
SameKeySameGeneration ==
    \A c, d \in Calls :
        /\ answer[c] \in Existing
        /\ answer[d] \in Existing
        /\ request[c].key = request[d].key
        => answer[c] = answer[d]

\* A call is only ever answered with a generation made for its own request,
\* whoever created it first.
AnswersMatch ==
    \A c \in Calls : answer[c] # NoAnswer =>
        /\ gens[answer[c]].key = request[c].key
        /\ gens[answer[c]].body = request[c].body

\* An active generation is on its way: its enqueue row waits or was published.
\* No deletion of another or of the same conversation takes the row away.
ActiveIsEnqueued == ActiveNow \subseteq outbox \cup enqueued

\* ADR-0005: deletion is refused while the conversation has a generation that
\* is queued, starting, streaming or being cancelled.
DeletionSparesActive ==
    [][\A n \in ActiveNow : gens'[n].status # "deleted"]_vars

----------------------------------------------------------------------------
(* The inductive invariant                                                 *)

\* A call that is under way carries a request.
Busy ==
    \A c \in Calls :
        pc[c] \in {"lookup", "lock", "raced"} \cup InTransaction =>
            request[c] \in Requests

\* Only one transaction of the user is between its count and its commit, and
\* what it has counted still holds: only it could make the number grow.
LockHeld == \A c \in Calls : pc[c] \in InTransaction => userLock = c
Room == \A c \in Calls : pc[c] = "insert" => Cardinality(ActiveNow) < Limit

Inv == TypeOK /\ Busy /\ LockHeld /\ Room /\ QuotaHolds
=============================================================================

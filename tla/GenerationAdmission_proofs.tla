--------------------- MODULE GenerationAdmission_proofs ---------------------
(***************************************************************************)
(* Proofs about the admission of generations, for any number of calls,     *)
(* keys, message ids and generations, and any limit.                       *)
(***************************************************************************)
EXTENDS GenerationAdmission, SequenceTheorems, FiniteSetTheorems, TLAPS

USE AdmissionAssumption

----------------------------------------------------------------------------
(* Type correctness                                                        *)

\* The user has one conversation and no generation.
LEMMA InitInv == Init => Inv
<1> SUFFICES ASSUME Init PROVE Inv
  OBVIOUS
<1>1. gens \in Seq(GenerationRow) /\ Len(gens) = 0 /\ DOMAIN gens = {}
  BY EmptySeq, LenProperties DEF Init
<1>2. Existing = {} /\ ActiveNow = {}
  BY <1>1 DEF Existing, ActiveNow
<1>3. TypeOK
  <2>1. RowsOK
    BY <1>1 DEF Init, RowsOK, Conversations
  <2>2. CallsOK
    BY DEF Init, CallsOK, Conversations
  <2> QED
    BY <1>2, <2>1, <2>2 DEF TypeOK
<1>4. Room /\ QuotaHolds
  BY <1>2, FS_EmptySet DEF Init, Room, QuotaHolds
<1> QED
  BY <1>3, <1>4 DEF Init, Inv, Busy, LockHeld, InTransaction

\* Existing generations are numbered within the bound.
LEMMA ExistingNumbers ==
  ASSUME TypeOK
  PROVE  /\ DOMAIN gens = 1 .. Len(gens)
         /\ Len(gens) \in Nat
         /\ Existing \subseteq Generations
         /\ ActiveNow \subseteq Existing
         /\ \A n \in DOMAIN gens : gens[n] \in GenerationRow
<1>1. DOMAIN gens = 1 .. Len(gens) /\ Len(gens) \in Nat
  BY LenProperties DEF TypeOK, RowsOK
<1>2. \A n \in DOMAIN gens : gens[n] \in GenerationRow
  BY <1>1, ElementOfSeq DEF TypeOK, RowsOK
<1> QED
  BY <1>1, <1>2 DEF TypeOK, RowsOK, Existing, ActiveNow, Generations

\* Changing the status of some rows leaves a sequence of rows.
LEMMA RowsUpdated ==
  ASSUME TypeOK, NEW P, NEW s, s \in {"active", "completed", "failed", "deleted"}
  PROVE  LET new == [n \in DOMAIN gens |->
                        IF n \in P THEN [gens[n] EXCEPT !.status = s]
                        ELSE gens[n]]
         IN  /\ new \in Seq(GenerationRow)
             /\ Len(new) = Len(gens)
             /\ DOMAIN new = DOMAIN gens
<1> DEFINE new == [n \in 1 .. Len(gens) |->
                        IF n \in P THEN [gens[n] EXCEPT !.status = s]
                        ELSE gens[n]]
<1>1. DOMAIN gens = 1 .. Len(gens) /\ Len(gens) \in Nat
  BY ExistingNumbers
<1>2. new \in [1 .. Len(gens) -> GenerationRow]
  BY <1>1, ExistingNumbers DEF GenerationRow
<1>3. new \in Seq(GenerationRow)
  BY <1>1, <1>2, SeqDef
<1>4. Len(new) = Len(gens) /\ DOMAIN new = DOMAIN gens
  BY <1>1, <1>2, <1>3, LenProperties
<1> QED
  BY <1>1, <1>3, <1>4

\* An insert appends one active row in a conversation that exists.
LEMMA InsertAppends ==
  ASSUME TypeOK, Busy, NEW c \in Calls, Insert(c)
  PROVE  /\ gens' \in Seq(GenerationRow)
         /\ Len(gens') = Len(gens) + 1
         /\ Len(gens') <= MaxGenerations
         /\ \A n \in DOMAIN gens : gens'[n] = gens[n]
         /\ Existing' = Existing \cup {Len(gens) + 1}
         /\ ActiveNow' = ActiveNow \cup {Len(gens) + 1}
         /\ gens'[Len(gens) + 1].conv \in alive'
         /\ alive \subseteq alive' /\ alive' \subseteq Conversations
         /\ outbox' = outbox \cup {Len(gens) + 1}
         /\ UNCHANGED <<archived, enqueued>>
<1> DEFINE q == request[c]
           row == [key |-> q.key, body |-> q.body, conv |-> Home(q.body),
                   status |-> "active"]
<1>1. q \in Requests /\ InsertRows(c, q) /\ ~Dangling(q.body)
      /\ Len(gens) < MaxGenerations
  BY DEF Insert, Busy, InTransaction
<1>2. Len(gens) \in Nat /\ DOMAIN gens = 1 .. Len(gens)
  BY ExistingNumbers
<1>3. q.key \in Keys /\ q.body \in Bodies
  BY <1>1 DEF Requests
<1>4. /\ Home(q.body) \in Conversations
      /\ alive \subseteq alive' /\ alive' \subseteq Conversations
      /\ Home(q.body) \in alive'
  <2>1. CASE q.body.kind = "new"
    <3>1. Home(q.body) = Len(gens) + 1
      BY <2>1 DEF Home
    <3>2. alive' = alive \cup {Home(q.body)}
      BY <1>1, <2>1 DEF InsertRows
    <3>3. alive \subseteq Conversations
      BY DEF TypeOK, RowsOK
    <3>4. Len(gens) + 1 \in Conversations
      BY <1>1, <1>2 DEF Conversations
    <3> QED
      BY <3>1, <3>2, <3>3, <3>4
  <2>2. CASE q.body.kind # "new"
    <3>1. Home(q.body) \in alive /\ alive' = alive
      BY <1>1, <2>2 DEF Dangling, InsertRows
    <3> QED
      BY <3>1 DEF TypeOK, RowsOK
  <2> QED
    BY <2>1, <2>2
<1>5. row \in GenerationRow
  <2> HIDE DEF q
  <2> QED
    BY <1>3, <1>4 DEF GenerationRow
<1>6. gens' = Append(gens, row) /\ outbox' = outbox \cup {Len(gens) + 1}
      /\ UNCHANGED <<archived, enqueued>>
  BY <1>1 DEF InsertRows
<1> HIDE DEF row
<1>7. /\ gens' \in Seq(GenerationRow)
      /\ Len(gens') = Len(gens) + 1
      /\ \A n \in 1 .. Len(gens) : gens'[n] = gens[n]
      /\ gens'[Len(gens) + 1] = row
  BY <1>5, <1>6, AppendProperties DEF TypeOK, RowsOK
<1>8. DOMAIN gens' = 1 .. (Len(gens) + 1)
  BY <1>7, LenProperties
<1>9. row.status = "active" /\ row.conv = Home(q.body)
  BY DEF row
<1>10. Existing' = Existing \cup {Len(gens) + 1}
  BY <1>2, <1>7, <1>8, <1>9 DEF Existing
<1>11. ActiveNow' = ActiveNow \cup {Len(gens) + 1}
  BY <1>2, <1>7, <1>9, <1>10 DEF ActiveNow, Existing
<1> QED
  BY <1>1, <1>2, <1>4, <1>6, <1>7, <1>9, <1>10, <1>11

\* Settling a generation, or deleting a conversation, changes statuses only.
LEMMA StatusChanges ==
  ASSUME TypeOK, NEW P, NEW s, s \in {"completed", "failed", "deleted"},
         gens' = [n \in DOMAIN gens |->
                    IF n \in P THEN [gens[n] EXCEPT !.status = s] ELSE gens[n]]
  PROVE  /\ gens' \in Seq(GenerationRow)
         /\ Len(gens') = Len(gens)
         /\ Existing' \subseteq Existing \cup P
         /\ P \subseteq Existing => Existing' \subseteq Existing
         /\ s = "deleted" => Existing' = Existing \ P
         /\ ActiveNow' = ActiveNow \ P
         /\ \A n \in DOMAIN gens : gens'[n].conv = gens[n].conv
<1>1. /\ gens' \in Seq(GenerationRow)
      /\ Len(gens') = Len(gens)
      /\ DOMAIN gens' = DOMAIN gens
  BY RowsUpdated
<1>2. \A n \in DOMAIN gens : gens[n] \in GenerationRow
  BY ExistingNumbers
<1>3. \A n \in DOMAIN gens :
         /\ gens'[n].conv = gens[n].conv
         /\ gens'[n].status = IF n \in P THEN s ELSE gens[n].status
  BY <1>2 DEF GenerationRow
<1> QED
  BY <1>1, <1>3 DEF Existing, ActiveNow

\* What a step can do to the rows.
LEMMA RowFrame ==
  ASSUME TypeOK, Busy, [Next]_vars
  PROVE  \/ \E c \in Calls : Insert(c)
         \/ UNCHANGED <<gens, alive>> /\ (UNCHANGED archived \/ archived' \subseteq alive)
            /\ outbox' \subseteq outbox /\ enqueued' \subseteq enqueued \cup outbox
         \/ \E n \in ActiveNow : Settle(n)
         \/ \E c \in Calls : DeleteErases(c)
<1>1. ASSUME NEW c \in Calls, CreateStep(c)
      PROVE  Insert(c) \/ UNCHANGED dataVars
  BY <1>1 DEF CreateStep, Begin, Lookup, Lock, Check, InsertConflicts,
              TransactionFails, Raced
<1>2. ASSUME NEW c \in Calls, NEW k \in Conversations, DeleteReads(c, k)
      PROVE  UNCHANGED dataVars
  BY <1>2 DEF DeleteReads
<1>3. ASSUME NEW k \in Conversations, Archive(k) \/ Restore(k)
      PROVE  /\ UNCHANGED <<gens, alive, outbox, enqueued>>
             /\ archived' \subseteq alive
  BY <1>3 DEF Archive, Restore, TypeOK, RowsOK
<1>4. ASSUME NEW n \in Generations, Settle(n) PROVE n \in ActiveNow
  BY <1>4 DEF Settle
<1>5. ASSUME NEW n \in Generations, Enqueue(n)
      PROVE  /\ UNCHANGED <<gens, alive, archived>>
             /\ outbox' \subseteq outbox /\ enqueued' \subseteq enqueued \cup outbox
  BY <1>5 DEF Enqueue
<1> QED
  BY <1>1, <1>2, <1>3, <1>4, <1>5 DEF Next, vars, dataVars

\* Every step keeps the rows well formed.
LEMMA RowsStep ==
  ASSUME TypeOK, Busy, [Next]_vars
  PROVE  RowsOK' /\ \A n \in Existing' : gens'[n].conv \in alive'
<1> USE DEF TypeOK
<1>0. Existing \subseteq DOMAIN gens /\ DOMAIN gens = 1 .. Len(gens)
      /\ Len(gens) \in Nat
  BY ExistingNumbers DEF Existing
<1>1. ASSUME NEW c \in Calls, Insert(c)
      PROVE  RowsOK' /\ \A n \in Existing' : gens'[n].conv \in alive'
  <2>1. RowsOK'
    <3>1. Len(gens) + 1 \in Generations
      BY <1>0, <1>1, InsertAppends DEF Generations
    <3> QED
      BY <1>1, <3>1, InsertAppends DEF RowsOK
  <2>2. \A n \in Existing' : gens'[n].conv \in alive'
    BY <1>0, <1>1, InsertAppends
  <2> QED
    BY <2>1, <2>2
<1>2. CASE /\ UNCHANGED <<gens, alive>>
           /\ UNCHANGED archived \/ archived' \subseteq alive
           /\ outbox' \subseteq outbox
           /\ enqueued' \subseteq enqueued \cup outbox
  BY <1>2 DEF RowsOK, Existing
<1>3. ASSUME NEW n \in ActiveNow, Settle(n)
      PROVE  RowsOK' /\ \A m \in Existing' : gens'[m].conv \in alive'
  <2>1. PICK s \in {"completed", "failed"} :
           gens' = [gens EXCEPT ![n].status = s]
    BY <1>3 DEF Settle
  <2>2. gens' = [m \in DOMAIN gens |->
           IF m \in {n} THEN [gens[m] EXCEPT !.status = s] ELSE gens[m]]
    BY <2>1
  <2>3. n \in Existing
    BY DEF ActiveNow
  <2>4. /\ gens' \in Seq(GenerationRow) /\ Len(gens') = Len(gens)
        /\ Existing' \subseteq Existing
        /\ \A m \in DOMAIN gens : gens'[m].conv = gens[m].conv
    BY <2>2, <2>3, StatusChanges
  <2>5. UNCHANGED <<alive, archived, outbox, enqueued>>
    BY <1>3 DEF Settle
  <2> QED
    BY <1>0, <2>4, <2>5 DEF RowsOK
<1>4. ASSUME NEW c \in Calls, DeleteErases(c)
      PROVE  RowsOK' /\ \A n \in Existing' : gens'[n].conv \in alive'
  <2> DEFINE k == doomed[c]
             P == {n \in DOMAIN gens : gens[n].conv = k}
  <2>1. CASE k \notin alive
    BY <1>4, <2>1 DEF DeleteErases, RowsOK, Existing
  <2>2. CASE k \in alive
    <3>1. gens' = [n \in DOMAIN gens |->
             IF n \in P THEN [gens[n] EXCEPT !.status = "deleted"] ELSE gens[n]]
      BY <1>4, <2>2 DEF DeleteErases
    <3>2. /\ alive' = alive \ {k} /\ archived' = archived \ {k}
          /\ outbox' \subseteq outbox /\ UNCHANGED enqueued
      BY <1>4, <2>2 DEF DeleteErases
    <3>3. /\ gens' \in Seq(GenerationRow) /\ Len(gens') = Len(gens)
          /\ Existing' = Existing \ P
          /\ \A m \in DOMAIN gens : gens'[m].conv = gens[m].conv
      BY <3>1, StatusChanges
    <3>4. RowsOK'
      BY <3>2, <3>3 DEF RowsOK
    <3>5. \A n \in Existing' : gens'[n].conv \in alive'
      BY <1>0, <3>2, <3>3
    <3> QED
      BY <3>4, <3>5
  <2> QED
    BY <2>1, <2>2
<1> QED
  BY <1>1, <1>2, <1>3, <1>4, RowFrame

\* Every step keeps the calls well formed, and their requests with them.
LEMMA CallsStep ==
  ASSUME TypeOK, Busy, [Next]_vars
  PROVE  CallsOK' /\ Busy'
<1> USE DEF TypeOK, CallsOK, Busy, InTransaction, NoAnswer
<1>1. ASSUME UNCHANGED <<userLock, pc, request, answer, doomed, idsRead>>
      PROVE  CallsOK' /\ Busy'
  BY <1>1
<1>u. ASSUME NEW c \in Calls, Unlock(c)
      PROVE  userLock' \in Calls \cup {Nobody}
  BY <1>u DEF Unlock
<1>r. ASSUME NEW c \in Calls, Refuse(c)
      PROVE  /\ pc' \in [Calls -> {"idle", "lookup", "lock", "check", "insert",
                                   "raced", "erase"}]
             /\ request' \in [Calls -> Requests \cup {NoRequest}]
             /\ answer' \in [Calls -> Generations \cup {NoAnswer}]
             /\ Busy'
  BY <1>r DEF Refuse
<1>a. ASSUME NEW c \in Calls, NEW n \in Generations, Reply(c, n)
      PROVE  /\ pc' \in [Calls -> {"idle", "lookup", "lock", "check", "insert",
                                   "raced", "erase"}]
             /\ request' \in [Calls -> Requests \cup {NoRequest}]
             /\ answer' \in [Calls -> Generations \cup {NoAnswer}]
             /\ Busy'
  BY <1>a DEF Reply
<1>k. ASSUME NEW key PROVE HasKey(key) \subseteq Generations
  BY ExistingNumbers DEF HasKey
<1>2. ASSUME NEW c \in Calls, Begin(c) PROVE CallsOK' /\ Busy'
  <2>1. PICK q \in Requests : request' = [request EXCEPT ![c] = q]
    BY <1>2 DEF Begin
  <2>2. /\ pc' = [pc EXCEPT ![c] = "lookup"]
        /\ answer' = [answer EXCEPT ![c] = 0]
        /\ UNCHANGED <<userLock, doomed, idsRead>>
    BY <1>2 DEF Begin, Go, deleteVars
  <2>3. Busy'
    BY <2>1, <2>2
  <2> QED
    BY <2>1, <2>2, <2>3
<1>3. ASSUME NEW c \in Calls, Lookup(c) \/ Raced(c) PROVE CallsOK' /\ Busy'
  <2>1. UNCHANGED <<userLock, doomed, idsRead>>
    BY <1>3 DEF Lookup, Raced, deleteVars
  <2>2. \/ \E n \in Generations : Reply(c, n)
        \/ Refuse(c)
        \/ /\ pc[c] = "lookup"
           /\ pc' = [pc EXCEPT ![c] = "lock"]
           /\ UNCHANGED <<request, answer>>
    BY <1>3, <1>k DEF Lookup, Raced, Resolve, Go
  <2>3. CASE pc[c] = "lookup" /\ pc' = [pc EXCEPT ![c] = "lock"]
                /\ UNCHANGED <<request, answer>>
    <3>1. Busy'
      BY <2>3
    <3> QED
      BY <2>1, <2>3, <3>1
  <2> QED
    BY <2>1, <2>2, <2>3, <1>a, <1>r
<1>4. ASSUME NEW c \in Calls, Lock(c) \/ InsertConflicts(c)
      PROVE  CallsOK' /\ Busy'
  <2>1. /\ UNCHANGED <<request, answer, doomed, idsRead>>
        /\ \/ pc[c] = "lock" /\ pc' = [pc EXCEPT ![c] = "check"] /\ userLock' = c
           \/ /\ pc[c] = "insert" /\ pc' = [pc EXCEPT ![c] = "raced"]
              /\ Unlock(c)
    BY <1>4 DEF Lock, InsertConflicts, Go, deleteVars
  <2>2. Busy'
    BY <2>1
  <2>3. userLock' \in Calls \cup {Nobody}
    BY <2>1, <1>u
  <2> QED
    BY <2>1, <2>2, <2>3
<1>5. ASSUME NEW c \in Calls, Check(c) PROVE CallsOK' /\ Busy'
  <2>1. UNCHANGED <<doomed, idsRead>>
    BY <1>5 DEF Check, deleteVars
  <2>2. CASE Refuse(c) /\ Unlock(c)
    BY <2>1, <2>2, <1>r, <1>u
  <2>3. CASE pc[c] = "check" /\ pc' = [pc EXCEPT ![c] = "insert"]
                /\ UNCHANGED <<userLock, request, answer>>
    <3>1. Busy'
      BY <2>3
    <3> QED
      BY <2>1, <2>3, <3>1
  <2> QED
    BY <1>5, <2>2, <2>3 DEF Check, Go
<1>6. ASSUME NEW c \in Calls, Insert(c) PROVE CallsOK' /\ Busy'
  <2>1. Len(gens) + 1 \in Generations
    BY <1>6, InsertAppends, ExistingNumbers DEF Generations
  <2>2. UNCHANGED <<doomed, idsRead>> /\ Unlock(c)
    BY <1>6 DEF Insert, deleteVars
  <2> QED
    BY <1>6, <2>1, <2>2, <1>a, <1>r, <1>u DEF Insert
<1>7. ASSUME NEW c \in Calls, TransactionFails(c) PROVE CallsOK' /\ Busy'
  BY <1>7, <1>r, <1>u DEF TransactionFails, deleteVars
<1>8. ASSUME NEW c \in Calls, NEW k \in Conversations, DeleteReads(c, k)
      PROVE  CallsOK' /\ Busy'
  <2>1. GenerationsOf(k) \in SUBSET Generations
    BY ExistingNumbers DEF GenerationsOf
  <2>2. /\ pc' = [pc EXCEPT ![c] = "erase"]
        /\ doomed' = [doomed EXCEPT ![c] = k]
        /\ idsRead' = [idsRead EXCEPT ![c] = GenerationsOf(k)]
        /\ answer' = [answer EXCEPT ![c] = 0]
        /\ request' = [request EXCEPT ![c] = NoRequest]
        /\ UNCHANGED userLock
    BY <1>8 DEF DeleteReads, Go
  <2>3. Busy'
    BY <2>2
  <2> QED
    BY <2>1, <2>2, <2>3
<1>9. ASSUME NEW c \in Calls, DeleteErases(c) PROVE CallsOK' /\ Busy'
  <2>1. /\ pc' = [pc EXCEPT ![c] = "idle"]
        /\ doomed' = [doomed EXCEPT ![c] = 0]
        /\ idsRead' = [idsRead EXCEPT ![c] = {}]
        /\ UNCHANGED <<userLock, request, answer>>
    BY <1>9 DEF DeleteErases, Go
  <2>2. 0 \in Conversations
    BY DEF Conversations
  <2>3. Busy'
    BY <2>1
  <2> QED
    BY <2>1, <2>2, <2>3
<1>10. ASSUME \/ \E k \in Conversations : Archive(k) \/ Restore(k)
              \/ \E n \in Generations : Settle(n) \/ Enqueue(n)
              \/ UNCHANGED vars
       PROVE  CallsOK' /\ Busy'
  BY <1>1, <1>10 DEF Archive, Restore, Settle, Enqueue, vars, deleteVars
<1> QED
  BY <1>2, <1>3, <1>4, <1>5, <1>6, <1>7, <1>8, <1>9, <1>10
     DEF Next, CreateStep

----------------------------------------------------------------------------
(* The quota                                                               *)

\* The active generations can be counted.
LEMMA ActiveFinite ==
  ASSUME TypeOK
  PROVE  IsFiniteSet(ActiveNow) /\ Cardinality(ActiveNow) \in Nat
<1>1. ActiveNow \subseteq 1 .. Len(gens) /\ Len(gens) \in Nat
  BY ExistingNumbers DEF Existing, ActiveNow
<1>2. IsFiniteSet(1 .. Len(gens))
  BY <1>1, FS_Interval
<1> QED
  BY <1>1, <1>2, FS_Subset, FS_CardinalityType

\* The same after a step.
LEMMA ActiveFiniteNext ==
  TypeOK' => IsFiniteSet(ActiveNow') /\ Cardinality(ActiveNow') \in Nat
<1> DEFINE Finite == IsFiniteSet(ActiveNow) /\ Cardinality(ActiveNow) \in Nat
<1>1. TypeOK => Finite
  BY ActiveFinite
<1>2. TypeOK' => Finite'
  BY <1>1, PTL
<1> QED
  BY <1>2

\* Only an insert makes a generation active.
LEMMA ActiveGrows ==
  ASSUME TypeOK, Busy, [Next]_vars
  PROVE  (\E c \in Calls : Insert(c)) \/ ActiveNow' \subseteq ActiveNow
<1>1. ASSUME UNCHANGED gens PROVE ActiveNow' = ActiveNow
  BY <1>1 DEF ActiveNow, Existing
<1>2. ASSUME NEW n \in ActiveNow, Settle(n) PROVE ActiveNow' \subseteq ActiveNow
  <2>1. PICK s \in {"completed", "failed"} :
           gens' = [gens EXCEPT ![n].status = s]
    BY <1>2 DEF Settle
  <2>2. gens' = [m \in DOMAIN gens |->
           IF m \in {n} THEN [gens[m] EXCEPT !.status = s] ELSE gens[m]]
    BY <2>1
  <2> QED
    BY <2>2, StatusChanges
<1>3. ASSUME NEW c \in Calls, DeleteErases(c)
      PROVE  ActiveNow' \subseteq ActiveNow
  <2> DEFINE P == {n \in DOMAIN gens : gens[n].conv = doomed[c]}
  <2>1. CASE UNCHANGED gens
    BY <1>1, <2>1
  <2>2. CASE gens' = [n \in DOMAIN gens |->
             IF n \in P THEN [gens[n] EXCEPT !.status = "deleted"] ELSE gens[n]]
    BY <2>2, StatusChanges
  <2> QED
    BY <1>3, <2>1, <2>2 DEF DeleteErases
<1> QED
  BY <1>1, <1>2, <1>3, RowFrame

\* The lock is held from the count to the commit.
LEMMA LockStep ==
  ASSUME TypeOK, LockHeld, [Next]_vars
  PROVE  LockHeld'
<1> USE DEF TypeOK, CallsOK, LockHeld, InTransaction
<1>1. ASSUME UNCHANGED <<userLock, pc>> PROVE LockHeld'
  BY <1>1
<1>2. ASSUME NEW c \in Calls, NEW p, p \notin InTransaction,
             pc' = [pc EXCEPT ![c] = p],
             UNCHANGED userLock \/ Unlock(c)
      PROVE  LockHeld'
  BY <1>2 DEF Unlock
<1>3. ASSUME NEW c \in Calls, Lock(c) PROVE LockHeld'
  <2>1. \A d \in Calls : pc[d] \notin InTransaction
    BY <1>3 DEF Lock
  <2> QED
    BY <1>3, <2>1 DEF Lock, Go
<1>4. ASSUME NEW c \in Calls, Check(c) PROVE LockHeld'
  <2>1. CASE Refuse(c) /\ Unlock(c)
    BY <1>2, <2>1 DEF Refuse
  <2>2. CASE pc[c] = "check" /\ pc' = [pc EXCEPT ![c] = "insert"]
                /\ UNCHANGED userLock
    BY <2>2
  <2> QED
    BY <1>4, <2>1, <2>2 DEF Check, Go
<1>5. ASSUME NEW c \in Calls,
             \/ Begin(c) \/ Lookup(c) \/ Insert(c) \/ InsertConflicts(c)
             \/ TransactionFails(c) \/ Raced(c) \/ DeleteErases(c)
             \/ \E k \in Conversations : DeleteReads(c, k)
      PROVE  LockHeld'
  <2>1. /\ UNCHANGED userLock \/ Unlock(c)
        /\ \/ pc' = [pc EXCEPT ![c] = "idle"]
           \/ pc' = [pc EXCEPT ![c] = "lookup"]
           \/ pc' = [pc EXCEPT ![c] = "lock"]
           \/ pc' = [pc EXCEPT ![c] = "raced"]
           \/ pc' = [pc EXCEPT ![c] = "erase"]
    BY <1>5 DEF Begin, Lookup, Insert, InsertConflicts, TransactionFails, Raced,
                DeleteErases, DeleteReads, Resolve, Reply, Refuse, Go
  <2> QED
    BY <1>2, <2>1
<1>6. ASSUME \/ \E k \in Conversations : Archive(k) \/ Restore(k)
             \/ \E n \in Generations : Settle(n) \/ Enqueue(n)
             \/ UNCHANGED vars
      PROVE  LockHeld'
  BY <1>1, <1>6 DEF Archive, Restore, Settle, Enqueue, vars
<1> QED
  BY <1>3, <1>4, <1>5, <1>6 DEF Next, CreateStep

\* The number of active generations only grows by an insert, which is made
\* by the one transaction that has counted them under the lock.
LEMMA QuotaStep ==
  ASSUME Inv, [Next]_vars, TypeOK', LockHeld'
  PROVE  Room' /\ QuotaHolds'
<1> USE DEF Inv
<1>1. /\ IsFiniteSet(ActiveNow) /\ Cardinality(ActiveNow) \in Nat
      /\ IsFiniteSet(ActiveNow') /\ Cardinality(ActiveNow') \in Nat
  BY ActiveFinite, ActiveFiniteNext
<1>2. ASSUME NEW c \in Calls, Insert(c) PROVE Room' /\ QuotaHolds'
  <2>1. Cardinality(ActiveNow) < Limit
    BY <1>2 DEF Insert, Room
  <2>2. ActiveNow' = ActiveNow \cup {Len(gens) + 1}
    BY <1>2, InsertAppends
  <2>3. Cardinality(ActiveNow') <= Cardinality(ActiveNow) + 1
    BY <1>1, <2>2, FS_AddElement
  <2>4. QuotaHolds'
    BY <1>1, <2>1, <2>3 DEF QuotaHolds
  <2>5. \A d \in Calls : pc'[d] # "insert"
    <3>1. pc' = [pc EXCEPT ![c] = "idle"]
      BY <1>2 DEF Insert, Reply, Refuse
    <3>2. \A d \in Calls : pc[d] = "insert" => d = c
      BY <1>2 DEF LockHeld, InTransaction, Insert
    <3> QED
      BY <3>1, <3>2 DEF TypeOK, CallsOK
  <2> QED
    BY <2>4, <2>5 DEF Room
<1>3. ASSUME ActiveNow' \subseteq ActiveNow PROVE Room' /\ QuotaHolds'
  <2>1. Cardinality(ActiveNow') <= Cardinality(ActiveNow)
    BY <1>1, <1>3, FS_Subset
  <2>2. QuotaHolds'
    BY <1>1, <2>1 DEF QuotaHolds
  <2>3. \A d \in Calls : pc'[d] = "insert" /\ pc[d] # "insert" =>
           Cardinality(ActiveNow) < Limit
    <3>1. ASSUME NEW c \in Calls, CreateStep(c), NEW d \in Calls,
                 pc'[d] = "insert", pc[d] # "insert"
          PROVE  Cardinality(ActiveNow) < Limit
      <4>1. CASE Check(c)
        <5>1. Admissible(request[c].body)
          BY <3>1, <4>1 DEF Check, Refuse, TypeOK, CallsOK
        <5> QED
          BY <5>1 DEF Admissible
      <4>2. CASE ~Check(c)
        BY <3>1, <4>2 DEF CreateStep, Begin, Lookup, Lock, Insert, Raced,
                          InsertConflicts, TransactionFails, Resolve, Reply,
                          Refuse, Go, TypeOK, CallsOK
      <4> QED
        BY <4>1, <4>2
    <3>2. ASSUME NEW c \in Calls,
                 DeleteErases(c) \/ \E k \in Conversations : DeleteReads(c, k),
                 NEW d \in Calls, pc'[d] = "insert", pc[d] # "insert"
          PROVE  FALSE
      BY <3>2 DEF DeleteErases, DeleteReads, Go, TypeOK, CallsOK
    <3>3. ASSUME \/ \E k \in Conversations : Archive(k) \/ Restore(k)
                 \/ \E n \in Generations : Settle(n) \/ Enqueue(n)
                 \/ UNCHANGED vars
          PROVE  UNCHANGED pc
      BY <3>3 DEF Archive, Restore, Settle, Enqueue, vars
    <3> QED
      BY <3>1, <3>2, <3>3 DEF Next
  <2>4. Room'
    BY <1>1, <2>1, <2>3 DEF Room
  <2> QED
    BY <2>2, <2>4
<1> QED
  BY <1>2, <1>3, ActiveGrows

\* All parts of the invariant together.
LEMMA InvStep == Inv /\ [Next]_vars => Inv'
<1> SUFFICES ASSUME Inv, [Next]_vars PROVE Inv'
  OBVIOUS
<1>1. TypeOK' /\ Busy'
  BY RowsStep, CallsStep DEF Inv, TypeOK
<1>2. LockHeld'
  BY LockStep DEF Inv
<1>3. Room' /\ QuotaHolds'
  BY <1>1, <1>2, QuotaStep
<1> QED
  BY <1>1, <1>2, <1>3 DEF Inv

\* Rows and calls stay well formed, and no row outlives its conversation.
THEOREM TypeCorrect == Spec => []TypeOK
<1>1. Inv => TypeOK
  BY DEF Inv
<1> QED
  BY <1>1, InitInv, InvStep, PTL DEF Spec

\* No interleaving of creates, retries, deletions and settlements lets the
\* user have more active generations than the limit.
THEOREM QuotaNeverExceeded == Spec => []QuotaHolds
<1>1. Inv => QuotaHolds
  BY DEF Inv
<1> QED
  BY <1>1, InitInv, InvStep, PTL DEF Spec

----------------------------------------------------------------------------
(* Keys, answers and enqueue rows                                          *)

\* The unique index: no two generations that exist have the same key.
KeysUnique == \A m, n \in Existing : gens[m].key = gens[n].key => m = n

\* A call under way has no answer yet: only a request that is over can have
\* one, and it is kept as long as the answer is.
Unanswered ==
    \A c \in Calls :
        pc[c] \in {"lookup", "lock", "raced"} \cup InTransaction => answer[c] = NoAnswer

Answered ==
    \A c \in Calls : answer[c] # NoAnswer =>
        /\ answer[c] \in DOMAIN gens
        /\ gens[answer[c]].key = request[c].key
        /\ gens[answer[c]].body = request[c].body

\* A delete call takes away the enqueue rows of its own conversation only.
OwnRows ==
    \A c \in Calls : \A n \in idsRead[c] : n \in DOMAIN gens /\ gens[n].conv = doomed[c]

Traced == KeysUnique /\ Unanswered /\ Answered /\ OwnRows /\ ActiveIsEnqueued

LEMMA InitTraced == Init => Traced
<1> SUFFICES ASSUME Init PROVE Traced
  OBVIOUS
<1>1. Existing = {} /\ ActiveNow = {}
  BY EmptySeq DEF Init, Existing, ActiveNow
<1> QED
  BY <1>1 DEF Init, Traced, KeysUnique, Unanswered, Answered, OwnRows, ActiveIsEnqueued

\* A row keeps its key, body and conversation for good.
LEMMA StatusOnly ==
  ASSUME TypeOK, NEW P, NEW s, s \in {"completed", "failed", "deleted"},
         gens' = [n \in DOMAIN gens |->
                    IF n \in P THEN [gens[n] EXCEPT !.status = s] ELSE gens[n]]
  PROVE  /\ DOMAIN gens' = DOMAIN gens
         /\ \A n \in DOMAIN gens : /\ gens'[n].key = gens[n].key
                                   /\ gens'[n].body = gens[n].body
                                   /\ gens'[n].conv = gens[n].conv
<1>1. \A n \in DOMAIN gens : gens[n] \in GenerationRow
  BY ExistingNumbers
<1> QED
  BY <1>1 DEF GenerationRow

LEMMA RowsKept ==
  ASSUME TypeOK, Busy, [Next]_vars
  PROVE  /\ DOMAIN gens \subseteq DOMAIN gens'
         /\ \A n \in DOMAIN gens : /\ gens'[n].key = gens[n].key
                                   /\ gens'[n].body = gens[n].body
                                   /\ gens'[n].conv = gens[n].conv
         /\ (\E c \in Calls : Insert(c)) \/ Existing' \subseteq Existing
<1>1. ASSUME NEW c \in Calls, Insert(c)
      PROVE  DOMAIN gens \subseteq DOMAIN gens' /\ \A n \in DOMAIN gens : gens'[n] = gens[n]
  <2>1. /\ gens' \in Seq(GenerationRow) /\ Len(gens') = Len(gens) + 1
        /\ \A n \in DOMAIN gens : gens'[n] = gens[n]
    BY <1>1, InsertAppends
  <2>2. DOMAIN gens' = 1 .. (Len(gens) + 1)
    BY <2>1, LenProperties
  <2> QED
    BY <2>1, <2>2, ExistingNumbers
<1>2. ASSUME NEW n \in ActiveNow, Settle(n)
      PROVE  \E s \in {"completed", "failed"} :
                gens' = [m \in DOMAIN gens |->
                   IF m \in {n} THEN [gens[m] EXCEPT !.status = s] ELSE gens[m]]
  BY <1>2 DEF Settle
<1>3. ASSUME NEW c \in Calls, DeleteErases(c)
      PROVE  \/ UNCHANGED gens
             \/ \E P : gens' = [n \in DOMAIN gens |->
                   IF n \in P THEN [gens[n] EXCEPT !.status = "deleted"] ELSE gens[n]]
  <2> DEFINE P == {n \in DOMAIN gens : gens[n].conv = doomed[c]}
  <2>1. \/ UNCHANGED gens
        \/ gens' = [n \in DOMAIN gens |->
             IF n \in P THEN [gens[n] EXCEPT !.status = "deleted"] ELSE gens[n]]
    BY <1>3 DEF DeleteErases
  <2> QED
    BY <2>1
<1>4. ASSUME NEW c \in Calls, DeleteErases(c)
      PROVE  Existing' \subseteq Existing
  <2>1. CASE UNCHANGED gens
    BY <2>1 DEF Existing
  <2>2. CASE \E P : gens' = [n \in DOMAIN gens |->
                IF n \in P THEN [gens[n] EXCEPT !.status = "deleted"] ELSE gens[n]]
    <3>1. PICK P : gens' = [n \in DOMAIN gens |->
                IF n \in P THEN [gens[n] EXCEPT !.status = "deleted"] ELSE gens[n]]
      BY <2>2
    <3>2. Existing' = Existing \ P
      BY <3>1, StatusChanges
    <3> QED
      BY <3>2
  <2> QED
    BY <1>3, <1>4, <2>1, <2>2
<1>5. ASSUME NEW n \in ActiveNow, Settle(n)
      PROVE  Existing' \subseteq Existing
  <2>1. n \in Existing
    BY DEF ActiveNow
  <2>2. PICK s \in {"completed", "failed"} : gens' = [gens EXCEPT ![n].status = s]
    BY <1>5 DEF Settle
  <2>3. DOMAIN gens' = DOMAIN gens /\ \A m \in DOMAIN gens : m # n => gens'[m] = gens[m]
    BY <2>2
  <2> QED
    BY <2>1, <2>3 DEF Existing
<1>6. UNCHANGED gens => UNCHANGED Existing
  BY DEF Existing
<1>7. /\ DOMAIN gens \subseteq DOMAIN gens'
      /\ \A n \in DOMAIN gens : /\ gens'[n].key = gens[n].key
                                /\ gens'[n].body = gens[n].body
                                /\ gens'[n].conv = gens[n].conv
  <2>1. CASE UNCHANGED gens
    BY <2>1
  <2>2. CASE \E c \in Calls : Insert(c)
    BY <1>1, <2>2
  <2>3. ASSUME NEW P, NEW s \in {"completed", "failed", "deleted"},
               gens' = [n \in DOMAIN gens |->
                          IF n \in P THEN [gens[n] EXCEPT !.status = s] ELSE gens[n]]
        PROVE  /\ DOMAIN gens \subseteq DOMAIN gens'
               /\ \A n \in DOMAIN gens : /\ gens'[n].key = gens[n].key
                                         /\ gens'[n].body = gens[n].body
                                         /\ gens'[n].conv = gens[n].conv
    BY <2>3, StatusOnly
  <2>4. CASE \E n \in ActiveNow : Settle(n)
    <3>1. PICK n \in ActiveNow : Settle(n)
      BY <2>4
    <3>2. PICK s \in {"completed", "failed"} :
             gens' = [m \in DOMAIN gens |->
                IF m \in {n} THEN [gens[m] EXCEPT !.status = s] ELSE gens[m]]
      BY <1>2, <3>1
    <3> QED
      BY <2>3, <3>2
  <2>5. CASE \E c \in Calls : DeleteErases(c)
    BY <1>3, <2>1, <2>3, <2>5
  <2> QED
    BY <2>1, <2>2, <2>4, <2>5, RowFrame
<1> QED
  BY <1>4, <1>5, <1>6, <1>7, RowFrame

\* An insert is refused where the key has a generation already.
LEMMA KeysStep ==
  ASSUME TypeOK, Busy, KeysUnique, [Next]_vars
  PROVE  KeysUnique'
<1>0. Existing \subseteq DOMAIN gens
  BY DEF Existing
<1>1. ASSUME NEW c \in Calls, Insert(c)
      PROVE  KeysUnique'
  <2> DEFINE new == Len(gens) + 1
  <2>1. Existing' = Existing \cup {new} /\ \A n \in DOMAIN gens : gens'[n] = gens[n]
    BY <1>1, InsertAppends
  <2>2. HasKey(request[c].key) = {}
    BY <1>1 DEF Insert, Conflict
  <2>3. gens'[new].key = request[c].key
    <3> DEFINE row == [key |-> request[c].key, body |-> request[c].body,
                       conv |-> Home(request[c].body), status |-> "active"]
    <3>1. gens' = Append(gens, row)
      BY <1>1 DEF Insert, InsertRows
    <3>2. row.key = request[c].key
      OBVIOUS
    <3> HIDE DEF row
    <3>3. gens'[new] = row
      BY <3>1, AppendProperties DEF TypeOK, RowsOK
    <3> QED
      BY <3>2, <3>3
  <2>4. \A n \in Existing : gens'[n].key # gens'[new].key
    BY <1>0, <2>1, <2>2, <2>3 DEF HasKey
  <2> HIDE DEF new
  <2> QED
    BY <1>0, <2>1, <2>4 DEF KeysUnique
<1>2. CASE Existing' \subseteq Existing
  BY <1>0, <1>2, RowsKept DEF KeysUnique
<1> QED
  BY <1>1, <1>2, RowsKept

\* What the calls know of the rows stays true.
LEMMA AnswersKept ==
  ASSUME TypeOK, Busy, [Next]_vars, Answered, UNCHANGED <<request, answer>>
  PROVE  Answered'
BY RowsKept DEF Answered

LEMMA CallAnswered ==
  ASSUME TypeOK, Busy, Unanswered, Answered, NEW c \in Calls, CreateStep(c), [Next]_vars
  PROVE  Unanswered' /\ Answered'
<1> USE DEF InTransaction, NoAnswer
<1>0. /\ pc \in [Calls -> {"idle", "lookup", "lock", "check", "insert", "raced", "erase"}]
      /\ answer \in [Calls -> Generations \cup {NoAnswer}]
      /\ request \in [Calls -> Requests \cup {NoRequest}]
  BY DEF TypeOK, CallsOK
<1>1. ASSUME NEW to, pc' = [pc EXCEPT ![c] = to], answer[c] = NoAnswer,
             UNCHANGED <<request, answer>>
      PROVE  Unanswered' /\ Answered'
  <2>1. Answered'
    BY <1>1, AnswersKept
  <2>2. Unanswered'
    BY <1>0, <1>1 DEF Unanswered
  <2> QED
    BY <2>1, <2>2
<1>2. ASSUME answer[c] = NoAnswer, Refuse(c)
      PROVE  Unanswered' /\ Answered'
  <2>1. Answered'
    BY <1>0, <1>2, RowsKept DEF Refuse, Answered
  <2>2. Unanswered'
    BY <1>0, <1>2 DEF Refuse, Unanswered
  <2> QED
    BY <2>1, <2>2
<1>3. ASSUME NEW n \in DOMAIN gens', Reply(c, n),
             gens'[n].key = request[c].key, gens'[n].body = request[c].body
      PROVE  Unanswered' /\ Answered'
  <2>1. Answered'
    BY <1>0, <1>3, RowsKept DEF Reply, Answered
  <2>2. Unanswered'
    BY <1>0, <1>3 DEF Reply, Unanswered
  <2> QED
    BY <2>1, <2>2
<1>4. CASE Begin(c)
  <2>1. PICK q \in Requests : request' = [request EXCEPT ![c] = q]
    BY <1>4 DEF Begin
  <2>2. answer' = [answer EXCEPT ![c] = NoAnswer] /\ pc' = [pc EXCEPT ![c] = "lookup"]
    BY <1>4 DEF Begin, Go
  <2>3. Answered'
    BY <1>0, <2>1, <2>2, RowsKept DEF Answered
  <2>4. Unanswered'
    BY <1>0, <2>2 DEF Unanswered
  <2> QED
    BY <2>3, <2>4
<1>5. CASE Lookup(c) \/ Raced(c)
  <2>1. answer[c] = NoAnswer /\ UNCHANGED gens
    BY <1>5 DEF Lookup, Raced, Unanswered, dataVars
  <2>2. ASSUME NEW n \in HasKey(request[c].key), Resolve(c, n)
        PROVE  Unanswered' /\ Answered'
    <3>1. n \in DOMAIN gens' /\ gens'[n].key = request[c].key
      BY <2>1, <2>2 DEF HasKey, Existing
    <3>2. \/ gens[n].body = request[c].body /\ Reply(c, n)
          \/ Refuse(c)
      BY <2>2 DEF Resolve
    <3> QED
      BY <1>2, <1>3, <2>1, <3>1, <3>2
  <2> QED
    BY <1>1, <1>2, <1>5, <2>1, <2>2 DEF Lookup, Raced, Go
<1>6. CASE Lock(c) \/ InsertConflicts(c)
  <2>1. answer[c] = NoAnswer /\ UNCHANGED <<request, answer>>
    BY <1>6 DEF Lock, InsertConflicts, Go, Unanswered
  <2>2. \E to : pc' = [pc EXCEPT ![c] = to]
    BY <1>6 DEF Lock, InsertConflicts, Go
  <2> QED
    BY <1>1, <2>1, <2>2
<1>7. CASE Check(c) \/ TransactionFails(c)
  <2>1. answer[c] = NoAnswer
    BY <1>7 DEF Check, TransactionFails, Unanswered
  <2> QED
    BY <1>1, <1>2, <1>7, <2>1 DEF Check, TransactionFails, Go
<1>8. CASE Insert(c)
  <2>1. answer[c] = NoAnswer
    BY <1>8 DEF Insert, Unanswered
  <2> DEFINE new == Len(gens) + 1
             row == [key |-> request[c].key, body |-> request[c].body,
                     conv |-> Home(request[c].body), status |-> "active"]
  <2>2. gens' = Append(gens, row)
    BY <1>8 DEF Insert, InsertRows
  <2>3. row.key = request[c].key /\ row.body = request[c].body
    OBVIOUS
  <2> HIDE DEF row
  <2>4. gens'[new] = row /\ new \in DOMAIN gens'
    <3>1. gens' \in Seq(GenerationRow) /\ Len(gens') = Len(gens) + 1 /\ Len(gens) \in Nat
      BY <1>8, InsertAppends, ExistingNumbers
    <3>2. DOMAIN gens' = 1 .. (Len(gens) + 1)
      BY <3>1, LenProperties
    <3>3. gens'[new] = row
      BY <2>2, AppendProperties DEF TypeOK, RowsOK
    <3> QED
      BY <3>1, <3>2, <3>3
  <2>5. Reply(c, new) \/ Refuse(c)
    BY <1>8 DEF Insert
  <2> HIDE DEF new
  <2> QED
    BY <1>2, <1>3, <2>1, <2>3, <2>4, <2>5
<1> QED
  BY <1>4, <1>5, <1>6, <1>7, <1>8 DEF CreateStep

LEMMA AnswersStep ==
  ASSUME TypeOK, Busy, Unanswered, Answered, [Next]_vars
  PROVE  Unanswered' /\ Answered'
<1> USE DEF InTransaction, NoAnswer
<1>0. /\ pc \in [Calls -> {"idle", "lookup", "lock", "check", "insert", "raced", "erase"}]
      /\ answer \in [Calls -> Generations \cup {NoAnswer}]
      /\ request \in [Calls -> Requests \cup {NoRequest}]
  BY DEF TypeOK, CallsOK
<1>1. ASSUME NEW c \in Calls, NEW k \in Conversations, DeleteReads(c, k)
      PROVE  Unanswered' /\ Answered'
  <2>1. /\ answer' = [answer EXCEPT ![c] = NoAnswer] /\ pc' = [pc EXCEPT ![c] = "erase"]
        /\ request' = [request EXCEPT ![c] = NoRequest]
    BY <1>1 DEF DeleteReads, Go
  <2>2. Answered'
    BY <1>0, <2>1, RowsKept DEF Answered
  <2>3. Unanswered'
    BY <1>0, <2>1 DEF Unanswered
  <2> QED
    BY <2>2, <2>3
<1>2. ASSUME NEW c \in Calls, DeleteErases(c)
      PROVE  Unanswered' /\ Answered'
  <2>1. UNCHANGED <<request, answer>> /\ pc' = [pc EXCEPT ![c] = "idle"]
    BY <1>2 DEF DeleteErases, Go
  <2>2. Answered'
    BY <2>1, AnswersKept
  <2>3. Unanswered'
    BY <1>0, <2>1 DEF Unanswered
  <2> QED
    BY <2>2, <2>3
<1>3. ASSUME UNCHANGED <<pc, request, answer>>
      PROVE  Unanswered' /\ Answered'
  <2>1. Answered'
    BY <1>3, AnswersKept
  <2> QED
    BY <1>3, <2>1 DEF Unanswered
<1>4. CASE \/ \E k \in Conversations : Archive(k) \/ Restore(k)
           \/ \E n \in Generations : Settle(n) \/ Enqueue(n)
           \/ UNCHANGED vars
  BY <1>3, <1>4 DEF Archive, Restore, Settle, Enqueue, vars
<1> QED
  BY <1>1, <1>2, <1>4, CallAnswered DEF Next

\* The generations a delete call has read stay those of its conversation.
LEMMA OwnRowsStep ==
  ASSUME TypeOK, Busy, OwnRows, [Next]_vars
  PROVE  OwnRows'
<1>0. doomed \in [Calls -> Conversations] /\ idsRead \in [Calls -> SUBSET Generations]
  BY DEF TypeOK, CallsOK
<1>1. CASE UNCHANGED deleteVars
  BY <1>1, RowsKept DEF OwnRows, deleteVars
<1>2. ASSUME NEW c \in Calls, NEW k \in Conversations, DeleteReads(c, k)
      PROVE  OwnRows'
  <2>1. /\ doomed' = [doomed EXCEPT ![c] = k]
        /\ idsRead' = [idsRead EXCEPT ![c] = GenerationsOf(k)]
    BY <1>2 DEF DeleteReads
  <2>2. \A n \in GenerationsOf(k) : n \in DOMAIN gens /\ gens[n].conv = k
    BY DEF GenerationsOf, Existing
  <2> QED
    BY <1>0, <2>1, <2>2, RowsKept DEF OwnRows
<1>3. ASSUME NEW c \in Calls, DeleteErases(c)
      PROVE  OwnRows'
  <2>1. doomed' = [doomed EXCEPT ![c] = 0] /\ idsRead' = [idsRead EXCEPT ![c] = {}]
    BY <1>3 DEF DeleteErases
  <2> QED
    BY <1>0, <2>1, RowsKept DEF OwnRows
<1>4. ASSUME NEW c \in Calls, CreateStep(c)
      PROVE  OwnRows'
  BY <1>1, <1>4 DEF CreateStep, Begin, Lookup, Lock, Check, Insert, InsertConflicts,
                    TransactionFails, Raced
<1>5. CASE \/ \E k \in Conversations : Archive(k) \/ Restore(k)
           \/ \E n \in Generations : Settle(n) \/ Enqueue(n)
           \/ UNCHANGED vars
  BY <1>1, <1>5 DEF Archive, Restore, Settle, Enqueue, vars
<1> QED
  BY <1>2, <1>3, <1>4, <1>5 DEF Next

\* A delete call that takes enqueue rows away takes their generations, too.
LEMMA EnqueuedStep ==
  ASSUME TypeOK, Busy, OwnRows, ActiveIsEnqueued, [Next]_vars
  PROVE  ActiveIsEnqueued'
<1>0. ActiveNow \subseteq DOMAIN gens
  BY DEF ActiveNow, Existing
<1>1. ASSUME UNCHANGED gens PROVE ActiveNow' = ActiveNow
  BY <1>1 DEF ActiveNow, Existing
<1>2. ASSUME NEW c \in Calls, Insert(c)
      PROVE  ActiveIsEnqueued'
  BY <1>2, InsertAppends DEF ActiveIsEnqueued
<1>3. ASSUME NEW c \in Calls, CreateStep(c), ~Insert(c)
      PROVE  ActiveIsEnqueued'
  BY <1>1, <1>3 DEF CreateStep, Begin, Lookup, Lock, Check, InsertConflicts,
                    TransactionFails, Raced, dataVars, ActiveIsEnqueued
<1>4. ASSUME NEW c \in Calls, DeleteErases(c)
      PROVE  ActiveIsEnqueued'
  <2> DEFINE P == {n \in DOMAIN gens : gens[n].conv = doomed[c]}
  <2>1. CASE UNCHANGED <<gens, outbox>>
    BY <1>1, <1>4, <2>1 DEF DeleteErases, ActiveIsEnqueued
  <2>2. CASE /\ gens' = [n \in DOMAIN gens |->
                  IF n \in P THEN [gens[n] EXCEPT !.status = "deleted"] ELSE gens[n]]
             /\ outbox' = outbox \ idsRead[c]
    <3>1. ActiveNow' = ActiveNow \ P
      BY <2>2, StatusChanges
    <3>2. idsRead[c] \subseteq P
      BY DEF OwnRows
    <3>3. UNCHANGED enqueued
      BY <1>4 DEF DeleteErases
    <3> HIDE DEF P
    <3> QED
      BY <2>2, <3>1, <3>2, <3>3 DEF ActiveIsEnqueued
  <2> QED
    BY <1>4, <2>1, <2>2 DEF DeleteErases
<1>5. ASSUME NEW n \in Generations, Settle(n)
      PROVE  ActiveIsEnqueued'
  <2>1. PICK s \in {"completed", "failed"} : gens' = [gens EXCEPT ![n].status = s]
    BY <1>5 DEF Settle
  <2>2. gens' = [m \in DOMAIN gens |->
           IF m \in {n} THEN [gens[m] EXCEPT !.status = s] ELSE gens[m]]
    BY <2>1
  <2>3. ActiveNow' \subseteq ActiveNow
    BY <2>2, StatusChanges
  <2>4. UNCHANGED <<outbox, enqueued>>
    BY <1>5 DEF Settle
  <2> QED
    BY <2>3, <2>4 DEF ActiveIsEnqueued
<1>6. ASSUME NEW n \in Generations, Enqueue(n)
      PROVE  ActiveIsEnqueued'
  BY <1>1, <1>6 DEF Enqueue, ActiveIsEnqueued
<1>7. CASE \/ \E c \in Calls, k \in Conversations : DeleteReads(c, k)
           \/ \E k \in Conversations : Archive(k) \/ Restore(k)
           \/ UNCHANGED vars
  BY <1>1, <1>7 DEF DeleteReads, Archive, Restore, vars, dataVars, ActiveIsEnqueued
<1> QED
  BY <1>2, <1>3, <1>4, <1>5, <1>6, <1>7 DEF Next

LEMMA TracedStep == Inv /\ Traced /\ [Next]_vars => Traced'
BY KeysStep, AnswersStep, OwnRowsStep, EnqueuedStep DEF Inv, Traced

LEMMA TracedHolds == Spec => [](Inv /\ Traced)
BY InitInv, InvStep, InitTraced, TracedStep, PTL DEF Spec

\* A call is answered with a generation made for its own key and body, even
\* when another call created it first (resolveExisting).
THEOREM AnswersAlwaysMatch == Spec => []AnswersMatch
<1>1. Traced => AnswersMatch
  BY DEF Traced, Answered, AnswersMatch
<1> QED
  BY <1>1, TracedHolds, PTL

\* One key has one generation, however calls race (the unique index and the
\* second look after a conflict).
THEOREM KeyMeansOneGeneration == Spec => []SameKeySameGeneration
<1>1. ASSUME TypeOK, Traced
      PROVE  SameKeySameGeneration
  <2> SUFFICES ASSUME NEW c \in Calls, NEW d \in Calls,
                      answer[c] \in Existing, answer[d] \in Existing,
                      request[c].key = request[d].key
               PROVE  answer[c] = answer[d]
    BY DEF SameKeySameGeneration
  <2>1. answer[c] # NoAnswer /\ answer[d] # NoAnswer
    BY <1>1, ExistingNumbers DEF NoAnswer, Generations
  <2>2. gens[answer[c]].key = gens[answer[d]].key
    BY <1>1, <2>1 DEF Traced, Answered
  <2> QED
    BY <1>1, <2>2 DEF Traced, KeysUnique
<1> QED
  BY <1>1, TracedHolds, PTL DEF Inv

\* An active generation never loses its enqueue row: no deletion takes it.
THEOREM ActiveStaysEnqueued == Spec => []ActiveIsEnqueued
BY TracedHolds, PTL DEF Traced
=============================================================================
